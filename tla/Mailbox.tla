------------------------------ MODULE Mailbox ------------------------------
(***************************************************************************)
(* What the ChatServers promise of text messages: a message belongs to one *)
(* sender and one addressee, is stored once and for good, and only then is *)
(* it confirmed to the sender or handed to the addressee, who alone gets   *)
(* it.                                                                     *)
(***************************************************************************)
CONSTANTS User, Msg, Talk, None

VARIABLES
    sent,       \* the pair <<from, to>> a message was written for, or None
    stored,     \* messages the server keeps
    confirmed,  \* messages whose sender was told Success
    got         \* messages a user was shown

vars == <<sent, stored, confirmed, got>>

Init ==
    /\ sent = [m \in Msg |-> None]
    /\ stored = {} /\ confirmed = {}
    /\ got = [u \in User |-> {}]

\* A client writes the messages M, or repeats some of them.
Write(p, M) ==
    /\ \A m \in M : sent[m] \in {None, p}
    /\ sent' = [m \in Msg |-> IF m \in M THEN p ELSE sent[m]]
    /\ UNCHANGED <<stored, confirmed, got>>

Store(m) ==
    /\ sent[m] # None
    /\ stored' = stored \cup {m}
    /\ UNCHANGED <<sent, confirmed, got>>

For(u) == {m \in stored : sent[m] # None /\ sent[m][2] = u}

\* Of what is stored, S is handed to its addressee u and C is confirmed.
Deliver(u, S, C) ==
    /\ S \subseteq For(u) /\ C \subseteq stored
    /\ got' = [got EXCEPT ![u] = @ \cup S]
    /\ confirmed' = confirmed \cup C
    /\ UNCHANGED <<sent, stored>>

Next ==
    \/ \E p \in Talk, M \in SUBSET Msg : Write(p, M)
    \/ \E m \in Msg : Store(m)
    \/ \E u \in User : \E S \in SUBSET For(u), C \in SUBSET stored : Deliver(u, S, C)

Spec == Init /\ [][Next]_vars
=============================================================================
