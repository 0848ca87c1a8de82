-------------------------------- MODULE Seat --------------------------------
(***************************************************************************)
(* What LoginHandler promises about concurrent logins: each user has one   *)
(* seat in the cluster, and it is left before another session takes it.    *)
(***************************************************************************)
CONSTANTS Session, Uid, None

VARIABLE seat   \* the session that is logged in as a user, or None

Init == seat = [u \in Uid |-> None]

Take(u, s) == seat[u] = None /\ seat' = [seat EXCEPT ![u] = s]

\* A kick or a lost connection empties a seat, a crash those of a whole server.
Leave(U) == seat' = [u \in Uid |-> IF u \in U THEN None ELSE seat[u]]

Next ==
    \/ \E u \in Uid, s \in Session : Take(u, s)
    \/ \E U \in SUBSET Uid : Leave(U)

Spec == Init /\ [][Next]_seat
=============================================================================
