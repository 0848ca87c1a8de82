--------------------------- MODULE StatusService ---------------------------
(***************************************************************************)
(* StatusServer: GetChatServer picks the ChatServer with the fewest        *)
(* sessions, by the counts that the ChatServers keep in Redis with a TTL,  *)
(* and hands out a token for the login there.  A call and its token bear   *)
(* the name of the HTTP request they are for.  ok tells whether a Redis    *)
(* command succeeds.                                                       *)
(***************************************************************************)
EXTENDS Naturals, Sequences

CONSTANTS
    Request,
    User,
    Server,
    Old,        \* the servers that run ChatServer_2
    Order,      \* all servers, in the order of the map _servers
    MaxCount,   \* bound on the sessions of a server
    None

ASSUME OldAssumption   == Old \subseteq Server
ASSUME OrderAssumption ==
    Order \in Seq(Server) /\ \A v \in Server : \E i \in 1..Len(Order) : Order[i] = v
ASSUME CountAssumption == MaxCount \in Nat
ASSUME AbsentAssumption ==
    /\ None \notin Request \cup (0..MaxCount)
    /\ None \notin [server: Server, count: 0..MaxCount]

VARIABLES
    alive,      \* the ChatServers that run
    ipcount,    \* Redis ipcount_<server>: None or a number of sessions; always with a TTL
    token,      \* Redis utoken_<uid>: None or the token and whether it has a TTL
    status,     \* status[r]: the call of request r: pc, user, next server to read, the best so far, error
    choosing,   \* _server_mtx: the request that has it
    steady      \* history: the counts that have not changed and that no read has failed to get
                \* since choosing has the mutex

choiceVars == <<status, choosing>>
statusVars == <<alive, ipcount, token, choiceVars, steady>>

INT_MAX == MaxCount + 1

StatusInit ==
    /\ alive    = Server
    /\ ipcount  = [v \in Server |-> IF v \in Old THEN None ELSE 0]
    /\ token    = [u \in User |-> None]
    /\ status   = [r \in Request |->
                     [pc |-> "idle", user |-> None, next |-> 1, best |-> None, error |-> FALSE]]
    /\ choosing = None
    /\ steady   = [v \in Server |-> None]

StatusTypeOK ==
    /\ alive    \subseteq Server
    /\ ipcount  \in [Server -> (0..MaxCount) \cup {None}]
    /\ token    \in [User -> [id: Request, ttl: BOOLEAN] \cup {None}]
    /\ \A r \in Request :
          /\ status[r].pc \in {"idle", "wait", "read", "insert", "expire", "done"}
          /\ status[r].next \in 1..(Len(Order) + 1)
          /\ status[r].pc = "read" <=> choosing = r
    /\ steady   \in [Server -> (0..MaxCount) \cup {None}]

-----------------------------------------------------------------------------
(* The ChatServers and their counts.                                        *)

CountTo(v, n) ==
    /\ ipcount' = [ipcount EXCEPT ![v] = n]
    /\ steady' = IF n = ipcount[v] THEN steady ELSE [steady EXCEPT ![v] = None]
    /\ UNCHANGED <<token, choiceVars>>

\* main: "0", for 90 s.
ServerStart(v) ==
    /\ v \notin alive \cup Old /\ alive' = alive \cup {v}
    /\ CountTo(v, 0)

\* main of ChatServer_2, which counts in a hash that nobody reads: its start and its end.
OldStartStop(v) ==
    /\ v \in Old /\ alive' = IF v \in alive THEN alive \ {v} ELSE alive \cup {v}
    /\ CountTo(v, ipcount[v])

\* on_timer: every 60 s the number of sessions, for 90 s.
OnTimer(v, n) ==
    /\ v \in alive \ Old
    /\ CountTo(v, n)
    /\ UNCHANGED alive

\* The Defer of main.
ServerStop(v) ==
    /\ v \in alive \ Old /\ alive' = alive \ {v}
    /\ CountTo(v, None)

ServerCrash(v) ==
    /\ v \in alive /\ alive' = alive \ {v}
    /\ UNCHANGED <<ipcount, token, choiceVars, steady>>

\* 90 s without a refresh: the server is dead or its timer late.
CountGone(v) ==
    /\ ipcount[v] # None
    /\ CountTo(v, None)
    /\ UNCHANGED alive

-----------------------------------------------------------------------------
(* GetChatServer.                                                           *)

StatusAt(r, p) == status[r].pc = p
StatusTo(r, p) == status' = [status EXCEPT ![r].pc = p]

StatusCall(r, u) ==
    /\ status' = [status EXCEPT ![r] =
          [pc |-> "wait", user |-> u, next |-> 1, best |-> None, error |-> FALSE]]
    /\ UNCHANGED <<alive, ipcount, token, choosing, steady>>

ChooseStart(r) ==
    /\ StatusAt(r, "wait") /\ choosing = None
    /\ choosing' = r
    /\ StatusTo(r, "read")
    /\ steady' = ipcount
    /\ UNCHANGED <<alive, ipcount, token>>

\* con_count of the best so far; one that is INT_MAX is as good as none.
BestCount(r) == IF status[r].best = None THEN INT_MAX ELSE status[r].best.count

\* Mutant: the servers after one that is down are not looked at.
ChooseReadStops(r, ok) ==
    LET v == Order[status[r].next]
    IN  /\ StatusAt(r, "read") /\ status[r].next <= Len(Order)
        /\ status' = [status EXCEPT
              ![r].next = IF ipcount[v] = None THEN Len(Order) + 1 ELSE @ + 1,
              ![r].best = IF ipcount[v] # None /\ ipcount[v] < BestCount(r)
                          THEN [server |-> v, count |-> ipcount[v]] ELSE @]
        /\ UNCHANGED <<alive, ipcount, token, choosing, steady>>

\* RedisMgr::Get: a missing key and a failed command are the same.
CountRead(v, ok) == IF ok THEN ipcount[v] ELSE None

\* One server's count is read; without it the server is taken to be down.
ChooseRead(r, ok) ==
    LET v == Order[status[r].next]
        n == CountRead(v, ok)
    IN  /\ StatusAt(r, "read") /\ status[r].next <= Len(Order)
        /\ status' = [status EXCEPT
              ![r].next = @ + 1,
              ![r].best = IF n # None /\ n < BestCount(r) THEN [server |-> v, count |-> n] ELSE @]
        /\ steady' = IF ok THEN steady ELSE [steady EXCEPT ![v] = None]
        /\ UNCHANGED <<alive, ipcount, token, choosing>>

\* Mutant: the mutex is kept when there is no server.
ChooseEndLocked(r) ==
    /\ StatusAt(r, "read") /\ status[r].next > Len(Order)
    /\ choosing' = IF status[r].best = None THEN r ELSE None
    /\ status' = IF status[r].best = None
                 THEN [status EXCEPT ![r].pc = "done", ![r].error = TRUE]
                 ELSE [status EXCEPT ![r].pc = "insert"]
    /\ steady' = [v \in Server |-> None]
    /\ UNCHANGED <<alive, ipcount, token>>

\* The best server, if there is one: else an error.
ChooseEnd(r) ==
    /\ StatusAt(r, "read") /\ status[r].next > Len(Order)
    /\ choosing' = None
    /\ status' = IF status[r].best = None
                 THEN [status EXCEPT ![r].pc = "done", ![r].error = TRUE]
                 ELSE [status EXCEPT ![r].pc = "insert"]
    /\ steady' = [v \in Server |-> None]
    /\ UNCHANGED <<alive, ipcount, token>>

\* RedisMgr::Set and Expire: what they may leave; a failed one may have been executed.
SetOutcomes(u, r, ok) ==
    {[token EXCEPT ![u] = [id |-> r, ttl |-> FALSE]]} \cup (IF ok THEN {} ELSE {token})

ExpireOutcomes(u, ok) ==
    {IF token[u] = None THEN token ELSE [token EXCEPT ![u].ttl = TRUE]}
        \cup (IF ok THEN {} ELSE {token})

\* insertToken: Set and Expire, neither result is looked at.
TokenSet(r, ok) ==
    /\ StatusAt(r, "insert") /\ StatusTo(r, "expire")
    /\ token' \in SetOutcomes(status[r].user, r, ok)
    /\ UNCHANGED <<alive, ipcount, choosing, steady>>

TokenExpire(r, ok) ==
    /\ StatusAt(r, "expire") /\ StatusTo(r, "done")
    /\ token' \in ExpireOutcomes(status[r].user, ok)
    /\ UNCHANGED <<alive, ipcount, choosing, steady>>

StatusStep(r, ok) == ChooseRead(r, ok) \/ TokenSet(r, ok) \/ TokenExpire(r, ok)

\* Seven days are over.
TokenGone(u) ==
    /\ token[u] # None /\ token[u].ttl
    /\ token' = [token EXCEPT ![u] = None]
    /\ UNCHANGED <<alive, ipcount, choiceVars, steady>>

-----------------------------------------------------------------------------
\* Whatever the counts do while they are read one after the other: a server whose count
\* was there and the same all the time, and was read, is as busy as the one that is
\* chosen, or busier, and there is an answer if there is such a server.
ChoiceFound ==
    \A r \in Request : StatusAt(r, "read") /\ status[r].next > Len(Order) =>
        \A v \in Server : steady[v] # None =>
            status[r].best # None /\ status[r].best.count <= steady[v]
=============================================================================
