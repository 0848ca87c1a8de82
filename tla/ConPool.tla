------------------------------ MODULE ConPool ------------------------------
(***************************************************************************)
(* RedisConPool: the Redis connections of a server process, shared by its  *)
(* logic, io and gRPC threads and looked after by a check thread.          *)
(*                                                                         *)
(* getConnection waits on a condition variable while the pool is empty;    *)
(* returnConnection notifies one waiter; the check thread pings idle       *)
(* connections, frees broken ones and connects anew.  Close sets b_stop_   *)
(* without the mutex.  A step is what happens under one hold of the mutex, *)
(* except that the predicate of the wait and the falling asleep are two:   *)
(* Close may come between them.  GetServer, StatusServer and the two chat  *)
(* servers have the same class, each its own copy of it.                   *)
(***************************************************************************)
EXTENDS Naturals, FiniteSets

CONSTANTS
    Conn,       \* the connections; as many as the constructor could make
    Thread,     \* the threads that call getConnection
    None        \* no connection

ASSUME FiniteAssumption == IsFiniteSet(Conn) /\ IsFiniteSet(Thread)
ASSUME NoneAssumption   == None \notin Conn

VARIABLES
    connections,    \* the idle connections; the order of the queue does not matter
    pc,             \* per thread: "idle", "check" (the predicate was false, the mutex is
                    \* still held), "wait", "woken" or "hold"
    has,            \* per thread: the connection it uses
    broken,         \* connections whose peer is gone; only a PING finds out
    chk,            \* the check thread: where it is, how many are left of this round, and
                    \* the connection it has taken out
    fail_count,     \* fail_count_: connections freed and not yet replaced
    closing         \* how far Close and ClearConnections have got

vars == <<connections, pc, has, broken, chk, fail_count, closing>>

TypeOK ==
    /\ connections \subseteq Conn
    /\ pc  \in [Thread -> {"idle", "check", "wait", "woken", "hold"}]
    /\ has \in [Thread -> Conn \cup {None}]
    /\ broken \subseteq Conn
    /\ chk \in [pc: {"sleep", "loop", "ping", "reconnect", "ended"}, n: Nat,
                probe: Conn \cup {None}]
    /\ fail_count \in Nat
    /\ closing \in {"open", "stopped", "notified", "cleared"}

Init ==
    /\ connections = Conn
    /\ pc  = [t \in Thread |-> "idle"]
    /\ has = [t \in Thread |-> None]
    /\ broken = {}
    /\ chk = [pc |-> "sleep", n |-> 0, probe |-> None]
    /\ fail_count = 0
    /\ closing = "open"

b_stop    == closing # "open"
MutexFree == \A t \in Thread : pc[t] # "check"
Waiting   == {t \in Thread : pc[t] = "wait"}
Woken     == {t \in Thread : pc[t] = "woken"}
Held      == {has[t] : t \in Thread} \ {None}
Used      == connections \cup Held \cup ({chk.probe} \ {None})

\* notify_one, seen from the threads' states p.
Notified(p) == IF Waiting = {} THEN {p} ELSE {[p EXCEPT ![w] = "woken"] : w \in Waiting}

\* Mutant: the check thread's reconnect of MySqlPool pushes without a notification.
PushSilent(c, p) ==
    IF b_stop THEN connections' = connections /\ pc' = p
    ELSE connections' = connections \cup {c} /\ pc' = p

\* returnConnection, the threads' states being p otherwise. After Close the connection is
\* dropped.
Push(c, p) ==
    IF b_stop THEN connections' = connections /\ pc' = p
    ELSE connections' = connections \cup {c} /\ pc' \in Notified(p)

-----------------------------------------------------------------------------
(* The threads that use the pool.                                           *)

\* Mutant: front() without pop().
GetNoPop(t) ==
    /\ pc[t] \in {"idle", "woken"} /\ MutexFree
    /\ \/ /\ b_stop
          /\ pc' = [pc EXCEPT ![t] = "idle"]
          /\ UNCHANGED has
       \/ /\ ~b_stop
          /\ \E c \in connections : has' = [has EXCEPT ![t] = c]
          /\ pc' = [pc EXCEPT ![t] = "hold"]
       \/ /\ ~b_stop /\ connections = {}
          /\ pc' = [pc EXCEPT ![t] = "check"]
          /\ UNCHANGED has
    /\ UNCHANGED <<connections, broken, chk, fail_count, closing>>

\* getConnection up to the wait, and again after every wake-up: null once stopped, the
\* front of the queue, or the predicate is false.
Get(t) ==
    /\ pc[t] \in {"idle", "woken"} /\ MutexFree
    /\ \/ /\ b_stop
          /\ pc' = [pc EXCEPT ![t] = "idle"]
          /\ UNCHANGED <<connections, has>>
       \/ /\ ~b_stop
          /\ \E c \in connections :
                /\ has' = [has EXCEPT ![t] = c]
                /\ connections' = connections \ {c}
          /\ pc' = [pc EXCEPT ![t] = "hold"]
       \/ /\ ~b_stop /\ connections = {}
          /\ pc' = [pc EXCEPT ![t] = "check"]
          /\ UNCHANGED <<connections, has>>
    /\ UNCHANGED <<broken, chk, fail_count, closing>>

\* cond_.wait releases the mutex and sleeps in one.
Sleep(t) ==
    /\ pc[t] = "check"
    /\ pc' = [pc EXCEPT ![t] = "wait"]
    /\ UNCHANGED <<connections, has, broken, chk, fail_count, closing>>

Return(t) ==
    /\ pc[t] = "hold" /\ MutexFree
    /\ has' = [has EXCEPT ![t] = None]
    /\ Push(has[t], [pc EXCEPT ![t] = "idle"])
    /\ UNCHANGED <<broken, chk, fail_count, closing>>

\* The Redis server closes a connection, whoever has it.
Break(c) ==
    /\ c \in Used
    /\ broken' = broken \cup {c}
    /\ UNCHANGED <<connections, pc, has, chk, fail_count, closing>>

-----------------------------------------------------------------------------
(* The check thread: checkThreadPro once a minute.                          *)

\* Mutant: a round over an empty pool is skipped.
CheckStartNonEmpty ==
    /\ chk.pc = "sleep" /\ ~b_stop /\ MutexFree /\ connections # {}
    /\ chk' = [chk EXCEPT !.pc = "loop", !.n = Cardinality(connections)]
    /\ UNCHANGED <<connections, pc, has, broken, fail_count, closing>>

CheckStart ==
    /\ chk.pc = "sleep" /\ ~b_stop /\ MutexFree
    /\ chk' = [chk EXCEPT !.pc = "loop", !.n = Cardinality(connections)]
    /\ UNCHANGED <<connections, pc, has, broken, fail_count, closing>>

\* getConNonBlock; the round ends early if there is nothing idle any more or at a stop.
CheckTake ==
    /\ chk.pc = "loop" /\ MutexFree
    /\ \/ /\ chk.n > 0 /\ ~b_stop
          /\ \E c \in connections :
                /\ connections' = connections \ {c}
                /\ chk' = [pc |-> "ping", n |-> chk.n - 1, probe |-> c]
       \/ /\ chk.n = 0 \/ b_stop \/ connections = {}
          /\ chk' = [chk EXCEPT !.pc = "reconnect"]
          /\ UNCHANGED connections
    /\ UNCHANGED <<pc, has, broken, fail_count, closing>>

Probed == [chk EXCEPT !.pc = "loop", !.probe = None]

CheckAlive ==
    /\ chk.pc = "ping" /\ chk.probe \notin broken /\ MutexFree
    /\ Push(chk.probe, pc)
    /\ chk' = Probed
    /\ UNCHANGED <<has, broken, fail_count, closing>>

\* Mutant: the failed connection is not counted.
CheckDeadUncounted ==
    /\ chk.pc = "ping" /\ chk.probe \in broken
    /\ chk' = Probed
    /\ UNCHANGED <<connections, pc, has, broken, fail_count, closing>>

\* The PING fails: the connection is freed and counted.
CheckDead ==
    /\ chk.pc = "ping" /\ chk.probe \in broken
    /\ fail_count' = fail_count + 1
    /\ chk' = Probed
    /\ UNCHANGED <<connections, pc, has, broken, closing>>

\* reconnect: a connection that is not in use, that is a new one.
Reconnect ==
    /\ chk.pc = "reconnect" /\ fail_count > 0 /\ MutexFree
    /\ \E c \in Conn \ Used :
        /\ Push(c, pc)
        /\ broken' = broken \ {c}
    /\ fail_count' = fail_count - 1
    /\ UNCHANGED <<has, chk, closing>>

\* Nothing left to replace, or the connect fails and is left for the next round.
CheckEnd ==
    /\ chk.pc = "reconnect"
    /\ chk' = [chk EXCEPT !.pc = "sleep"]
    /\ UNCHANGED <<connections, pc, has, broken, fail_count, closing>>

CheckStop ==
    /\ chk.pc = "sleep" /\ b_stop
    /\ chk' = [chk EXCEPT !.pc = "ended"]
    /\ UNCHANGED <<connections, pc, has, broken, fail_count, closing>>

-----------------------------------------------------------------------------
(* RedisMgr::Close, without the mutex up to ClearConnections.               *)

CloseStop ==
    /\ closing = "open"
    /\ closing' = "stopped"
    /\ UNCHANGED <<connections, pc, has, broken, chk, fail_count>>

\* notify_all.
CloseNotify ==
    /\ closing = "stopped"
    /\ pc' = [t \in Thread |-> IF pc[t] = "wait" THEN "woken" ELSE pc[t]]
    /\ closing' = "notified"
    /\ UNCHANGED <<connections, has, broken, chk, fail_count>>

\* The check thread is joined before the idle connections are freed.
CloseClear ==
    /\ closing = "notified" /\ chk.pc = "ended" /\ MutexFree
    /\ connections' = {}
    /\ closing' = "cleared"
    /\ UNCHANGED <<pc, has, broken, chk, fail_count>>

UserStep(t) == Get(t) \/ Sleep(t) \/ Return(t)

CheckStep ==
    CheckStart \/ CheckTake \/ CheckAlive \/ CheckDead \/ Reconnect \/ CheckEnd \/ CheckStop

CloseStep == CloseStop \/ CloseNotify \/ CloseClear

Next ==
    \/ \E t \in Thread : UserStep(t)
    \/ \E c \in Conn : Break(c)
    \/ CheckStep
    \/ CloseStep

Spec == Init /\ [][Next]_vars

\* Threads that can go on do, a wake-up included; the Redis server accepts connections
\* again and again. Nobody is bound to ask for or to give back a connection.
Fairness ==
    /\ \A t \in Thread : WF_vars(Sleep(t)) /\ WF_vars(pc[t] = "woken" /\ Get(t))
    /\ WF_vars(CheckStep) /\ SF_vars(Reconnect)
    /\ WF_vars(CloseNotify \/ CloseClear)

FairSpec == Spec /\ Fairness

-----------------------------------------------------------------------------
(* Properties.                                                              *)

\* A connection has one user at a time: no two threads, the check thread included, have
\* the same one, and none of them is offered to others.
NoSharing ==
    /\ \A t, u \in Thread : t # u /\ has[t] # None => has[t] # has[u]
    /\ \A t \in Thread : has[t] # None => has[t] \notin connections /\ has[t] # chk.probe
    /\ chk.probe \notin connections

\* While the pool is open, every connection that is in no hands is counted in
\* fail_count_ and so will be replaced: errors do not shrink the pool for ever.
SizeKept == ~b_stop => fail_count = Cardinality(Conn \ Used)

\* No wake-up is lost: while threads sleep, there are at least as many woken ones on
\* their way as there are idle connections.
NoLostWakeup ==
    ~b_stop /\ Waiting # {} => Cardinality(connections) <= Cardinality(Woken)

\* A pool whose connections are all gone comes back to life by itself.
PoolRevives == (Used = {} /\ ~b_stop) ~> (Used # {} \/ b_stop)
=============================================================================
