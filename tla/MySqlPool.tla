----------------------------- MODULE MySqlPool -----------------------------
(***************************************************************************)
(* MySqlPool: the MySQL connections of a chat server or of GetServer.  Its *)
(* getConnection, returnConnection and Close and the frame of its check    *)
(* thread are those of RedisConPool (module ConPool); what the check       *)
(* thread does with a connection is not:                                   *)
(*   - a healthy one goes back whether the pool is stopped or not;         *)
(*   - a new one is pushed without a notification, so that a thread may    *)
(*     sleep beside an idle connection until the next round, in which the  *)
(*     connection is pushed again, now with one;                           *)
(*   - nobody joins the thread, and a round does not end at a stop.        *)
(* A round comes once a minute and pings what has been idle for 5 s, so it *)
(* pings whatever was there at the round before.                           *)
(***************************************************************************)
EXTENDS ConPool

\* Mutant: front() without pop().
SqlCheckTakeNoPop ==
    /\ chk.pc = "loop" /\ MutexFree
    /\ \/ /\ chk.n > 0
          /\ \E c \in connections : chk' = [pc |-> "ping", n |-> chk.n - 1, probe |-> c]
       \/ /\ chk.n = 0 \/ connections = {}
          /\ chk' = [chk EXCEPT !.pc = "reconnect"]
    /\ UNCHANGED <<connections, pc, has, broken, fail_count, closing>>

\* The front of the queue is taken out, as often as the pool was long at the start of
\* the round, or until it is empty.
SqlCheckTake ==
    /\ chk.pc = "loop" /\ MutexFree
    /\ \/ /\ chk.n > 0
          /\ \E c \in connections :
                /\ connections' = connections \ {c}
                /\ chk' = [pc |-> "ping", n |-> chk.n - 1, probe |-> c]
       \/ /\ chk.n = 0 \/ connections = {}
          /\ chk' = [chk EXCEPT !.pc = "reconnect"]
          /\ UNCHANGED connections
    /\ UNCHANGED <<pc, has, broken, fail_count, closing>>

\* Mutant: pushed back without a notification, as reconnect does.
SqlCheckAliveSilent ==
    /\ chk.pc = "ping" /\ chk.probe \notin broken /\ MutexFree
    /\ connections' = connections \cup {chk.probe}
    /\ chk' = Probed
    /\ UNCHANGED <<pc, has, broken, fail_count, closing>>

\* SELECT 1 succeeds.
SqlCheckAlive ==
    /\ chk.pc = "ping" /\ chk.probe \notin broken /\ MutexFree
    /\ connections' = connections \cup {chk.probe}
    /\ pc' \in Notified(pc)
    /\ chk' = Probed
    /\ UNCHANGED <<has, broken, fail_count, closing>>

\* Mutant: _fail_count is not decremented.
SqlReconnectAgain ==
    /\ chk.pc = "reconnect" /\ fail_count > 0 /\ MutexFree
    /\ \E c \in Conn \ Used :
        /\ connections' = connections \cup {c}
        /\ broken' = broken \ {c}
    /\ UNCHANGED <<pc, has, chk, fail_count, closing>>

\* reconnect: a new connection, and nobody is notified.
SqlReconnect ==
    /\ chk.pc = "reconnect" /\ fail_count > 0 /\ MutexFree
    /\ \E c \in Conn \ Used :
        /\ connections' = connections \cup {c}
        /\ broken' = broken \ {c}
    /\ fail_count' = fail_count - 1
    /\ UNCHANGED <<pc, has, chk, closing>>

SqlCheckStep ==
    \/ CheckStart \/ SqlCheckTake \/ SqlCheckAlive \/ CheckDead \/ SqlReconnect
    \/ CheckEnd \/ CheckStop

\* MysqlDao's destructor; the pool itself ends with the process.
SqlCloseStep == CloseStop \/ CloseNotify

SqlNext ==
    \/ \E t \in Thread : UserStep(t)
    \/ \E c \in Conn : Break(c)
    \/ SqlCheckStep
    \/ SqlCloseStep

SqlSpec == Init /\ [][SqlNext]_vars

\* The rounds go on and connects succeed again and again; a woken thread goes on.
\* Nobody is bound to ask for or to give back a connection.
SqlFairness ==
    /\ \A t \in Thread : WF_vars(Sleep(t)) /\ WF_vars(pc[t] = "woken" /\ Get(t))
    /\ WF_vars(SqlCheckStep) /\ SF_vars(SqlReconnect)

SqlFairSpec == SqlSpec /\ SqlFairness

-----------------------------------------------------------------------------
(* Properties.                                                              *)

\* Some day the connections last from one round to the next.
Stable == <>[][\A c \in Conn : ~Break(c)]_vars

\* reconnect (MysqlDao.h:134) does not notify: nobody sleeps for ever for that.  When
\* threads wait and nobody has a connection that could come back, one of them is woken
\* or another one is served, even if all connections broke while they were waiting.
SqlRevives ==
    Stable => ((Waiting # {} /\ Held = {}) ~> (Woken # {} \/ Held # {} \/ b_stop))
=============================================================================
