---------------------------- MODULE LoginSession ----------------------------
(***************************************************************************)
(* One login per user across a cluster of ChatServer processes.            *)
(*                                                                         *)
(* Each server has one logic thread (LogicSystem::DealMsg) that runs       *)
(* LoginHandler for one message at a time, io threads that run the read    *)
(* and write handlers of the connections (CSession), a timer               *)
(* (CServer::on_timer) and gRPC threads that serve NotifyKickUser.  They   *)
(* share the server's `_sessions` and `_uid_to_session` tables; the        *)
(* servers share the keys uip_<uid>, usession_<uid> and lock_<uid> of      *)
(* Redis.  A step of this module is one access to a shared table or key.   *)
(***************************************************************************)
EXTENDS Naturals, Sequences, Functions

CONSTANTS
    Server,     \* the ChatServer processes
    Session,    \* the sessions (connections) that may ever exist; ids are UUIDs
    Uid,        \* the users; a session's user is None (0 in the code) before login
    None,       \* absent: no key in Redis, a null pointer, uid 0, an empty id
    Faults,     \* which of Handled and Unhandled may happen
    MaxQueue    \* bound on the logins waiting in a server's message queue

\* Failures the code is written to survive ...
Handled ==
    { "crash",          \* a server process dies and is started again
      "write_error",    \* an async_write fails
      "bad_frame",      \* a frame with an invalid id or length, or a short one
      "heartbeat",      \* on_timer finds a session without recent heartbeats
      "relogin" }       \* a client logs in again on the same connection

\* ... and those after which it carries on as if nothing had happened.
Unhandled ==
    { "lock_timeout",   \* acquireLock gives up after ACQUIRE_TIME_OUT
      "lock_expiry",    \* a lock's TTL ends inside its holder's section
      "reg_expiry",     \* uip_/usession_ reach their TTL while the user is online
      "kick_lost" }     \* NotifyKickUser fails, is lost, or loses its reply

ASSUME FaultsAssumption == Faults \subseteq Handled \cup Unhandled
ASSUME QueueAssumption  == MaxQueue \in Nat

UidKey  == Uid \cup {None}

\* Who may hold a lock: a logic thread, or a cleanup (DealExceptionSession) of a
\* session, run by its io thread or by the timer.
Logic(v) == <<"logic", v>>
Cleaner  == {"io", "timer"} \X Session
Owner    == ({"logic"} \X Server) \cup Cleaner
Of(c)    == c[2]

ASSUME NoneAssumption == None \notin Server \cup Session \cup Uid \cup Owner

VARIABLES
    conn,       \* socket of a session: "fresh" (not connected), "open", "closed"
    reading,    \* is an async_read outstanding on it?
    host,       \* the server that accepted it
    accepting,  \* per server: the session between Start() and _sessions.insert
    sessions,   \* per server: CServer::_sessions
    userUid,    \* per session: CSession::_user_uid
    userMgr,    \* per server: UserMgr::_uid_to_session
    queue,      \* per server: the MSG_CHAT_LOGIN nodes of LogicSystem::_msg_que
    logic,      \* per server: where its logic thread is in LoginHandler
    clean,      \* per cleaner: where it is in DealExceptionSession
    expired,    \* per server: the timer's _expired_sessions still to clean up
    kicks,      \* NotifyKickUser calls being served
    uip,        \* Redis uip_<uid>: the server the user is logged in at
    usession,   \* Redis usession_<uid>: the session id of that login
    lock        \* Redis lock:lock_<uid>: the identifier of the holder

netVars   == <<conn, reading, host, accepting>>
tableVars == <<sessions, userUid, userMgr>>
regVars   == <<uip, usession>>
vars      == <<netVars, tableVars, queue, logic, clean, expired, kicks, regVars, lock>>

IdleLogic == [pc |-> "idle", sess |-> None, uid |-> None, ident |-> None, old |-> None]
IdleClean == [pc |-> "idle", uid |-> None, ident |-> None]

LogicSection == {"check", "lookup", "clear", "kick", "setip", "setsess", "bind", "release"}
CleanSection == {"check", "delsess", "delip", "clear", "release"}

BusyLogic  == [pc: {"acquire"} \cup LogicSection, sess: Session, uid: Uid,
               ident: Owner \cup {None}, old: Session \cup {None}]
CleanState == [pc: {"idle", "acquire"} \cup CleanSection, uid: UidKey,
               ident: Owner \cup {None}]
Login      == [sess: Session, uid: Uid]
Kick       == [from: Server \cup {None}, to: Server, uid: Uid, sess: Session \cup {None}]

TypeOK ==
    /\ conn      \in [Session -> {"fresh", "open", "closed"}]
    /\ reading   \in [Session -> BOOLEAN]
    /\ host      \in [Session -> Server \cup {None}]
    /\ accepting \in [Server -> Session \cup {None}]
    /\ sessions  \in [Server -> SUBSET Session]
    /\ userUid   \in [Session -> UidKey]
    /\ userMgr   \in [Server -> [Uid -> Session \cup {None}]]
    /\ queue     \in [Server -> Seq(Login)]
    /\ logic     \in [Server -> BusyLogic \cup {IdleLogic}]
    /\ \A v \in Server : logic[v].pc = "clear" => logic[v].old \in Session
    /\ clean     \in [Cleaner -> CleanState]
    /\ expired   \in [Server -> SUBSET Session]
    /\ kicks     \in SUBSET Kick
    /\ uip       \in [UidKey -> Server \cup {None}]
    /\ usession  \in [UidKey -> Session \cup {None}]
    /\ lock      \in [UidKey -> Owner \cup {None}]

Init ==
    /\ conn      = [s \in Session |-> "fresh"]
    /\ reading   = [s \in Session |-> FALSE]
    /\ host      = [s \in Session |-> None]
    /\ accepting = [v \in Server |-> None]
    /\ sessions  = [v \in Server |-> {}]
    /\ userUid   = [s \in Session |-> None]
    /\ userMgr   = [v \in Server |-> [u \in Uid |-> None]]
    /\ queue     = [v \in Server |-> <<>>]
    /\ logic     = [v \in Server |-> IdleLogic]
    /\ clean     = [c \in Cleaner |-> IdleClean]
    /\ expired   = [v \in Server |-> {}]
    /\ kicks     = {}
    /\ uip       = [u \in UidKey |-> None]
    /\ usession  = [u \in UidKey |-> None]
    /\ lock      = [u \in UidKey |-> None]

-----------------------------------------------------------------------------
(* The tables of a server.                                                  *)

\* User u is online at server v: bound in UserMgr to a session that CServer still knows,
\* so that pushes reach it and its messages are accepted (CheckValid).
Live(v, u) == userMgr[v][u] \in sessions[v]

\* UserMgr::RmvUserSession: only a binding to this very session is removed.
RmvUserSession(v, u, s) ==
    IF u # None /\ userMgr[v][u] = s THEN [userMgr EXCEPT ![v][u] = None] ELSE userMgr

\* CServer::ClearSession: the binding is looked up by the session's current uid.
ClearSession(v, s) ==
    /\ userMgr'  = IF s \in sessions[v] THEN RmvUserSession(v, userUid[s], s) ELSE userMgr
    /\ sessions' = [sessions EXCEPT ![v] = @ \ {s}]
    /\ UNCHANGED userUid

-----------------------------------------------------------------------------
(* Redis.                                                                   *)

\* DistLock::acquireLock: SET NX succeeds on a free key, and the loop ends with the
\* empty identifier at the deadline.
AcquireLock(p, u, ident) ==
    \/ lock[u] = None /\ ident = p /\ lock' = [lock EXCEPT ![u] = p]
    \/ "lock_timeout" \in Faults /\ lock[u] # None /\ ident = None /\ UNCHANGED lock

\* DistLock::releaseLock: the Lua script deletes the key if it holds the identifier.
ReleaseLock(u, ident) ==
    lock' = IF lock[u] = ident THEN [lock EXCEPT ![u] = None] ELSE lock

InLogicSection(v, u) == logic[v].uid = u /\ logic[v].pc \in LogicSection
InCleanSection(c, u) == clean[c].uid = u /\ clean[c].pc \in CleanSection

Abandoned(u) ==
    /\ \A v \in Server  : InLogicSection(v, u) => logic[v].ident # lock[u]
    /\ \A c \in Cleaner : InCleanSection(c, u) => clean[c].ident # lock[u]

\* Mutant: SET NX without EX, nothing ever removes the key of a dead holder.
ExpireLockNoTtl(u) ==
    /\ "lock_expiry" \in Faults /\ lock[u] # None
    /\ lock' = [lock EXCEPT ![u] = None]
    /\ UNCHANGED <<netVars, tableVars, queue, logic, clean, expired, kicks, regVars>>

\* EX LOCK_TIME_OUT: a key left by a crashed holder goes away; that of a running
\* holder does if its section outlasts the TTL.
ExpireLock(u) ==
    /\ lock[u] # None
    /\ Abandoned(u) \/ "lock_expiry" \in Faults
    /\ lock' = [lock EXCEPT ![u] = None]
    /\ UNCHANGED <<netVars, tableVars, queue, logic, clean, expired, kicks, regVars>>

\* EX 90: the registration of a user who is gone lapses; that of a user who is online
\* for longer does too, nothing refreshes it.
ExpireRegistration(u) ==
    /\ \/ "reg_expiry" \in Faults
       \/ /\ \A v \in Server : ~Live(v, u) /\ ~InLogicSection(v, u)
    /\ \/ uip[u] # None /\ uip' = [uip EXCEPT ![u] = None] /\ UNCHANGED usession
       \/ usession[u] # None /\ usession' = [usession EXCEPT ![u] = None] /\ UNCHANGED uip
    /\ UNCHANGED <<netVars, tableVars, queue, logic, clean, expired, kicks, lock>>

-----------------------------------------------------------------------------
(* The acceptor and the connection's handlers (io threads).                 *)

StartCleanup(c) ==
    clean' = [clean EXCEPT ![c] = [pc |-> "acquire", uid |-> userUid[Of(c)], ident |-> None]]

\* CServer::HandleAccept, first half: Start() issues the first read.
Accept(v, s) ==
    /\ conn[s] = "fresh" /\ accepting[v] = None
    /\ conn'      = [conn EXCEPT ![s] = "open"]
    /\ reading'   = [reading EXCEPT ![s] = TRUE]
    /\ host'      = [host EXCEPT ![s] = v]
    /\ accepting' = [accepting EXCEPT ![v] = s]
    /\ UNCHANGED <<tableVars, queue, logic, clean, expired, kicks, regVars, lock>>

\* CServer::HandleAccept, second half: only now do the tables know the session.
Insert(v) ==
    /\ accepting[v] # None
    /\ sessions'  = [sessions EXCEPT ![v] = @ \cup {accepting[v]}]
    /\ accepting' = [accepting EXCEPT ![v] = None]
    /\ UNCHANGED <<conn, reading, host, userUid, userMgr, queue, logic, clean, expired,
                   kicks, regVars, lock>>

\* CSession::AsyncReadBody completes with a login message: posted to the logic queue
\* if CheckValid still knows the session, otherwise the socket is closed for good.
RecvLogin(s, u) ==
    /\ conn[s] = "open" /\ reading[s] /\ clean[<<"io", s>>].pc = "idle"
    /\ \/ "relogin" \in Faults
       \/ userUid[s] = None /\ \A m \in Range(queue[host[s]]) : m.sess # s
    /\ IF s \in sessions[host[s]]
       THEN /\ Len(queue[host[s]]) < MaxQueue
            /\ queue' = [queue EXCEPT ![host[s]] = Append(@, [sess |-> s, uid |-> u])]
            /\ UNCHANGED <<conn, reading>>
       ELSE /\ conn'    = [conn EXCEPT ![s] = "closed"]
            /\ reading' = [reading EXCEPT ![s] = FALSE]
            /\ UNCHANGED queue
    /\ UNCHANGED <<host, accepting, tableVars, logic, clean, expired, kicks, regVars, lock>>

\* The outstanding read fails: the peer went away, or the timer closed the socket.
ReadError(s) ==
    /\ reading[s] /\ clean[<<"io", s>>].pc = "idle"
    /\ conn'    = [conn EXCEPT ![s] = "closed"]
    /\ reading' = [reading EXCEPT ![s] = FALSE]
    /\ StartCleanup(<<"io", s>>)
    /\ UNCHANGED <<host, accepting, tableVars, queue, logic, expired, kicks, regVars, lock>>

\* CSession::HandleWrite gets an error: same cleanup, and the read will fail later.
WriteError(s) ==
    /\ "write_error" \in Faults
    /\ conn[s] = "open" /\ clean[<<"io", s>>].pc = "idle"
    /\ conn' = [conn EXCEPT ![s] = "closed"]
    /\ StartCleanup(<<"io", s>>)
    /\ UNCHANGED <<reading, host, accepting, tableVars, queue, logic, expired, kicks,
                   regVars, lock>>

\* A malformed or short frame: ClearSession and no more reads, but no
\* DealExceptionSession; a bad header (AsyncReadHead) leaves the socket open too.
BadFrame(s) ==
    /\ "bad_frame" \in Faults
    /\ conn[s] = "open" /\ reading[s] /\ clean[<<"io", s>>].pc = "idle"
    /\ \/ UNCHANGED conn
       \/ conn' = [conn EXCEPT ![s] = "closed"]
    /\ reading' = [reading EXCEPT ![s] = FALSE]
    /\ ClearSession(host[s], s)
    /\ UNCHANGED <<host, accepting, queue, logic, clean, expired, kicks, regVars, lock>>

\* Mutant: the timer only looks at sessions of users that are logged in.
TimerScanLoggedIn(v, E) ==
    /\ "heartbeat" \in Faults
    /\ expired[v] = {} /\ E # {}
    /\ \A s \in E : userUid[s] # None
    /\ \A s \in Session : host[s] = v => clean[<<"timer", s>>].pc = "idle"
    /\ expired' = [expired EXCEPT ![v] = E]
    /\ conn'    = [s \in Session |-> IF s \in E THEN "closed" ELSE conn[s]]
    /\ UNCHANGED <<reading, host, accepting, tableVars, queue, logic, clean, kicks,
                   regVars, lock>>

\* CServer::on_timer: the sessions of the copy whose heartbeat is too old are closed
\* and collected.
TimerScan(v, E) ==
    /\ "heartbeat" \in Faults
    /\ expired[v] = {} /\ E # {}
    /\ \A s \in Session : host[s] = v => clean[<<"timer", s>>].pc = "idle"
    /\ expired' = [expired EXCEPT ![v] = E]
    /\ conn'    = [s \in Session |-> IF s \in E THEN "closed" ELSE conn[s]]
    /\ UNCHANGED <<reading, host, accepting, tableVars, queue, logic, clean, kicks,
                   regVars, lock>>

\* ... and then cleaned up one after the other.
TimerCleanup(v, s) ==
    /\ s \in expired[v]
    /\ \A t \in Session : host[t] = v => clean[<<"timer", t>>].pc = "idle"
    /\ expired' = [expired EXCEPT ![v] = @ \ {s}]
    /\ StartCleanup(<<"timer", s>>)
    /\ UNCHANGED <<netVars, tableVars, queue, logic, kicks, regVars, lock>>

-----------------------------------------------------------------------------
(* CSession::DealExceptionSession of session Of(c), whose uid was read at   *)
(* the start; the Defer (ClearSession, then releaseLock) runs on every exit. *)

CleanGoto(c, pc) == clean' = [clean EXCEPT ![c] = [@ EXCEPT !.pc = pc]]

\* Mutant: the cleanup does not take the user's lock.
CleanUnlocked(c) ==
    /\ clean[c].pc = "acquire"
    /\ CleanGoto(c, "check")
    /\ UNCHANGED <<netVars, tableVars, queue, logic, expired, kicks, regVars, lock>>

CleanAcquire(c) ==
    /\ clean[c].pc = "acquire"
    /\ \E ident \in {c, None} :
        /\ AcquireLock(c, clean[c].uid, ident)
        /\ clean' = [clean EXCEPT ![c] =
                [@ EXCEPT !.ident = ident, !.pc = IF ident = None THEN "clear" ELSE "check"]]
    /\ UNCHANGED <<netVars, tableVars, queue, logic, expired, kicks, regVars>>

\* Mutant: the registered session is not compared with the one that is cleaned up.
CleanUnchecked(c) ==
    /\ clean[c].pc = "check"
    /\ CleanGoto(c, IF usession[clean[c].uid] # None THEN "delsess" ELSE "clear")
    /\ UNCHANGED <<netVars, tableVars, queue, logic, expired, kicks, regVars, lock>>

\* No registration, or another session's: the user has logged in elsewhere since.
CleanCheck(c) ==
    /\ clean[c].pc = "check"
    /\ CleanGoto(c, IF usession[clean[c].uid] = Of(c) THEN "delsess" ELSE "clear")
    /\ UNCHANGED <<netVars, tableVars, queue, logic, expired, kicks, regVars, lock>>

CleanDelSession(c) ==
    /\ clean[c].pc = "delsess"
    /\ usession' = [usession EXCEPT ![clean[c].uid] = None]
    /\ CleanGoto(c, "delip")
    /\ UNCHANGED <<netVars, tableVars, queue, logic, expired, kicks, uip, lock>>

CleanDelIp(c) ==
    /\ clean[c].pc = "delip"
    /\ uip' = [uip EXCEPT ![clean[c].uid] = None]
    /\ CleanGoto(c, "clear")
    /\ UNCHANGED <<netVars, tableVars, queue, logic, expired, kicks, usession, lock>>

CleanClear(c) ==
    /\ clean[c].pc = "clear"
    /\ ClearSession(host[Of(c)], Of(c))
    /\ CleanGoto(c, "release")
    /\ UNCHANGED <<netVars, queue, logic, expired, kicks, regVars, lock>>

CleanRelease(c) ==
    /\ clean[c].pc = "release"
    /\ ReleaseLock(clean[c].uid, clean[c].ident)
    /\ clean' = [clean EXCEPT ![c] = IdleClean]
    /\ UNCHANGED <<netVars, tableVars, queue, logic, expired, kicks, regVars>>

-----------------------------------------------------------------------------
(* LogicSystem::LoginHandler on the logic thread of server v.               *)

LogicGoto(v, pc) == logic' = [logic EXCEPT ![v] = [@ EXCEPT !.pc = pc]]

\* A wrong token or an unknown uid is answered with an error and changes nothing.
LoginReject(v) ==
    /\ logic[v].pc = "idle" /\ queue[v] # <<>>
    /\ queue' = [queue EXCEPT ![v] = Tail(@)]
    /\ UNCHANGED <<netVars, tableVars, logic, clean, expired, kicks, regVars, lock>>

\* SetUserId comes before the lock. DealMsg pops the node after the handler; nothing
\* else reads the front, so the model pops it here.
LoginBegin(v) ==
    /\ logic[v].pc = "idle" /\ queue[v] # <<>>
    /\ LET m == Head(queue[v]) IN
        /\ userUid' = [userUid EXCEPT ![m.sess] = m.uid]
        /\ logic'   = [logic EXCEPT ![v] = [pc |-> "acquire", sess |-> m.sess, uid |-> m.uid,
                                            ident |-> None, old |-> None]]
    /\ queue' = [queue EXCEPT ![v] = Tail(@)]
    /\ UNCHANGED <<netVars, sessions, userMgr, clean, expired, kicks, regVars, lock>>

\* Mutant: no distributed lock around the login, as in ChatServer_2.
LoginUnlocked(v) ==
    /\ logic[v].pc = "acquire"
    /\ LogicGoto(v, "check")
    /\ UNCHANGED <<netVars, tableVars, queue, clean, expired, kicks, regVars, lock>>

\* The identifier is not looked at: after a timeout the handler goes on unlocked.
LoginAcquire(v) ==
    /\ logic[v].pc = "acquire"
    /\ \E ident \in {Logic(v), None} :
        /\ AcquireLock(Logic(v), logic[v].uid, ident)
        /\ logic' = [logic EXCEPT ![v] = [@ EXCEPT !.ident = ident, !.pc = "check"]]
    /\ UNCHANGED <<netVars, tableVars, queue, clean, expired, kicks, regVars>>

\* Get uip_<uid>: not logged in, logged in here, or at another server, which is asked
\* to kick.
LoginCheck(v) ==
    /\ logic[v].pc = "check"
    /\ LET at == uip[logic[v].uid] IN
        \/ at = None /\ LogicGoto(v, "setip") /\ UNCHANGED kicks
        \/ at = v    /\ LogicGoto(v, "lookup") /\ UNCHANGED kicks
        \/ /\ at \notin {None, v}
           /\ LogicGoto(v, "kick")
           /\ kicks' = kicks \cup {[from |-> v, to |-> at, uid |-> logic[v].uid,
                                    sess |-> None]}
    /\ UNCHANGED <<netVars, tableVars, queue, clean, expired, regVars, lock>>

LoginLookupOld(v) ==
    /\ logic[v].pc = "lookup"
    /\ LET s == userMgr[v][logic[v].uid] IN
        logic' = [logic EXCEPT ![v] =
                    [@ EXCEPT !.old = s, !.pc = IF s = None THEN "setip" ELSE "clear"]]
    /\ UNCHANGED <<netVars, tableVars, queue, clean, expired, kicks, regVars, lock>>

\* Mutant: the old session is notified but not cleared.
LoginNotifyOnly(v) ==
    /\ logic[v].pc = "clear"
    /\ LogicGoto(v, "setip")
    /\ UNCHANGED <<netVars, tableVars, queue, clean, expired, kicks, regVars, lock>>

LoginClearOld(v) ==
    /\ logic[v].pc = "clear"
    /\ ClearSession(v, logic[v].old)
    /\ LogicGoto(v, "setip")
    /\ UNCHANGED <<netVars, queue, clean, expired, kicks, regVars, lock>>

\* ChatGrpcClient::NotifyKickUser returns once no call of v is being served any more:
\* answered, or the callee crashed. Its error is ignored.
LoginKicked(v) ==
    /\ logic[v].pc = "kick"
    /\ \A k \in kicks : k.from # v
    /\ LogicGoto(v, "setip")
    /\ UNCHANGED <<netVars, tableVars, queue, clean, expired, kicks, regVars, lock>>

LoginSetIp(v) ==
    /\ logic[v].pc = "setip"
    /\ uip' = [uip EXCEPT ![logic[v].uid] = v]
    /\ LogicGoto(v, "setsess")
    /\ UNCHANGED <<netVars, tableVars, queue, clean, expired, kicks, usession, lock>>

\* Mutant: SET NX, a session id that is still there is kept.
LoginSetSessionNx(v) ==
    /\ logic[v].pc = "setsess"
    /\ usession' = IF usession[logic[v].uid] # None THEN usession
                   ELSE [usession EXCEPT ![logic[v].uid] = logic[v].sess]
    /\ LogicGoto(v, "bind")
    /\ UNCHANGED <<netVars, tableVars, queue, clean, expired, kicks, uip, lock>>

LoginSetSession(v) ==
    /\ logic[v].pc = "setsess"
    /\ usession' = [usession EXCEPT ![logic[v].uid] = logic[v].sess]
    /\ LogicGoto(v, "bind")
    /\ UNCHANGED <<netVars, tableVars, queue, clean, expired, kicks, uip, lock>>

\* UserMgr::SetUserSession.
LoginBind(v) ==
    /\ logic[v].pc = "bind"
    /\ userMgr' = [userMgr EXCEPT ![v][logic[v].uid] = logic[v].sess]
    /\ LogicGoto(v, "release")
    /\ UNCHANGED <<netVars, sessions, userUid, queue, clean, expired, kicks, regVars, lock>>

LoginRelease(v) ==
    /\ logic[v].pc = "release"
    /\ ReleaseLock(logic[v].uid, logic[v].ident)
    /\ logic' = [logic EXCEPT ![v] = IdleLogic]
    /\ UNCHANGED <<netVars, tableVars, queue, clean, expired, kicks, regVars>>

-----------------------------------------------------------------------------
(* ChatServiceImpl::NotifyKickUser on a gRPC thread of server k.to.         *)

\* Mutant: no reply when the user is not in memory.
KickLookupNoReply(k) ==
    /\ k.sess = None
    /\ LET s == userMgr[k.to][k.uid] IN
        s # None /\ kicks' = (kicks \ {k}) \cup {[k EXCEPT !.sess = s]}
    /\ UNCHANGED <<netVars, tableVars, queue, logic, clean, expired, regVars, lock>>

KickLookup(k) ==
    /\ k.sess = None
    /\ LET s == userMgr[k.to][k.uid] IN
        kicks' = (kicks \ {k}) \cup (IF s = None THEN {} ELSE {[k EXCEPT !.sess = s]})
    /\ UNCHANGED <<netVars, tableVars, queue, logic, clean, expired, regVars, lock>>

KickClear(k) ==
    /\ k.sess # None
    /\ ClearSession(k.to, k.sess)
    /\ kicks' = kicks \ {k}
    /\ UNCHANGED <<netVars, queue, logic, clean, expired, regVars, lock>>

\* The call never arrives, or only its reply is lost and the callee goes on serving it.
KickLost(k) ==
    /\ "kick_lost" \in Faults /\ k.from # None
    /\ \/ kicks' = kicks \ {k}
       \/ kicks' = (kicks \ {k}) \cup {[k EXCEPT !.from = None]}
    /\ UNCHANGED <<netVars, tableVars, queue, logic, clean, expired, regVars, lock>>

-----------------------------------------------------------------------------
\* A call whose caller v is gone is still served.
Orphaned(k, v) == IF k.from = v THEN [k EXCEPT !.from = None] ELSE k

\* Server v crashes and is started again: its memory and connections are gone, what it
\* wrote to Redis stays, calls it was serving fail, calls it made go on without it.
Crash(v) ==
    LET Lost == {s \in Session : host[s] = v} IN
    /\ "crash" \in Faults
    /\ conn'      = [s \in Session |-> IF s \in Lost THEN "closed" ELSE conn[s]]
    /\ reading'   = [s \in Session |-> reading[s] /\ s \notin Lost]
    /\ accepting' = [accepting EXCEPT ![v] = None]
    /\ sessions'  = [sessions EXCEPT ![v] = {}]
    /\ userMgr'   = [userMgr EXCEPT ![v] = [u \in Uid |-> None]]
    /\ queue'     = [queue EXCEPT ![v] = <<>>]
    /\ logic'     = [logic EXCEPT ![v] = IdleLogic]
    /\ clean'     = [c \in Cleaner |-> IF Of(c) \in Lost THEN IdleClean ELSE clean[c]]
    /\ expired'   = [expired EXCEPT ![v] = {}]
    /\ kicks'     = {Orphaned(k, v) : k \in {k \in kicks : k.to # v}}
    /\ UNCHANGED <<host, userUid, regVars, lock>>

LoginStep(v) ==
    \/ LoginReject(v)    \/ LoginBegin(v)    \/ LoginAcquire(v) \/ LoginCheck(v)
    \/ LoginLookupOld(v) \/ LoginClearOld(v) \/ LoginKicked(v)  \/ LoginSetIp(v)
    \/ LoginSetSession(v) \/ LoginBind(v)    \/ LoginRelease(v)

CleanStep(c) ==
    \/ CleanAcquire(c) \/ CleanCheck(c) \/ CleanDelSession(c)
    \/ CleanDelIp(c)   \/ CleanClear(c) \/ CleanRelease(c)

ConnStep(s) ==
    \/ \E v \in Server : Accept(v, s) \/ TimerCleanup(v, s)
    \/ \E u \in Uid : RecvLogin(s, u)
    \/ ReadError(s) \/ WriteError(s) \/ BadFrame(s)

ServerStep(v) ==
    \/ Insert(v) \/ Crash(v)
    \/ \E E \in SUBSET sessions[v] : TimerScan(v, E)

KickStep(k) == KickLookup(k) \/ KickClear(k) \/ KickLost(k)

Next ==
    \/ \E v \in Server  : LoginStep(v) \/ ServerStep(v)
    \/ \E c \in Cleaner : CleanStep(c)
    \/ \E s \in Session : ConnStep(s)
    \/ \E k \in kicks   : KickStep(k)
    \/ \E u \in UidKey  : ExpireLock(u)
    \/ \E u \in Uid     : ExpireRegistration(u)

Spec == Init /\ [][Next]_vars

\* Threads keep running, served calls end, TTLs run out, the timer finds a session
\* whose connection is gone (no heartbeat updates it any more). Clients, failures and
\* crashes owe nothing.
Fairness ==
    /\ \A v \in Server  : WF_vars(LoginStep(v)) /\ WF_vars(Insert(v))
    /\ \A c \in Cleaner : WF_vars(CleanStep(c))
    /\ WF_vars(\E k \in kicks : KickLookup(k) \/ KickClear(k))
    /\ \A u \in UidKey  : WF_vars(ExpireLock(u))
    /\ \A s \in Session : WF_vars(ReadError(s))
    /\ \A v \in Server, s \in Session :
        /\ WF_vars(TimerCleanup(v, s))
        /\ WF_vars(conn[s] = "closed" /\ \E E \in SUBSET sessions[v] :
                                            s \in E /\ TimerScan(v, E))

FairSpec == Spec /\ Fairness

-----------------------------------------------------------------------------
(* Properties.                                                              *)

\* A user never has two live logins in the cluster: what the lock, the kick and the
\* registration of LoginHandler are for.
OneLiveLogin ==
    \A u \in Uid : \A v, w \in Server : Live(v, u) /\ Live(w, u) => v = w

\* Outside a locked section the registration in Redis is the live login: messages for
\* the user are routed to the server (and the next login kicks the session) that is
\* really online.
RegisteredWhereLive ==
    \A u \in Uid, v \in Server :
        Live(v, u) /\ lock[u] = None => uip[u] = v /\ usession[u] = userMgr[v][u]

\* The two keys of a registration name the same login: whatever was kicked or lapsed,
\* usession_<uid> is a session of the server in uip_<uid>. Without crashes: one between
\* the two Set's of LoginHandler leaves the keys of two logins.
RegistrationAgrees ==
    \A u \in Uid : lock[u] = None /\ uip[u] # None /\ usession[u] # None
                    => host[usession[u]] = uip[u]

\* The cleanup of a lost connection never unregisters a live login whose connection is
\* open: not even when the user logged in again while the cleanup was under way.
OnlineStaysRegistered ==
    [][\A u \in Uid, v \in Server :
        (/\ Live(v, u) /\ conn[userMgr[v][u]] = "open"
         /\ uip[u] = v /\ usession[u] = userMgr[v][u])
            => uip'[u] # None /\ usession'[u] # None]_vars

-----------------------------------------------------------------------------
(* The inductive invariant behind the properties above, for Faults within   *)
(* Handled.                                                                 *)

\* Whatever a server knows of a session, that session is its own, and the one it is
\* just accepting is not known at all.
Knows(v, s) == host[s] = v /\ s # accepting[v]

HostAccept ==
    /\ \A s \in Session : conn[s] = "fresh" => host[s] = None
    /\ \A v \in Server : accepting[v] # None => host[accepting[v]] = v
HostTables ==
    /\ \A v \in Server : \A s \in sessions[v] : Knows(v, s)
    /\ \A v \in Server, u \in Uid : userMgr[v][u] # None => Knows(v, userMgr[v][u])
HostLogins ==
    /\ \A v \in Server : \A m \in Range(queue[v]) : Knows(v, m.sess)
    /\ \A v \in Server : logic[v].pc # "idle" => Knows(v, logic[v].sess)
HostInv == HostAccept /\ HostTables /\ HostLogins

\* A section runs under the lock of its user.
LockInv ==
    /\ \A v \in Server : logic[v].pc \in LogicSection =>
        lock[logic[v].uid] = Logic(v) /\ logic[v].ident = Logic(v)
    /\ \A c \in Cleaner : clean[c].pc \in CleanSection =>
        lock[clean[c].uid] = c /\ clean[c].ident = c

\* What a cleanup has found out about the registration stays true until it acts on it.
CleanInv ==
    /\ \A v \in Server : \A s \in expired[v] : conn[s] = "closed" /\ host[s] = v
    /\ \A c \in Cleaner :
        /\ clean[c].pc # "idle" => conn[Of(c)] = "closed"
        /\ clean[c].pc \in {"delsess", "delip"} => usession[clean[c].uid] \in {Of(c), None}

\* Being unregistered: the cleanup of that session has deleted usession_<uid> or may have.
Leaving(v, u) ==
    \E c \in Cleaner : /\ clean[c].uid = u /\ Of(c) = userMgr[v][u]
                       /\ clean[c].pc \in {"delip", "clear"}

\* A live login is registered or being cleaned up.
RegInv ==
    \A v \in Server, u \in Uid :
        Live(v, u) => (uip[u] = v /\ usession[u] = userMgr[v][u]) \/ Leaving(v, u)

\* How far the login on v's logic thread has got with its predecessor.
LoginAt(v) ==
    LET u  == logic[v].uid
        pc == logic[v].pc
    IN
    /\ pc = "lookup" => \A w \in Server : Live(w, u) => w = v
    /\ pc = "clear"  => \A w \in Server : Live(w, u) => w = v /\ userMgr[v][u] = logic[v].old
    /\ pc = "kick"   => \A w \in Server : Live(w, u) =>
            \E k \in kicks : /\ k.from = v /\ k.to = w /\ k.uid = u
                             /\ k.sess \in {None, userMgr[w][u]}
    /\ pc \in {"setip", "setsess", "bind"} => \A w \in Server : ~Live(w, u)
    /\ pc \in {"setsess", "bind"} => uip[u] = v
    /\ pc = "bind" => usession[u] = logic[v].sess

LoginInv == \A v \in Server : LoginAt(v)

IInv == TypeOK /\ HostInv /\ LockInv /\ CleanInv /\ RegInv /\ LoginInv /\ OneLiveLogin

-----------------------------------------------------------------------------
\* Refinement: the live logins behave as seats that are left before they are taken.
seat == [u \in Uid |-> IF \E v \in Server : Live(v, u)
                       THEN userMgr[CHOOSE v \in Server : Live(v, u)][u]
                       ELSE None]
Seats == INSTANCE Seat WITH seat <- seat
SeatSpec == Seats!Spec

\* Every login that was started ends, whoever else holds the lock, fails or crashes.
LoginEnds == \A v \in Server : logic[v].pc # "idle" ~> logic[v].pc = "idle"

\* A lock does not outlive its section for ever, even if its holder crashed.
LockFreed == \A u \in Uid : lock[u] # None ~> lock[u] = None

\* A connection that is gone is eventually gone from _sessions, also when it was lost
\* before HandleAccept inserted it (then the heartbeat timer is the only one to see it).
ClosedForgotten ==
    \A s \in Session : conn[s] = "closed" ~> \A v \in Server : s \notin sessions[v]
=============================================================================
