------------------------- MODULE LoginSessionProofs -------------------------
(***************************************************************************)
(* Theorems about LoginSession for every set of servers, sessions and      *)
(* users, every queue bound and every choice of faults.                    *)
(***************************************************************************)
EXTENDS LoginSession, TLAPS

-----------------------------------------------------------------------------
(* Typing.                                                                  *)

LEMMA OwnerTypes ==
    /\ \A v \in Server : Logic(v) \in Owner
    /\ \A c \in Cleaner : c \in Owner /\ Of(c) \in Session
    /\ \A s \in Session : <<"io", s>> \in Cleaner /\ Of(<<"io", s>>) = s
    /\ \A s \in Session : <<"timer", s>> \in Cleaner /\ Of(<<"timer", s>>) = s
BY DEF Logic, Owner, Cleaner, Of

LEMMA BusyType ==
    ASSUME TypeOK, NEW v \in Server, logic[v].pc # "idle"
    PROVE  /\ logic[v] \in BusyLogic
           /\ logic[v].uid \in Uid /\ logic[v].uid \in UidKey
           /\ logic[v].sess \in Session
           /\ logic[v].old \in Session \cup {None}
           /\ logic[v].ident \in Owner \cup {None}
<1>1. logic[v] \in BusyLogic
  BY DEF TypeOK, IdleLogic
<1>. QED BY <1>1 DEF BusyLogic, UidKey

LEMMA CleanType ==
    ASSUME TypeOK, NEW c \in Cleaner
    PROVE  clean[c] \in CleanState /\ clean[c].uid \in UidKey
BY DEF TypeOK, CleanState

\* A thread that moves on in LoginHandler keeps its locals.
LEMMA LogicGotoType ==
    ASSUME TypeOK, NEW v \in Server, logic[v].pc # "idle",
           NEW pc \in LogicSection, LogicGoto(v, pc)
    PROVE  /\ logic' \in [Server -> BusyLogic \cup {IdleLogic}]
           /\ \A w \in Server : w # v => logic'[w] = logic[w]
           /\ logic'[v] \in BusyLogic
           /\ logic'[v].pc = pc
           /\ logic'[v].uid = logic[v].uid
           /\ logic'[v].sess = logic[v].sess
           /\ logic'[v].ident = logic[v].ident
           /\ logic'[v].old = logic[v].old
<1>1. logic[v] \in BusyLogic
  BY BusyType
<1>2. [logic[v] EXCEPT !.pc = pc] \in BusyLogic
  BY <1>1 DEF BusyLogic
<1>. QED BY <1>1, <1>2 DEF LogicGoto, TypeOK, BusyLogic

LEMMA CleanGotoType ==
    ASSUME TypeOK, NEW c \in Cleaner,
           NEW pc \in CleanSection, CleanGoto(c, pc)
    PROVE  /\ clean' \in [Cleaner -> CleanState]
           /\ \A d \in Cleaner : d # c => clean'[d] = clean[d]
           /\ clean'[c].pc = pc
           /\ clean'[c].uid = clean[c].uid
           /\ clean'[c].ident = clean[c].ident
<1>1. [clean[c] EXCEPT !.pc = pc] \in CleanState
  BY CleanType DEF CleanState
<1>. QED BY <1>1, CleanType DEF CleanGoto, TypeOK, CleanState

LEMMA StartCleanupType ==
    ASSUME TypeOK, NEW c \in Cleaner, StartCleanup(c)
    PROVE  /\ clean' \in [Cleaner -> CleanState]
           /\ \A d \in Cleaner : d # c => clean'[d] = clean[d]
           /\ clean'[c].pc = "acquire"
<1>1. [pc |-> "acquire", uid |-> userUid[Of(c)], ident |-> None] \in CleanState
  BY OwnerTypes DEF TypeOK, CleanState
<1>. QED BY <1>1 DEF StartCleanup, TypeOK

LEMMA ClearSessionType ==
    ASSUME TypeOK, NEW v \in Server, NEW s, ClearSession(v, s)
    PROVE  /\ sessions' \in [Server -> SUBSET Session]
           /\ userUid'  \in [Session -> UidKey]
           /\ userMgr'  \in [Server -> [Uid -> Session \cup {None}]]
BY DEF TypeOK, ClearSession, RmvUserSession

LEMMA LockType ==
    ASSUME TypeOK, NEW u \in UidKey, NEW p \in Owner, NEW ident,
           AcquireLock(p, u, ident) \/ ReleaseLock(u, ident)
    PROVE  lock' \in [UidKey -> Owner \cup {None}]
BY DEF TypeOK, AcquireLock, ReleaseLock

LEMMA TypeInit == Init => TypeOK
BY DEF Init, TypeOK, IdleLogic, IdleClean, CleanState, UidKey

LEMMA TypeLogin ==
    ASSUME TypeOK, NEW v \in Server, LoginStep(v) PROVE TypeOK'
<1>1. ASSUME LoginReject(v) PROVE TypeOK'
  BY <1>1 DEF LoginReject, TypeOK, netVars, tableVars, regVars
<1>2. ASSUME LoginBegin(v) PROVE TypeOK'
  <2> DEFINE m == Head(queue[v])
  <2>1. m \in Login /\ Tail(queue[v]) \in Seq(Login)
    BY <1>2 DEF LoginBegin, TypeOK
  <2>2. m.sess \in Session /\ m.uid \in Uid /\ m.uid \in UidKey
    BY <2>1 DEF Login, UidKey
  <2>3. [pc |-> "acquire", sess |-> m.sess, uid |-> m.uid, ident |-> None, old |-> None]
            \in BusyLogic
    BY <2>2 DEF BusyLogic
  <2> HIDE DEF m
  <2>. QED BY <1>2, <2>1, <2>2, <2>3 DEF LoginBegin, TypeOK, netVars, tableVars, regVars, m
<1>3. ASSUME LoginAcquire(v) PROVE TypeOK'
  <2> PICK ident \in {Logic(v), None} :
        /\ AcquireLock(Logic(v), logic[v].uid, ident)
        /\ logic' = [logic EXCEPT ![v] = [@ EXCEPT !.ident = ident, !.pc = "check"]]
    BY <1>3 DEF LoginAcquire
  <2>1. logic[v] \in BusyLogic /\ logic[v].uid \in UidKey
    BY <1>3, BusyType DEF LoginAcquire
  <2>2. [logic[v] EXCEPT !.ident = ident, !.pc = "check"] \in BusyLogic
    BY <2>1, OwnerTypes DEF BusyLogic, LogicSection
  <2>3. lock' \in [UidKey -> Owner \cup {None}]
    BY <2>1, LockType, OwnerTypes
  <2>. QED BY <1>3, <2>2, <2>3 DEF LoginAcquire, TypeOK, netVars, tableVars, regVars
<1>4. ASSUME LoginCheck(v) PROVE TypeOK'
  <2>1. logic' \in [Server -> BusyLogic \cup {IdleLogic}]
        /\ (\A w \in Server : w # v => logic'[w] = logic[w]) /\ logic'[v].pc # "clear"
    BY <1>4, LogicGotoType DEF LoginCheck, LogicSection
  <2>2. logic[v].uid \in Uid /\ logic[v].uid \in UidKey
    BY <1>4, BusyType DEF LoginCheck
  <2>3. kicks' \in SUBSET Kick
    BY <1>4, <2>2 DEF LoginCheck, Kick, TypeOK
  <2>. QED BY <1>4, <2>1, <2>3 DEF LoginCheck, TypeOK, netVars, tableVars, regVars
<1>5. ASSUME LoginLookupOld(v) PROVE TypeOK'
  <2> DEFINE s == userMgr[v][logic[v].uid]
             n == [logic[v] EXCEPT !.old = s,
                                   !.pc = IF s = None THEN "setip" ELSE "clear"]
  <2>1. logic[v] \in BusyLogic /\ logic[v].uid \in Uid
    BY <1>5, BusyType DEF LoginLookupOld
  <2>2. s \in Session \cup {None}
    BY <2>1 DEF TypeOK
  <2>3. n \in BusyLogic /\ (n.pc = "clear" => n.old \in Session)
    BY <2>1, <2>2 DEF BusyLogic, LogicSection
  <2>4. logic' = [logic EXCEPT ![v] = n]
    BY <1>5 DEF LoginLookupOld
  <2> HIDE DEF n
  <2>5. /\ logic' \in [Server -> BusyLogic \cup {IdleLogic}]
        /\ \A w \in Server : logic'[w].pc = "clear" => logic'[w].old \in Session
    BY <2>3, <2>4 DEF TypeOK
  <2>6. UNCHANGED <<netVars, tableVars, queue, clean, expired, kicks, regVars, lock>>
    BY <1>5 DEF LoginLookupOld
  <2>. QED BY <2>5, <2>6 DEF TypeOK, netVars, tableVars, regVars
<1>6. ASSUME LoginClearOld(v) PROVE TypeOK'
  <2>1. logic' \in [Server -> BusyLogic \cup {IdleLogic}]
        /\ (\A w \in Server : w # v => logic'[w] = logic[w]) /\ logic'[v].pc # "clear"
    BY <1>6, LogicGotoType DEF LoginClearOld, LogicSection
  <2>. QED BY <1>6, <2>1, ClearSessionType DEF LoginClearOld, TypeOK, netVars, regVars
<1>7. ASSUME LoginKicked(v) PROVE TypeOK'
  <2>1. logic' \in [Server -> BusyLogic \cup {IdleLogic}]
        /\ (\A w \in Server : w # v => logic'[w] = logic[w]) /\ logic'[v].pc # "clear"
    BY <1>7, LogicGotoType DEF LoginKicked, LogicSection
  <2>. QED BY <1>7, <2>1 DEF LoginKicked, TypeOK, netVars, tableVars, regVars
<1>8. ASSUME LoginSetIp(v) PROVE TypeOK'
  <2>1. logic' \in [Server -> BusyLogic \cup {IdleLogic}]
        /\ (\A w \in Server : w # v => logic'[w] = logic[w]) /\ logic'[v].pc # "clear"
    BY <1>8, LogicGotoType DEF LoginSetIp, LogicSection
  <2>. QED BY <1>8, <2>1 DEF LoginSetIp, TypeOK, netVars, tableVars, regVars
<1>9. ASSUME LoginSetSession(v) PROVE TypeOK'
  <2>1. logic' \in [Server -> BusyLogic \cup {IdleLogic}]
        /\ (\A w \in Server : w # v => logic'[w] = logic[w]) /\ logic'[v].pc # "clear"
    BY <1>9, LogicGotoType DEF LoginSetSession, LogicSection
  <2>2. logic[v].sess \in Session
    BY <1>9, BusyType DEF LoginSetSession
  <2>. QED BY <1>9, <2>1, <2>2 DEF LoginSetSession, TypeOK, netVars, tableVars, regVars
<1>10. ASSUME LoginBind(v) PROVE TypeOK'
  <2>1. logic' \in [Server -> BusyLogic \cup {IdleLogic}]
        /\ (\A w \in Server : w # v => logic'[w] = logic[w]) /\ logic'[v].pc # "clear"
    BY <1>10, LogicGotoType DEF LoginBind, LogicSection
  <2>2. logic[v].sess \in Session
    BY <1>10, BusyType DEF LoginBind
  <2>. QED BY <1>10, <2>1, <2>2 DEF LoginBind, TypeOK, netVars, tableVars, regVars
<1>11. ASSUME LoginRelease(v) PROVE TypeOK'
  <2>1. logic[v].uid \in UidKey
    BY <1>11, BusyType DEF LoginRelease
  <2>2. lock' \in [UidKey -> Owner \cup {None}]
    BY <1>11, <2>1 DEF LoginRelease, ReleaseLock, TypeOK
  <2>. QED BY <1>11, <2>2 DEF LoginRelease, TypeOK, IdleLogic, netVars, tableVars, regVars
<1>. QED BY <1>1, <1>2, <1>3, <1>4, <1>5, <1>6, <1>7, <1>8, <1>9, <1>10, <1>11 DEF LoginStep

LEMMA TypeClean ==
    ASSUME TypeOK, NEW c \in Cleaner, CleanStep(c) PROVE TypeOK'
<1>a. clean[c] \in CleanState /\ clean[c].uid \in UidKey
  BY CleanType
<1>1. ASSUME CleanAcquire(c) PROVE TypeOK'
  <2> PICK ident \in {c, None} :
        /\ AcquireLock(c, clean[c].uid, ident)
        /\ clean' = [clean EXCEPT ![c] =
             [@ EXCEPT !.ident = ident, !.pc = IF ident = None THEN "clear" ELSE "check"]]
    BY <1>1 DEF CleanAcquire
  <2>1. [clean[c] EXCEPT !.ident = ident, !.pc = IF ident = None THEN "clear" ELSE "check"]
            \in CleanState
    BY <1>a, OwnerTypes DEF CleanState, CleanSection
  <2>2. lock' \in [UidKey -> Owner \cup {None}]
    BY <1>a, LockType, OwnerTypes
  <2>3. clean' \in [Cleaner -> CleanState]
    BY <2>1 DEF TypeOK
  <2>4. UNCHANGED <<netVars, tableVars, queue, logic, expired, kicks, regVars>>
    BY <1>1 DEF CleanAcquire
  <2>. QED BY <2>2, <2>3, <2>4 DEF TypeOK, netVars, tableVars, regVars
<1>2. ASSUME CleanCheck(c) PROVE TypeOK'
  <2>1. clean' \in [Cleaner -> CleanState]
    BY <1>2, CleanGotoType DEF CleanCheck, CleanSection
  <2>. QED BY <1>2, <2>1 DEF CleanCheck, TypeOK, netVars, tableVars, regVars
<1>3. ASSUME CleanDelSession(c) PROVE TypeOK'
  <2>1. clean' \in [Cleaner -> CleanState]
    BY <1>3, CleanGotoType DEF CleanDelSession, CleanSection
  <2>. QED BY <1>3, <2>1 DEF CleanDelSession, TypeOK, netVars, tableVars, regVars
<1>4. ASSUME CleanDelIp(c) PROVE TypeOK'
  <2>1. clean' \in [Cleaner -> CleanState]
    BY <1>4, CleanGotoType DEF CleanDelIp, CleanSection
  <2>. QED BY <1>4, <2>1 DEF CleanDelIp, TypeOK, netVars, tableVars, regVars
<1>5. ASSUME CleanClear(c) PROVE TypeOK'
  <2>1. clean' \in [Cleaner -> CleanState]
    BY <1>5, CleanGotoType DEF CleanClear, CleanSection
  <2>2. /\ sessions' \in [Server -> SUBSET Session]
        /\ userUid'  \in [Session -> UidKey]
        /\ userMgr'  \in [Server -> [Uid -> Session \cup {None}]]
    BY <1>5 DEF CleanClear, TypeOK, ClearSession, RmvUserSession
  <2>. QED BY <1>5, <2>1, <2>2 DEF CleanClear, TypeOK, netVars, regVars
<1>6. ASSUME CleanRelease(c) PROVE TypeOK'
  <2>1. lock' \in [UidKey -> Owner \cup {None}]
    BY <1>6, <1>a DEF CleanRelease, ReleaseLock, TypeOK
  <2>2. IdleClean \in CleanState
    BY DEF IdleClean, CleanState, UidKey
  <2>. QED BY <1>6, <2>1, <2>2 DEF CleanRelease, TypeOK, netVars, tableVars, regVars
<1>. QED BY <1>1, <1>2, <1>3, <1>4, <1>5, <1>6 DEF CleanStep

LEMMA TypeConn ==
    ASSUME TypeOK, NEW s \in Session, ConnStep(s) PROVE TypeOK'
<1>1. ASSUME NEW v \in Server, Accept(v, s) PROVE TypeOK'
  BY <1>1 DEF Accept, TypeOK, tableVars, regVars
<1>2. ASSUME NEW v \in Server, TimerCleanup(v, s) PROVE TypeOK'
  <2>1. clean' \in [Cleaner -> CleanState]
    BY <1>2, StartCleanupType, OwnerTypes DEF TimerCleanup
  <2>. QED BY <1>2, <2>1 DEF TimerCleanup, TypeOK, netVars, tableVars, regVars
<1>3. ASSUME NEW u \in Uid, RecvLogin(s, u) PROVE TypeOK'
  <2>1. [sess |-> s, uid |-> u] \in Login
    BY DEF Login
  <2>2. queue' \in [Server -> Seq(Login)]
    <3>1. \A v \in Server : Append(queue[v], [sess |-> s, uid |-> u]) \in Seq(Login)
      BY <2>1 DEF TypeOK
    <3>2. \/ UNCHANGED queue
          \/ \E v : queue' = [queue EXCEPT ![v] = Append(@, [sess |-> s, uid |-> u])]
      BY <1>3 DEF RecvLogin
    <3>3. ASSUME NEW v, queue' = [queue EXCEPT ![v] = Append(@, [sess |-> s, uid |-> u])]
          PROVE  queue' \in [Server -> Seq(Login)]
      <4>1. CASE v \in Server
        BY <3>1, <3>3, <4>1 DEF TypeOK
      <4>2. CASE v \notin Server
        BY <3>3, <4>2 DEF TypeOK
      <4>. QED BY <4>1, <4>2
    <3>4. CASE UNCHANGED queue
      BY <3>4 DEF TypeOK
    <3>. QED BY <3>2, <3>3, <3>4
  <2>3. /\ conn' \in [Session -> {"fresh", "open", "closed"}]
        /\ reading' \in [Session -> BOOLEAN]
    BY <1>3 DEF RecvLogin, TypeOK
  <2>4. UNCHANGED <<host, accepting, tableVars, logic, clean, expired, kicks, regVars, lock>>
    BY <1>3 DEF RecvLogin
  <2>. QED BY <2>2, <2>3, <2>4 DEF TypeOK, tableVars, regVars
<1>4. ASSUME ReadError(s) PROVE TypeOK'
  <2>1. clean' \in [Cleaner -> CleanState]
    BY <1>4, StartCleanupType, OwnerTypes DEF ReadError
  <2>. QED BY <1>4, <2>1 DEF ReadError, TypeOK, tableVars, regVars
<1>5. ASSUME WriteError(s) PROVE TypeOK'
  <2>1. clean' \in [Cleaner -> CleanState]
    BY <1>5, StartCleanupType, OwnerTypes DEF WriteError
  <2>. QED BY <1>5, <2>1 DEF WriteError, TypeOK, tableVars, regVars
<1>6. ASSUME BadFrame(s) PROVE TypeOK'
  <2>1. /\ sessions' \in [Server -> SUBSET Session]
        /\ userUid'  \in [Session -> UidKey]
        /\ userMgr'  \in [Server -> [Uid -> Session \cup {None}]]
    BY <1>6 DEF BadFrame, TypeOK, ClearSession, RmvUserSession
  <2>. QED BY <1>6, <2>1 DEF BadFrame, TypeOK, regVars
<1>7. CASE \E v \in Server : Accept(v, s) \/ TimerCleanup(v, s)
  BY <1>7, <1>1, <1>2
<1>8. CASE \E u \in Uid : RecvLogin(s, u)
  BY <1>8, <1>3
<1>. QED BY <1>4, <1>5, <1>6, <1>7, <1>8 DEF ConnStep

LEMMA TypeServer ==
    ASSUME TypeOK, NEW v \in Server, ServerStep(v) PROVE TypeOK'
<1>1. ASSUME Insert(v) PROVE TypeOK'
  BY <1>1 DEF Insert, TypeOK, regVars
<1>2. ASSUME NEW E \in SUBSET sessions[v], TimerScan(v, E) PROVE TypeOK'
  BY <1>2 DEF TimerScan, TypeOK, tableVars, regVars
<1>3. ASSUME Crash(v) PROVE TypeOK'
  <2>1. kicks' \in SUBSET Kick
    <3>1. \A k \in Kick : Orphaned(k, v) \in Kick
      BY DEF Orphaned, Kick
    <3>2. kicks' = {Orphaned(k, v) : k \in {k \in kicks : k.to # v}}
      BY <1>3 DEF Crash
    <3>. QED BY <3>1, <3>2 DEF TypeOK
  <2>2. clean' \in [Cleaner -> CleanState]
    BY <1>3 DEF Crash, TypeOK, IdleClean, CleanState, UidKey
  <2>3. logic' \in [Server -> BusyLogic \cup {IdleLogic}]
        /\ \A w \in Server : logic'[w].pc = "clear" => logic'[w].old \in Session
    BY <1>3 DEF Crash, TypeOK, IdleLogic
  <2>4. /\ conn' \in [Session -> {"fresh", "open", "closed"}]
        /\ reading' \in [Session -> BOOLEAN]
    BY <1>3 DEF Crash, TypeOK
  <2>5. /\ accepting' \in [Server -> Session \cup {None}]
        /\ sessions' \in [Server -> SUBSET Session]
        /\ userMgr' \in [Server -> [Uid -> Session \cup {None}]]
        /\ queue' \in [Server -> Seq(Login)]
        /\ expired' \in [Server -> SUBSET Session]
    BY <1>3 DEF Crash, TypeOK
  <2>6. UNCHANGED <<host, userUid, regVars, lock>>
    BY <1>3 DEF Crash
  <2>. QED BY <2>1, <2>2, <2>3, <2>4, <2>5, <2>6 DEF TypeOK, regVars
<1>. QED BY <1>1, <1>2, <1>3 DEF ServerStep

LEMMA TypeKick ==
    ASSUME TypeOK, NEW k \in kicks, KickStep(k) PROVE TypeOK'
<1>a. k \in Kick /\ k.to \in Server /\ k.uid \in Uid /\ k.sess \in Session \cup {None}
  BY DEF TypeOK, Kick
<1>1. ASSUME KickLookup(k) PROVE TypeOK'
  <2>1. \A s \in Session : [k EXCEPT !.sess = s] \in Kick
    BY <1>a DEF Kick
  <2>2. userMgr[k.to][k.uid] \in Session \cup {None}
    BY <1>a DEF TypeOK
  <2>3. kicks' \in SUBSET Kick
    BY <1>1, <2>1, <2>2 DEF KickLookup, TypeOK
  <2>4. UNCHANGED <<netVars, tableVars, queue, logic, clean, expired, regVars, lock>>
    BY <1>1 DEF KickLookup
  <2>. QED BY <2>3, <2>4 DEF TypeOK, netVars, tableVars, regVars
<1>2. ASSUME KickClear(k) PROVE TypeOK'
  <2>1. /\ sessions' \in [Server -> SUBSET Session]
        /\ userUid'  \in [Session -> UidKey]
        /\ userMgr'  \in [Server -> [Uid -> Session \cup {None}]]
    BY <1>2, <1>a, ClearSessionType DEF KickClear
  <2>. QED BY <1>2, <2>1 DEF KickClear, TypeOK, netVars, regVars
<1>3. ASSUME KickLost(k) PROVE TypeOK'
  <2>1. [k EXCEPT !.from = None] \in Kick
    BY <1>a DEF Kick
  <2>. QED BY <1>3, <2>1 DEF KickLost, TypeOK, netVars, tableVars, regVars
<1>. QED BY <1>1, <1>2, <1>3 DEF KickStep

LEMMA TypeStep == TypeOK /\ [Next]_vars => TypeOK'
<1> SUFFICES ASSUME TypeOK, [Next]_vars PROVE TypeOK'
  OBVIOUS
<1>1. ASSUME NEW u \in UidKey, ExpireLock(u) PROVE TypeOK'
  BY <1>1 DEF ExpireLock, TypeOK, netVars, tableVars, regVars
<1>2. ASSUME NEW u \in Uid, ExpireRegistration(u) PROVE TypeOK'
  BY <1>2 DEF ExpireRegistration, TypeOK, UidKey, netVars, tableVars
<1>3. ASSUME UNCHANGED vars PROVE TypeOK'
  BY <1>3 DEF vars, TypeOK, netVars, tableVars, regVars
<1>. QED BY <1>1, <1>2, <1>3, TypeLogin, TypeClean, TypeConn, TypeServer, TypeKick DEF Next

\* Every state keeps its types, under every choice of faults.
THEOREM TypeCorrect == Spec => []TypeOK
<1>. QED BY TypeInit, TypeStep, PTL DEF Spec

-----------------------------------------------------------------------------
(* HostInv.                                                                 *)

LEMMA RangeAppend ==
    ASSUME NEW S, NEW q \in Seq(S), NEW e \in S, NEW x \in Range(Append(q, e))
    PROVE  x \in Range(q) \/ x = e
BY DEF Range

LEMMA RangeTail ==
    ASSUME NEW S, NEW q \in Seq(S), q # <<>>
    PROVE  /\ Head(q) \in Range(q)
           /\ \A x \in Range(Tail(q)) : x \in Range(q)
BY DEF Range

LEMMA QueuedSessions ==
    ASSUME TypeOK PROVE \A v \in Server : \A m \in Range(queue[v]) : m.sess \in Session
<1>1. ASSUME NEW v \in Server, NEW i \in DOMAIN queue[v] PROVE queue[v][i].sess \in Session
  <2>1. queue[v] \in Seq(Login)
    BY DEF TypeOK
  <2>2. queue[v][i] \in Login
    BY <2>1
  <2>. QED BY <2>2 DEF Login
<1>. QED BY <1>1 DEF Range

LEMMA RangeEmpty == Range(<<>>) = {}
BY DEF Range

LEMMA HostInit == Init => HostInv
BY NoneAssumption, RangeEmpty
DEF Init, HostInv, HostAccept, HostTables, HostLogins, Knows, IdleLogic

\* ClearSession only forgets.
LEMMA ClearShrinks ==
    ASSUME TypeOK, NEW v, NEW s, ClearSession(v, s)
    PROVE  /\ \A w \in Server : sessions'[w] \subseteq sessions[w]
           /\ \A w \in Server, u \in Uid : userMgr'[w][u] \in {userMgr[w][u], None}
           /\ v \in Server => s \notin sessions'[v]
           /\ userUid' = userUid
<1>1. CASE v \in Server
  BY <1>1 DEF TypeOK, ClearSession, RmvUserSession
<1>2. CASE v \notin Server
  <2>1. \A w \in Server : sessions'[w] = sessions[w]
    BY <1>2 DEF TypeOK, ClearSession
  <2>2. \A u : [userMgr EXCEPT ![v][u] = None] = userMgr
    BY <1>2 DEF TypeOK
  <2>3. userMgr' = userMgr
    BY <2>2 DEF ClearSession, RmvUserSession
  <2>. QED BY <1>2, <2>1, <2>3 DEF ClearSession
<1>. QED BY <1>1, <1>2

\* Steps that bring no session to a table, a queue or the logic thread.
LEMMA HostShrinks ==
    ASSUME TypeOK, HostInv,
           UNCHANGED <<host, accepting>>,
           \A s \in Session : conn'[s] = "fresh" => conn[s] = "fresh",
           \A w \in Server : sessions'[w] \subseteq sessions[w],
           \A w \in Server, u \in Uid : userMgr'[w][u] \in {userMgr[w][u], None},
           \A w \in Server : Range(queue'[w]) \subseteq Range(queue[w]),
           \A w \in Server : logic'[w].pc = "idle"
                             \/ (logic[w].pc # "idle" /\ logic'[w].sess = logic[w].sess)
    PROVE  HostInv'
<1>1. HostAccept'
  BY DEF HostInv, HostAccept
<1>2. HostTables'
  BY DEF HostInv, HostTables, Knows
<1>3. HostLogins'
  BY DEF HostInv, HostLogins, Knows
<1>. QED BY <1>1, <1>2, <1>3 DEF HostInv

\* What a step of LoginHandler does to the locals of the logic threads.
LEMMA LoginThread ==
    ASSUME TypeOK, NEW v \in Server, LoginStep(v)
    PROVE  /\ \A w \in Server : w # v => logic'[w] = logic[w]
           /\ logic[v].pc # "idle" =>
                \/ logic'[v].pc = "idle"
                \/ logic'[v].sess = logic[v].sess /\ logic'[v].uid = logic[v].uid
<1>1. CASE LoginReject(v) \/ LoginBegin(v) \/ LoginRelease(v)
  BY <1>1 DEF LoginReject, LoginBegin, LoginRelease, TypeOK, IdleLogic
<1>2. CASE LoginAcquire(v) \/ LoginLookupOld(v)
  <2>1. logic[v] \in BusyLogic
    BY <1>2, BusyType DEF LoginAcquire, LoginLookupOld
  <2>2. \E n : logic' = [logic EXCEPT ![v] = n]
               /\ n.sess = logic[v].sess /\ n.uid = logic[v].uid
    BY <1>2, <2>1 DEF LoginAcquire, LoginLookupOld, BusyLogic
  <2>. QED BY <2>2 DEF TypeOK
<1>3. CASE \/ LoginCheck(v) \/ LoginClearOld(v) \/ LoginKicked(v) \/ LoginSetIp(v)
           \/ LoginSetSession(v) \/ LoginBind(v)
  <2>1. logic[v].pc # "idle" /\ \E pc \in LogicSection : LogicGoto(v, pc)
    BY <1>3 DEF LoginCheck, LoginClearOld, LoginKicked, LoginSetIp, LoginSetSession,
                LoginBind, LogicSection
  <2>. QED BY <2>1, LogicGotoType
<1>. QED BY <1>1, <1>2, <1>3 DEF LoginStep

LEMMA HostLogin ==
    ASSUME TypeOK, HostInv, NEW v \in Server, LoginStep(v) PROVE HostInv'
<1>1. CASE LoginReject(v)
  <2>1. \A w \in Server : Range(queue'[w]) \subseteq Range(queue[w])
    BY <1>1, RangeTail DEF LoginReject, TypeOK
  <2>2. UNCHANGED <<netVars, tableVars, logic>>
    BY <1>1 DEF LoginReject
  <2>. QED BY <2>1, <2>2, HostShrinks DEF netVars, tableVars
<1>2. CASE LoginBegin(v)
  <2>1. /\ \A x \in Range(Tail(queue[v])) : x \in Range(queue[v])
        /\ Head(queue[v]) \in Range(queue[v])
    BY <1>2, RangeTail DEF LoginBegin, TypeOK
  <2>2. /\ logic'[v].sess = Head(queue[v]).sess
        /\ \A w \in Server : w # v => logic'[w] = logic[w] /\ queue'[w] = queue[w]
        /\ queue'[v] = Tail(queue[v])
    BY <1>2 DEF LoginBegin, TypeOK
  <2>3. UNCHANGED <<conn, host, accepting, sessions, userMgr>>
    BY <1>2 DEF LoginBegin, netVars
  <2>4. HostLogins'
    BY <2>1, <2>2, <2>3 DEF HostInv, HostLogins, Knows
  <2>5. HostAccept' /\ HostTables'
    BY <2>3 DEF HostInv, HostAccept, HostTables, Knows
  <2>. QED BY <2>4, <2>5 DEF HostInv
<1>3. CASE LoginBind(v)
  <2>1. logic[v].pc # "idle" /\ logic[v].sess \in Session /\ logic[v].uid \in Uid
    BY <1>3, BusyType DEF LoginBind
  <2>2. UNCHANGED <<conn, host, accepting, sessions, queue>>
    BY <1>3 DEF LoginBind, netVars
  <2>3. HostTables'
    BY <1>3, <2>1, <2>2 DEF LoginBind, HostInv, HostTables, HostLogins, Knows, TypeOK
  <2>4. HostAccept' /\ HostLogins'
    BY <2>1, <2>2, LoginThread DEF HostInv, HostAccept, HostLogins, Knows
  <2>. QED BY <2>3, <2>4 DEF HostInv
<1>4. CASE LoginClearOld(v)
  <2>1. logic[v].pc # "idle" /\ logic[v].old \in Session
    BY <1>4 DEF LoginClearOld, TypeOK
  <2>2. UNCHANGED <<conn, host, accepting, queue>>
    BY <1>4 DEF LoginClearOld, netVars
  <2>3. ClearSession(v, logic[v].old)
    BY <1>4 DEF LoginClearOld
  <2>. QED BY <2>1, <2>2, <2>3, ClearShrinks, LoginThread, HostShrinks
<1>5. CASE \/ LoginAcquire(v) \/ LoginCheck(v) \/ LoginLookupOld(v) \/ LoginKicked(v)
           \/ LoginSetIp(v) \/ LoginSetSession(v) \/ LoginRelease(v)
  <2>1. logic[v].pc # "idle" /\ UNCHANGED <<netVars, tableVars, queue>>
    BY <1>5 DEF LoginAcquire, LoginCheck, LoginLookupOld, LoginKicked, LoginSetIp,
                LoginSetSession, LoginRelease
  <2>. QED BY <2>1, LoginThread, HostShrinks DEF netVars, tableVars
<1>. QED BY <1>1, <1>2, <1>3, <1>4, <1>5 DEF LoginStep

LEMMA HostConn ==
    ASSUME TypeOK, HostInv, NEW s \in Session, ConnStep(s) PROVE HostInv'
<1>1. ASSUME NEW v \in Server, Accept(v, s) PROVE HostInv'
  <2>1. host[s] = None /\ v # None /\ s # None
    BY <1>1, NoneAssumption DEF Accept, HostInv, HostAccept
  <2>2. /\ \A t \in Session : t # s => host'[t] = host[t]
        /\ host'[s] = v
        /\ \A w \in Server : w # v => accepting'[w] = accepting[w]
        /\ accepting[v] = None /\ accepting'[v] = s
        /\ UNCHANGED <<sessions, userMgr, queue, logic>>
        /\ \A t \in Session : conn'[t] = "fresh" => t # s /\ conn[t] = "fresh"
    BY <1>1 DEF Accept, TypeOK, tableVars
  <2>3. \A w \in Server, t \in Session : Knows(w, t) => t # s /\ Knows(w, t)'
    BY <2>1, <2>2, NoneAssumption DEF Knows
  <2>4. HostAccept'
    <3>1. \A t \in Session : conn'[t] = "fresh" => host'[t] = None
      BY <2>2 DEF HostInv, HostAccept
    <3>2. ASSUME NEW w \in Server, accepting'[w] # None PROVE host'[accepting'[w]] = w
      <4>1. CASE w = v
        BY <2>2, <4>1
      <4>2. CASE w # v
        <5>1. accepting'[w] = accepting[w] /\ accepting[w] \in Session
          BY <2>2, <3>2, <4>2 DEF TypeOK
        <5>2. host[accepting[w]] = w /\ w # None
          BY <3>2, <5>1, NoneAssumption DEF HostInv, HostAccept
        <5>. QED BY <2>1, <2>2, <5>1, <5>2
      <4>. QED BY <4>1, <4>2
    <3>. QED BY <3>1, <3>2 DEF HostAccept
  <2>5. HostTables'
    BY <2>2, <2>3 DEF HostInv, HostTables, TypeOK
  <2>6. HostLogins'
    <3>1. \A w \in Server : \A m \in Range(queue[w]) : m.sess \in Session
      BY QueuedSessions
    <3>2. \A w \in Server : logic[w].pc # "idle" => logic[w].sess \in Session
      BY BusyType
    <3>. QED BY <2>2, <2>3, <3>1, <3>2 DEF HostInv, HostLogins
  <2>. QED BY <2>4, <2>5, <2>6 DEF HostInv
<1>2. ASSUME NEW v \in Server, TimerCleanup(v, s) PROVE HostInv'
  <2>1. UNCHANGED <<netVars, tableVars, queue, logic>>
    BY <1>2 DEF TimerCleanup
  <2>. QED BY <2>1, HostShrinks DEF netVars, tableVars
<1>3. ASSUME NEW u \in Uid, RecvLogin(s, u) PROVE HostInv'
  <2>1. UNCHANGED <<host, accepting, sessions, userMgr, logic>>
    BY <1>3 DEF RecvLogin, tableVars
  <2>2. \A t \in Session : conn'[t] = "fresh" => conn[t] = "fresh"
    BY <1>3 DEF RecvLogin, TypeOK
  <2>3. CASE UNCHANGED queue
    BY <2>1, <2>2, <2>3, HostShrinks
  <2>4. CASE s \in sessions[host[s]]
    <3> DEFINE e == [sess |-> s, uid |-> u]
    <3>1. queue' = [queue EXCEPT ![host[s]] = Append(@, e)]
      BY <1>3, <2>4 DEF RecvLogin
    <3>2. CASE host[s] \notin Server
      BY <2>1, <2>2, <3>1, <3>2, HostShrinks DEF TypeOK
    <3>3. CASE host[s] \in Server
      <4>1. Knows(host[s], s)
        BY <2>4, <3>3 DEF HostInv, HostTables
      <4>2. e \in Login /\ e.sess = s
        BY DEF Login
      <4>3. \A w \in Server : \A m \in Range(queue'[w]) :
                m \in Range(queue[w]) \/ (w = host[s] /\ m = e)
        <5> HIDE DEF e
        <5>. QED BY <3>1, <3>3, <4>2, RangeAppend DEF TypeOK
      <4> HIDE DEF e
      <4>4. HostLogins'
        BY <2>1, <4>1, <4>2, <4>3 DEF HostInv, HostLogins, Knows
      <4>5. HostAccept' /\ HostTables'
        BY <2>1, <2>2 DEF HostInv, HostAccept, HostTables, Knows
      <4>. QED BY <4>4, <4>5 DEF HostInv
    <3>. QED BY <3>2, <3>3
  <2>. QED BY <1>3, <2>3, <2>4 DEF RecvLogin
<1>4. CASE ReadError(s) \/ WriteError(s)
  <2>1. UNCHANGED <<host, accepting, tableVars, queue, logic>>
    BY <1>4 DEF ReadError, WriteError
  <2>2. \A t \in Session : conn'[t] = "fresh" => conn[t] = "fresh"
    BY <1>4 DEF ReadError, WriteError, TypeOK
  <2>. QED BY <2>1, <2>2, HostShrinks DEF tableVars
<1>5. CASE BadFrame(s)
  <2>1. UNCHANGED <<host, accepting, queue, logic>> /\ ClearSession(host[s], s)
    BY <1>5 DEF BadFrame
  <2>2. \A t \in Session : conn'[t] = "fresh" => conn[t] = "fresh"
    BY <1>5 DEF BadFrame, TypeOK
  <2>3. /\ \A w \in Server : sessions'[w] \subseteq sessions[w]
        /\ \A w \in Server, u \in Uid : userMgr'[w][u] \in {userMgr[w][u], None}
    BY <2>1, ClearShrinks
  <2>. QED BY <2>1, <2>2, <2>3, HostShrinks
<1>6. CASE \E v \in Server : Accept(v, s) \/ TimerCleanup(v, s)
  BY <1>6, <1>1, <1>2
<1>7. CASE \E u \in Uid : RecvLogin(s, u)
  BY <1>7, <1>3
<1>. QED BY <1>4, <1>5, <1>6, <1>7 DEF ConnStep

LEMMA HostClean ==
    ASSUME TypeOK, HostInv, NEW c \in Cleaner, CleanStep(c) PROVE HostInv'
<1>1. UNCHANGED <<netVars, queue, logic>>
  BY DEF CleanStep, CleanAcquire, CleanCheck, CleanDelSession, CleanDelIp, CleanClear,
         CleanRelease
<1>2. UNCHANGED tableVars \/ ClearSession(host[Of(c)], Of(c))
  BY DEF CleanStep, CleanAcquire, CleanCheck, CleanDelSession, CleanDelIp, CleanClear,
         CleanRelease
<1>3. /\ \A w \in Server : sessions'[w] \subseteq sessions[w]
      /\ \A w \in Server, u \in Uid : userMgr'[w][u] \in {userMgr[w][u], None}
  BY <1>2, ClearShrinks DEF tableVars
<1>. QED BY <1>1, <1>3, HostShrinks DEF netVars

LEMMA HostServer ==
    ASSUME TypeOK, HostInv, NEW v \in Server, ServerStep(v) PROVE HostInv'
<1>1. CASE Insert(v)
  <2>1. /\ UNCHANGED <<conn, host, userMgr, queue, logic>>
        /\ accepting[v] # None
        /\ \A w \in Server : accepting'[w] \in {accepting[w], None}
        /\ accepting'[v] = None
        /\ \A w \in Server : \A s \in sessions'[w] :
                s \in sessions[w] \/ (w = v /\ s = accepting[v])
    BY <1>1 DEF Insert, TypeOK
  <2>2. \A w \in Server, s \in Session : Knows(w, s) => Knows(w, s)'
    BY <2>1, NoneAssumption DEF Knows
  <2>3. HostAccept'
    BY <2>1 DEF HostInv, HostAccept
  <2>4. HostTables'
    <3>1. accepting[v] \in Session /\ host[accepting[v]] = v
      BY <2>1 DEF HostInv, HostAccept, TypeOK
    <3> DEFINE a == accepting[v]
    <3>2. host'[a] = v /\ a # accepting'[v]
      BY <2>1, <3>1, NoneAssumption
    <3>3. ASSUME NEW w \in Server, NEW s \in sessions'[w] PROVE Knows(w, s)'
      <4>1. CASE s \in sessions[w]
        BY <2>2, <4>1 DEF HostInv, HostTables, TypeOK
      <4>2. CASE w = v /\ s = a
        BY <3>2, <4>2 DEF Knows
      <4>. QED BY <2>1, <4>1, <4>2
    <3>4. \A w \in Server, u \in Uid : userMgr'[w][u] # None => Knows(w, userMgr[w][u])'
      BY <2>1, <2>2 DEF HostInv, HostTables, TypeOK
    <3>. QED BY <2>1, <3>3, <3>4 DEF HostTables
  <2>5. HostLogins'
    <3>1. \A w \in Server : \A m \in Range(queue[w]) : m.sess \in Session
      BY QueuedSessions
    <3>2. \A w \in Server : logic[w].pc # "idle" => logic[w].sess \in Session
      BY BusyType
    <3>. QED BY <2>1, <2>2, <3>1, <3>2 DEF HostInv, HostLogins
  <2>. QED BY <2>3, <2>4, <2>5 DEF HostInv
<1>2. ASSUME NEW E \in SUBSET sessions[v], TimerScan(v, E) PROVE HostInv'
  <2>1. UNCHANGED <<host, accepting, tableVars, queue, logic>>
    BY <1>2 DEF TimerScan
  <2>2. \A t \in Session : conn'[t] = "fresh" => conn[t] = "fresh"
    BY <1>2 DEF TimerScan, TypeOK
  <2>. QED BY <2>1, <2>2, HostShrinks DEF tableVars
<1>3. CASE Crash(v)
  <2>1. /\ host' = host
        /\ \A t \in Session : conn'[t] = "fresh" => conn[t] = "fresh"
        /\ \A w \in Server : accepting'[w] \in {accepting[w], None}
        /\ \A w \in Server : sessions'[w] \subseteq sessions[w]
        /\ \A w \in Server, u \in Uid : userMgr'[w][u] \in {userMgr[w][u], None}
        /\ \A w \in Server : queue'[w] \in {queue[w], <<>>}
        /\ \A w \in Server : logic'[w] = logic[w] \/ logic'[w].pc = "idle"
    BY <1>3 DEF Crash, TypeOK, IdleLogic
  <2>2. \A w \in Server, s \in Session : Knows(w, s) => Knows(w, s)'
    BY <2>1, NoneAssumption DEF Knows
  <2>3. HostAccept'
    BY <2>1 DEF HostInv, HostAccept
  <2>4. HostTables'
    BY <2>1, <2>2 DEF HostInv, HostTables, TypeOK
  <2>5. HostLogins'
    <3>1. \A w \in Server : \A m \in Range(queue[w]) : m.sess \in Session
      BY QueuedSessions
    <3>2. \A w \in Server : logic[w].pc # "idle" => logic[w].sess \in Session
      BY BusyType
    <3>3. \A w \in Server : Range(queue'[w]) \subseteq Range(queue[w])
      BY <2>1, RangeEmpty
    <3>. QED BY <2>1, <2>2, <3>1, <3>2, <3>3 DEF HostInv, HostLogins
  <2>. QED BY <2>3, <2>4, <2>5 DEF HostInv
<1>. QED BY <1>1, <1>2, <1>3 DEF ServerStep

LEMMA HostStep == TypeOK /\ HostInv /\ [Next]_vars => HostInv'
<1> SUFFICES ASSUME TypeOK, HostInv, [Next]_vars PROVE HostInv'
  OBVIOUS
<1>1. ASSUME NEW k \in kicks, KickStep(k) PROVE HostInv'
  <2>1. UNCHANGED <<netVars, queue, logic>>
    BY <1>1 DEF KickStep, KickLookup, KickClear, KickLost
  <2>2. UNCHANGED tableVars \/ ClearSession(k.to, k.sess)
    BY <1>1 DEF KickStep, KickLookup, KickClear, KickLost
  <2>3. /\ \A w \in Server : sessions'[w] \subseteq sessions[w]
        /\ \A w \in Server, u \in Uid : userMgr'[w][u] \in {userMgr[w][u], None}
    BY <2>2, ClearShrinks DEF tableVars
  <2>. QED BY <2>1, <2>3, HostShrinks DEF netVars
<1>2. CASE \/ \E u \in UidKey : ExpireLock(u)
           \/ \E u \in Uid : ExpireRegistration(u)
           \/ UNCHANGED vars
  <2>1. UNCHANGED <<netVars, tableVars, queue, logic>>
    BY <1>2 DEF ExpireLock, ExpireRegistration, vars
  <2>. QED BY <2>1, HostShrinks DEF netVars, tableVars
<1>. QED BY <1>1, <1>2, HostLogin, HostConn, HostClean, HostServer DEF Next

-----------------------------------------------------------------------------
(* LockInv: a section runs under its user's lock.                           *)

LEMMA OwnerDistinct ==
    /\ \A v, w \in Server : Logic(v) = Logic(w) => v = w
    /\ \A v \in Server, c \in Cleaner : Logic(v) # c
    /\ \A v \in Server : Logic(v) # None
    /\ \A c \in Cleaner : c # None
BY NoneAssumption DEF Logic, Cleaner, Owner

LEMMA NoUnhandled ==
    ASSUME Faults \subseteq Handled
    PROVE  Faults \cap Unhandled = {}
BY DEF Handled, Unhandled

\* The failures that let two threads into the section of one user.
LocksHold == "lock_timeout" \notin Faults /\ "lock_expiry" \notin Faults

LEMMA HandledLocks == Faults \subseteq Handled => LocksHold
BY DEF LocksHold, Handled

\* At most one thread is in a section of a user.
LEMMA MutualExclusion ==
    ASSUME LockInv
    PROVE  /\ \A v, w \in Server :
                /\ logic[v].pc \in LogicSection /\ logic[w].pc \in LogicSection
                /\ logic[v].uid = logic[w].uid
                => v = w
           /\ \A v \in Server, c \in Cleaner :
                ~ /\ logic[v].pc \in LogicSection /\ clean[c].pc \in CleanSection
                  /\ logic[v].uid = clean[c].uid
           /\ \A c, d \in Cleaner :
                /\ clean[c].pc \in CleanSection /\ clean[d].pc \in CleanSection
                /\ clean[c].uid = clean[d].uid
                => c = d
BY OwnerDistinct DEF LockInv

\* Steps that touch no lock and bring no thread into a section.
LEMMA LockKept ==
    ASSUME LockInv, UNCHANGED lock,
           \A v \in Server : logic'[v].pc \in LogicSection =>
              /\ logic[v].pc \in LogicSection
              /\ logic'[v].uid = logic[v].uid /\ logic'[v].ident = logic[v].ident,
           \A c \in Cleaner : clean'[c].pc \in CleanSection =>
              /\ clean[c].pc \in CleanSection
              /\ clean'[c].uid = clean[c].uid /\ clean'[c].ident = clean[c].ident
    PROVE  LockInv'
BY DEF LockInv

LEMMA LockLogin ==
    ASSUME LocksHold, TypeOK, LockInv, NEW v \in Server, LoginStep(v)
    PROVE  LockInv'
<1>1. CASE LoginReject(v)
  BY <1>1, LockKept DEF LoginReject
<1>2. CASE LoginBegin(v)
  <2>1. /\ \A w \in Server : w # v => logic'[w] = logic[w]
        /\ logic'[v].pc = "acquire"
    BY <1>2 DEF LoginBegin, TypeOK
  <2>. QED BY <1>2, <2>1, LockKept DEF LoginBegin, LogicSection
<1>3. CASE LoginAcquire(v)
  <2>1. logic[v] \in BusyLogic /\ logic[v].uid \in UidKey
    BY <1>3, BusyType DEF LoginAcquire
  <2>2. /\ lock[logic[v].uid] = None
        /\ lock' = [lock EXCEPT ![logic[v].uid] = Logic(v)]
        /\ logic' = [logic EXCEPT ![v] = [@ EXCEPT !.ident = Logic(v), !.pc = "check"]]
        /\ UNCHANGED clean
    BY <1>3, OwnerDistinct DEF LoginAcquire, AcquireLock, LocksHold
  <2>3. /\ \A w \in Server : w # v => logic'[w] = logic[w]
        /\ logic'[v].uid = logic[v].uid /\ logic'[v].ident = Logic(v)
    BY <2>1, <2>2 DEF TypeOK, BusyLogic
  <2>4. \A u : u # logic[v].uid => lock'[u] = lock[u]
    BY <2>2 DEF TypeOK
  <2>5. lock'[logic[v].uid] = Logic(v)
    BY <2>1, <2>2 DEF TypeOK
  <2>. QED BY <2>2, <2>3, <2>4, <2>5, OwnerDistinct DEF LockInv
<1>4. CASE LoginLookupOld(v)
  <2>1. logic[v] \in BusyLogic /\ logic[v].pc \in LogicSection
    BY <1>4, BusyType DEF LoginLookupOld, LogicSection
  <2> DEFINE s == userMgr[v][logic[v].uid]
             n == [logic[v] EXCEPT !.old = s,
                                   !.pc = IF s = None THEN "setip" ELSE "clear"]
  <2>2. n.uid = logic[v].uid /\ n.ident = logic[v].ident
    BY <2>1 DEF BusyLogic
  <2>4. logic' = [logic EXCEPT ![v] = n]
    BY <1>4 DEF LoginLookupOld
  <2> HIDE DEF n
  <2>3. UNCHANGED <<lock, clean>>
    BY <1>4 DEF LoginLookupOld
  <2>. QED BY <2>1, <2>2, <2>3, <2>4, LockKept DEF TypeOK
<1>5. CASE \/ LoginCheck(v) \/ LoginClearOld(v) \/ LoginKicked(v) \/ LoginSetIp(v)
           \/ LoginSetSession(v) \/ LoginBind(v)
  <2>1. /\ logic[v].pc \in LogicSection /\ logic[v].pc # "idle"
        /\ \E pc \in LogicSection : LogicGoto(v, pc)
        /\ UNCHANGED <<lock, clean>>
    BY <1>5 DEF LoginCheck, LoginClearOld, LoginKicked, LoginSetIp, LoginSetSession,
                LoginBind, LogicSection
  <2>. QED BY <2>1, LogicGotoType, LockKept
<1>6. CASE LoginRelease(v)
  <2>1. logic[v].pc \in LogicSection /\ logic[v].pc # "idle"
    BY <1>6 DEF LoginRelease, LogicSection
  <2>2. /\ logic' = [logic EXCEPT ![v] = IdleLogic]
        /\ lock' = [lock EXCEPT ![logic[v].uid] = None]
        /\ UNCHANGED clean
    BY <1>6, <2>1 DEF LoginRelease, ReleaseLock, LockInv
  <2>3. /\ \A w \in Server : w # v => logic'[w] = logic[w]
        /\ logic'[v].pc \notin LogicSection
        /\ \A u : u # logic[v].uid => lock'[u] = lock[u]
    BY <2>2 DEF TypeOK, IdleLogic, LogicSection
  <2>. QED BY <2>1, <2>2, <2>3, MutualExclusion DEF LockInv
<1>. QED BY <1>1, <1>2, <1>3, <1>4, <1>5, <1>6 DEF LoginStep

LEMMA LockClean ==
    ASSUME LocksHold, TypeOK, LockInv, NEW c \in Cleaner, CleanStep(c)
    PROVE  LockInv'
<1>1. CASE CleanAcquire(c)
  <2>1. clean[c] \in CleanState /\ clean[c].uid \in UidKey
    BY CleanType
  <2>2. /\ lock[clean[c].uid] = None
        /\ lock' = [lock EXCEPT ![clean[c].uid] = c]
        /\ clean' = [clean EXCEPT ![c] = [@ EXCEPT !.ident = c, !.pc = "check"]]
        /\ UNCHANGED logic
    BY <1>1, OwnerDistinct DEF CleanAcquire, AcquireLock, LocksHold
  <2>3. /\ \A d \in Cleaner : d # c => clean'[d] = clean[d]
        /\ clean'[c].uid = clean[c].uid /\ clean'[c].ident = c
    BY <2>1, <2>2 DEF TypeOK, CleanState
  <2>4. \A u : u # clean[c].uid => lock'[u] = lock[u]
    BY <2>2 DEF TypeOK
  <2>5. lock'[clean[c].uid] = c
    BY <2>1, <2>2 DEF TypeOK
  <2>. QED BY <2>2, <2>3, <2>4, <2>5, OwnerDistinct DEF LockInv
<1>2. CASE \/ CleanCheck(c) \/ CleanDelSession(c) \/ CleanDelIp(c) \/ CleanClear(c)
  <2>1. /\ clean[c].pc \in CleanSection
        /\ \E pc \in CleanSection : CleanGoto(c, pc)
        /\ UNCHANGED <<lock, logic>>
    BY <1>2 DEF CleanCheck, CleanDelSession, CleanDelIp, CleanClear, CleanSection
  <2>. QED BY <2>1, CleanGotoType, LockKept
<1>3. CASE CleanRelease(c)
  <2>1. clean[c].pc \in CleanSection
    BY <1>3 DEF CleanRelease, CleanSection
  <2>2. /\ clean' = [clean EXCEPT ![c] = IdleClean]
        /\ lock' = [lock EXCEPT ![clean[c].uid] = None]
        /\ UNCHANGED logic
    BY <1>3, <2>1 DEF CleanRelease, ReleaseLock, LockInv
  <2>3. /\ \A d \in Cleaner : d # c => clean'[d] = clean[d]
        /\ clean'[c].pc \notin CleanSection
        /\ \A u : u # clean[c].uid => lock'[u] = lock[u]
    BY <2>2 DEF TypeOK, IdleClean, CleanSection
  <2>. QED BY <2>1, <2>2, <2>3, MutualExclusion DEF LockInv
<1>. QED BY <1>1, <1>2, <1>3 DEF CleanStep

LEMMA LockStep ==
    ASSUME LocksHold, TypeOK, LockInv, [Next]_vars
    PROVE  LockInv'
<1>1. ASSUME NEW s \in Session, ConnStep(s) PROVE LockInv'
  <2>1. UNCHANGED <<lock, logic>>
    BY <1>1 DEF ConnStep, Accept, TimerCleanup, RecvLogin, ReadError, WriteError, BadFrame
  <2>2. UNCHANGED clean \/ \E c \in Cleaner : StartCleanup(c)
    BY <1>1, OwnerTypes DEF ConnStep, Accept, TimerCleanup, RecvLogin, ReadError, WriteError,
                            BadFrame
  <2>. QED BY <2>1, <2>2, StartCleanupType, LockKept DEF CleanSection
<1>2. ASSUME NEW v \in Server, ServerStep(v) PROVE LockInv'
  <2>1. CASE Insert(v) \/ \E E \in SUBSET sessions[v] : TimerScan(v, E)
    BY <2>1, LockKept DEF Insert, TimerScan
  <2>2. CASE Crash(v)
    <3>1. /\ UNCHANGED lock
          /\ \A w \in Server : logic'[w] = logic[w] \/ logic'[w].pc \notin LogicSection
          /\ \A c \in Cleaner : clean'[c] = clean[c] \/ clean'[c].pc \notin CleanSection
      BY <2>2 DEF Crash, TypeOK, IdleLogic, IdleClean, LogicSection, CleanSection
    <3>. QED BY <3>1, LockKept
  <2>. QED BY <1>2, <2>1, <2>2 DEF ServerStep
<1>3. ASSUME NEW k \in kicks, KickStep(k) PROVE LockInv'
  BY <1>3, LockKept DEF KickStep, KickLookup, KickClear, KickLost
<1>4. ASSUME NEW u \in UidKey, ExpireLock(u) PROVE LockInv'
  <2>1. /\ Abandoned(u) /\ lock' = [lock EXCEPT ![u] = None]
        /\ UNCHANGED <<logic, clean>>
    BY <1>4 DEF ExpireLock, LocksHold
  <2>2. \A w : w # u => lock'[w] = lock[w]
    BY <2>1 DEF TypeOK
  <2>. QED BY <2>1, <2>2 DEF LockInv, Abandoned, InLogicSection, InCleanSection
<1>5. CASE UNCHANGED vars \/ \E u \in Uid : ExpireRegistration(u)
  BY <1>5, LockKept DEF vars, ExpireRegistration
<1>. QED BY <1>1, <1>2, <1>3, <1>4, <1>5, LockLogin, LockClean DEF Next

LEMMA LockInit == Init => LockInv
BY DEF Init, LockInv, IdleLogic, IdleClean, LogicSection, CleanSection

\* Whoever is between acquireLock and releaseLock of a user, a login or a cleanup, is
\* there alone and holds the key, crashes included, as long as neither ACQUIRE_TIME_OUT
\* nor LOCK_TIME_OUT passes on a living holder.
THEOREM SectionsLocked == LocksHold => (Spec => []LockInv)
<1> SUFFICES ASSUME LocksHold PROVE Spec => []LockInv
  OBVIOUS
<1>1. TypeOK /\ LockInv /\ [Next]_vars => LockInv'
  BY LockStep
<1>. QED BY <1>1, TypeInit, TypeStep, LockInit, PTL DEF Spec

-----------------------------------------------------------------------------
(* The two keys of a registration name the same login.                      *)

Setting(v, u) == logic[v].pc = "setsess" /\ logic[v].uid = u

\* The keys differ only while a login writes them, and nobody else writes then.
AgreeInv ==
    /\ \A u \in Uid : uip[u] # None /\ usession[u] # None =>
         host[usession[u]] = uip[u] \/ \E v \in Server : Setting(v, u)
    /\ \A v \in Server : \A u \in Uid : Setting(v, u) => uip[u] \in {v, None}

\* Steps that write no registration and bring no login to or from its two writes.
LEMMA AgreeKept ==
    ASSUME TypeOK, AgreeInv,
           \A u \in Uid : uip'[u] \in {uip[u], None} /\ usession'[u] \in {usession[u], None},
           \A s \in Session : host[s] # None => host'[s] = host[s],
           \A v \in Server : \A u \in Uid : Setting(v, u)' <=> Setting(v, u)
    PROVE  AgreeInv'
<1>1. ASSUME NEW u \in Uid, uip'[u] # None, usession'[u] # None
      PROVE  host'[usession'[u]] = uip'[u] \/ \E v \in Server : Setting(v, u)'
  <2>1. uip'[u] = uip[u] /\ usession'[u] = usession[u] /\ usession[u] \in Session
    BY <1>1 DEF TypeOK, UidKey
  <2>. QED BY <1>1, <2>1 DEF AgreeInv
<1>2. ASSUME NEW v \in Server, NEW u \in Uid, Setting(v, u)' PROVE uip'[u] \in {v, None}
  BY <1>2 DEF AgreeInv
<1>. QED BY <1>1, <1>2 DEF AgreeInv, Setting

LEMMA AgreeLogin ==
    ASSUME TypeOK, HostInv, LockInv, AgreeInv, NEW v \in Server, LoginStep(v)
    PROVE  AgreeInv'
<1>0. \A w \in Server : w # v => logic'[w] = logic[w]
  BY LoginThread
<1>1. UNCHANGED host
  BY DEF LoginStep, LoginReject, LoginBegin, LoginAcquire, LoginCheck, LoginLookupOld,
         LoginClearOld, LoginKicked, LoginSetIp, LoginSetSession, LoginBind, LoginRelease, netVars
<1>2. ASSUME UNCHANGED regVars, logic[v].pc # "setsess", logic'[v].pc # "setsess"
      PROVE  AgreeInv'
  <2>1. \A w \in Server : \A u \in Uid : Setting(w, u)' <=> Setting(w, u)
    BY <1>0, <1>2 DEF Setting
  <2>. QED BY <1>1, <1>2, <2>1, AgreeKept DEF regVars
<1>3. CASE LoginReject(v) \/ LoginBegin(v) \/ LoginAcquire(v) \/ LoginRelease(v)
  <2>1. UNCHANGED regVars /\ logic[v].pc # "setsess" /\ logic'[v].pc # "setsess"
    <3>1. CASE LoginReject(v)
      BY <3>1 DEF LoginReject
    <3>2. CASE LoginBegin(v) \/ LoginRelease(v)
      BY <3>2 DEF LoginBegin, LoginRelease, TypeOK, IdleLogic
    <3>3. CASE LoginAcquire(v)
      <4>1. logic[v] \in BusyLogic
        BY <3>3, BusyType DEF LoginAcquire
      <4>. QED BY <3>3, <4>1 DEF LoginAcquire, TypeOK, BusyLogic
    <3>. QED BY <1>3, <3>1, <3>2, <3>3
  <2>. QED BY <1>2, <2>1
<1>4. CASE LoginLookupOld(v)
  <2> DEFINE n == [logic[v] EXCEPT !.old = userMgr[v][logic[v].uid],
                                   !.pc = IF userMgr[v][logic[v].uid] = None THEN "setip" ELSE "clear"]
  <2>1. logic[v] \in BusyLogic /\ UNCHANGED regVars /\ logic[v].pc = "lookup"
    BY <1>4, BusyType DEF LoginLookupOld
  <2>2. n.pc # "setsess"
    BY <2>1 DEF BusyLogic
  <2>3. logic' = [logic EXCEPT ![v] = n]
    BY <1>4 DEF LoginLookupOld
  <2>. HIDE DEF n
  <2>4. logic'[v].pc # "setsess"
    BY <2>2, <2>3 DEF TypeOK
  <2>. QED BY <1>2, <2>1, <2>4
<1>5. CASE LoginCheck(v) \/ LoginClearOld(v) \/ LoginKicked(v) \/ LoginBind(v)
  <2>1. /\ UNCHANGED regVars /\ logic[v].pc \notin {"idle", "setsess"}
        /\ \E pc \in LogicSection \ {"setsess"} : LogicGoto(v, pc)
    BY <1>5 DEF LoginCheck, LoginClearOld, LoginKicked, LoginBind, LogicSection
  <2>2. logic'[v].pc # "setsess"
    BY <2>1, LogicGotoType
  <2>. QED BY <1>2, <2>1, <2>2
<1>6. CASE LoginSetIp(v)
  <2> DEFINE x == logic[v].uid
  <2>1. x \in Uid /\ logic[v].pc = "setip"
    BY <1>6, BusyType DEF LoginSetIp
  <2>2. logic'[v].pc = "setsess" /\ logic'[v].uid = x
    BY <1>6, LogicGotoType DEF LoginSetIp, LogicSection
  <2>3. /\ uip'[x] = v /\ \A u \in Uid : u # x => uip'[u] = uip[u]
        /\ UNCHANGED usession
    BY <1>6, <2>1 DEF LoginSetIp, TypeOK, UidKey
  <2>4. \A w \in Server : w # v => ~Setting(w, x)
    BY <2>1, MutualExclusion DEF Setting, LogicSection
  <2>5. /\ \A w \in Server : \A u \in Uid : Setting(w, u)' <=> Setting(w, u) \/ (w = v /\ u = x)
    BY <1>0, <2>1, <2>2 DEF Setting
  <2>. HIDE DEF x
  <2>6. ASSUME NEW u \in Uid, uip'[u] # None, usession'[u] # None
        PROVE  host'[usession'[u]] = uip'[u] \/ \E w \in Server : Setting(w, u)'
    BY <1>1, <2>3, <2>5, <2>6 DEF AgreeInv
  <2>7. ASSUME NEW w \in Server, NEW u \in Uid, Setting(w, u)' PROVE uip'[u] \in {w, None}
    BY <2>3, <2>4, <2>5, <2>7 DEF AgreeInv
  <2>. QED BY <2>6, <2>7 DEF AgreeInv, Setting
<1>7. CASE LoginSetSession(v)
  <2> DEFINE x == logic[v].uid
  <2>1. x \in Uid /\ logic[v].pc = "setsess" /\ logic[v].sess \in Session
    BY <1>7, BusyType DEF LoginSetSession
  <2>2. logic'[v].pc = "bind"
    BY <1>7, LogicGotoType DEF LoginSetSession, LogicSection
  <2>3. /\ usession'[x] = logic[v].sess /\ \A u \in Uid : u # x => usession'[u] = usession[u]
        /\ UNCHANGED uip
    BY <1>7, <2>1 DEF LoginSetSession, TypeOK, UidKey
  <2>4. host[logic[v].sess] = v /\ uip[x] \in {v, None}
    BY <2>1 DEF HostInv, HostLogins, Knows, AgreeInv, Setting
  <2>5. \A w \in Server : \A u \in Uid : Setting(w, u)' <=> Setting(w, u) /\ w # v
    BY <1>0, <2>2 DEF Setting
  <2>8. \A u \in Uid : Setting(v, u) => u = x
    BY DEF Setting
  <2>. HIDE DEF x
  <2>6. ASSUME NEW u \in Uid, uip'[u] # None, usession'[u] # None
        PROVE  host'[usession'[u]] = uip'[u] \/ \E w \in Server : Setting(w, u)'
    <3>1. CASE u = x
      BY <1>1, <2>3, <2>4, <2>6, <3>1
    <3>2. CASE u # x
      BY <1>1, <2>3, <2>5, <2>6, <2>8, <3>2 DEF AgreeInv
    <3>. QED BY <3>1, <3>2
  <2>7. ASSUME NEW w \in Server, NEW u \in Uid, Setting(w, u)' PROVE uip'[u] \in {w, None}
    BY <2>3, <2>5, <2>7 DEF AgreeInv
  <2>. QED BY <2>6, <2>7 DEF AgreeInv, Setting
<1>. QED BY <1>3, <1>4, <1>5, <1>6, <1>7 DEF LoginStep

LEMMA AgreeStep ==
    ASSUME "crash" \notin Faults, TypeOK, HostInv, LockInv, AgreeInv, [Next]_vars
    PROVE  AgreeInv'
<1>0. ASSUME UNCHANGED logic PROVE \A v \in Server : \A u \in Uid : Setting(v, u)' <=> Setting(v, u)
  BY <1>0 DEF Setting
<1>1. ASSUME NEW s \in Session, ConnStep(s) PROVE AgreeInv'
  <2>1. UNCHANGED <<regVars, logic>>
    BY <1>1 DEF ConnStep, Accept, TimerCleanup, RecvLogin, ReadError, WriteError, BadFrame
  <2>2. \A t \in Session : host[t] # None => host'[t] = host[t]
    <3>1. ASSUME NEW v \in Server, Accept(v, s) PROVE \A t \in Session : host[t] # None => host'[t] = host[t]
      BY <3>1 DEF Accept, HostInv, HostAccept, TypeOK
    <3>2. UNCHANGED host \/ \E v \in Server : Accept(v, s)
      BY <1>1 DEF ConnStep, TimerCleanup, RecvLogin, ReadError, WriteError, BadFrame, netVars
    <3>. QED BY <3>1, <3>2
  <2>. QED BY <1>0, <2>1, <2>2, AgreeKept DEF regVars
<1>2. ASSUME NEW v \in Server, ServerStep(v) PROVE AgreeInv'
  <2>1. UNCHANGED <<regVars, logic, host>>
    BY <1>2 DEF ServerStep, Insert, TimerScan, Crash
  <2>. QED BY <1>0, <2>1, AgreeKept DEF regVars
<1>3. ASSUME NEW k \in kicks, KickStep(k) PROVE AgreeInv'
  <2>1. UNCHANGED <<regVars, logic, host>>
    BY <1>3 DEF KickStep, KickLookup, KickClear, KickLost, netVars
  <2>. QED BY <1>0, <2>1, AgreeKept DEF regVars
<1>4. ASSUME NEW c \in Cleaner, CleanStep(c) PROVE AgreeInv'
  <2>1. UNCHANGED <<logic, host>>
    BY <1>4 DEF CleanStep, CleanAcquire, CleanCheck, CleanDelSession, CleanDelIp, CleanClear,
           CleanRelease, netVars
  <2>2. \A u \in Uid : uip'[u] \in {uip[u], None} /\ usession'[u] \in {usession[u], None}
    BY <1>4 DEF CleanStep, CleanAcquire, CleanCheck, CleanDelSession, CleanDelIp, CleanClear,
           CleanRelease, regVars, TypeOK, UidKey
  <2>. QED BY <1>0, <2>1, <2>2, AgreeKept
<1>5. ASSUME NEW u \in UidKey, ExpireLock(u) PROVE AgreeInv'
  <2>1. UNCHANGED <<regVars, logic, host>>
    BY <1>5 DEF ExpireLock, netVars
  <2>. QED BY <1>0, <2>1, AgreeKept DEF regVars
<1>6. ASSUME NEW u \in Uid, ExpireRegistration(u) PROVE AgreeInv'
  <2>1. UNCHANGED <<logic, host>>
    BY <1>6 DEF ExpireRegistration, netVars
  <2>2. \A x \in Uid : uip'[x] \in {uip[x], None} /\ usession'[x] \in {usession[x], None}
    BY <1>6 DEF ExpireRegistration, TypeOK, UidKey
  <2>. QED BY <1>0, <2>1, <2>2, AgreeKept
<1>7. CASE UNCHANGED vars
  <2>1. UNCHANGED <<regVars, logic, host>>
    BY <1>7 DEF vars, netVars
  <2>. QED BY <1>0, <2>1, AgreeKept DEF regVars
<1>. QED BY <1>1, <1>2, <1>3, <1>4, <1>5, <1>6, <1>7, AgreeLogin DEF Next

\* usession_<uid> is a session of the server in uip_<uid> whenever the user's lock is
\* free: LoginHandler writes the two keys one after the other, DealExceptionSession
\* deletes them, and the lock keeps the others out.  Kicks may be lost and registrations
\* lapse; a crash between the two writes is what it does not survive.
THEOREM RegistrationAgreesCorrect ==
    LocksHold /\ "crash" \notin Faults => (Spec => []RegistrationAgrees)
<1> SUFFICES ASSUME LocksHold, "crash" \notin Faults PROVE Spec => []RegistrationAgrees
  OBVIOUS
<1>1. TypeOK /\ LockInv /\ [Next]_vars => LockInv'
  BY LockStep
<1>2. TypeOK /\ HostInv /\ LockInv /\ AgreeInv /\ [Next]_vars => AgreeInv'
  BY AgreeStep
<1>3. Init => AgreeInv
  BY DEF Init, AgreeInv, Setting, IdleLogic, UidKey
<1>4. LockInv /\ AgreeInv => RegistrationAgrees
  BY OwnerDistinct DEF LockInv, AgreeInv, Setting, LogicSection, RegistrationAgrees
<1>. QED BY <1>1, <1>2, <1>3, <1>4, TypeInit, TypeStep, HostInit, HostStep, LockInit, PTL DEF Spec

-----------------------------------------------------------------------------
(* A lock is given back on every way out of a section.                      *)

\* The sessions that the timer collected are the server's own.
ExpiredHost == \A v \in Server : \A s \in expired[v] : host[s] = v

\* Whoever's identifier is in a lock is still in the section and will release it.
LockHeld == \A u \in UidKey : lock[u] # None => ~Abandoned(u)

LEMMA HostStays ==
    ASSUME TypeOK, HostInv, [Next]_vars
    PROVE  \A s \in Session : host[s] # None => host'[s] = host[s]
<1>1. ASSUME NEW s \in Session, NEW v \in Server, Accept(v, s)
      PROVE  \A t \in Session : host[t] # None => host'[t] = host[t]
  BY <1>1 DEF Accept, HostInv, HostAccept, TypeOK
<1>2. ASSUME NEW s \in Session, ConnStep(s), \A v \in Server : ~Accept(v, s) PROVE UNCHANGED host
  BY <1>2 DEF ConnStep, TimerCleanup, RecvLogin, ReadError, WriteError, BadFrame, netVars
<1>3. ASSUME NEW v \in Server, LoginStep(v) \/ ServerStep(v) PROVE UNCHANGED host
  BY <1>3 DEF LoginStep, LoginReject, LoginBegin, LoginAcquire, LoginCheck, LoginLookupOld,
         LoginClearOld, LoginKicked, LoginSetIp, LoginSetSession, LoginBind, LoginRelease,
         ServerStep, Insert, TimerScan, Crash, netVars
<1>4. ASSUME NEW c \in Cleaner, CleanStep(c) PROVE UNCHANGED host
  BY <1>4 DEF CleanStep, CleanAcquire, CleanCheck, CleanDelSession, CleanDelIp, CleanClear,
         CleanRelease, netVars
<1>5. ASSUME NEW k \in kicks, KickStep(k) PROVE UNCHANGED host
  BY <1>5 DEF KickStep, KickLookup, KickClear, KickLost, netVars
<1>6. ASSUME NEW u, ExpireLock(u) \/ ExpireRegistration(u) PROVE UNCHANGED host
  BY <1>6 DEF ExpireLock, ExpireRegistration, netVars
<1>7. CASE UNCHANGED vars
  BY <1>7 DEF vars, netVars
<1>. QED BY <1>1, <1>2, <1>3, <1>4, <1>5, <1>6, <1>7 DEF Next

LEMMA ExpiredStep ==
    ASSUME TypeOK, HostInv, ExpiredHost, [Next]_vars PROVE ExpiredHost'
<1>0. \A s \in Session : host[s] # None => host'[s] = host[s]
  BY HostStays
<1>1. ASSUME \A v \in Server : expired'[v] \subseteq expired[v] PROVE ExpiredHost'
  <2>1. \A v \in Server : \A s \in expired[v] : s \in Session /\ host[s] = v /\ v # None
    BY NoneAssumption DEF ExpiredHost, TypeOK
  <2>. QED BY <1>0, <1>1, <2>1 DEF ExpiredHost
<1>2. ASSUME NEW v \in Server, NEW E \in SUBSET sessions[v], TimerScan(v, E) PROVE ExpiredHost'
  <2>1. \A w \in Server : w # v => expired'[w] = expired[w]
    BY <1>2 DEF TimerScan, TypeOK
  <2>2. expired'[v] = E /\ \A s \in E : host[s] = v
    BY <1>2 DEF TimerScan, TypeOK, HostInv, HostTables, Knows
  <2>3. UNCHANGED host
    BY <1>2 DEF TimerScan
  <2>. QED BY <2>1, <2>2, <2>3 DEF ExpiredHost
<1>3. ASSUME NEW s \in Session, ConnStep(s) PROVE \A v \in Server : expired'[v] \subseteq expired[v]
  BY <1>3 DEF ConnStep, Accept, TimerCleanup, RecvLogin, ReadError, WriteError, BadFrame, TypeOK
<1>4. ASSUME NEW v \in Server, LoginStep(v) \/ Insert(v) \/ Crash(v)
      PROVE  \A w \in Server : expired'[w] \subseteq expired[w]
  BY <1>4 DEF LoginStep, LoginReject, LoginBegin, LoginAcquire, LoginCheck, LoginLookupOld,
         LoginClearOld, LoginKicked, LoginSetIp, LoginSetSession, LoginBind, LoginRelease,
         Insert, Crash, TypeOK
<1>5. ASSUME NEW c \in Cleaner, CleanStep(c) PROVE UNCHANGED expired
  BY <1>5 DEF CleanStep, CleanAcquire, CleanCheck, CleanDelSession, CleanDelIp, CleanClear,
         CleanRelease
<1>6. ASSUME NEW k \in kicks, KickStep(k) PROVE UNCHANGED expired
  BY <1>6 DEF KickStep, KickLookup, KickClear, KickLost
<1>7. ASSUME NEW u, ExpireLock(u) \/ ExpireRegistration(u) PROVE UNCHANGED expired
  BY <1>7 DEF ExpireLock, ExpireRegistration
<1>8. CASE UNCHANGED vars
  BY <1>1, <1>8 DEF vars
<1>. QED BY <1>1, <1>2, <1>3, <1>4, <1>5, <1>6, <1>7, <1>8 DEF Next, ServerStep

\* Steps that set no lock, and take a thread out of its section only without its key.
LEMMA HeldKept ==
    ASSUME TypeOK, LockHeld,
           \A u \in UidKey : lock'[u] \in {lock[u], None},
           \A v \in Server : logic[v].pc \in LogicSection =>
              \/ /\ logic'[v].pc \in LogicSection
                 /\ logic'[v].uid = logic[v].uid /\ logic'[v].ident = logic[v].ident
              \/ logic[v].ident = None \/ lock'[logic[v].uid] # logic[v].ident,
           \A c \in Cleaner : clean[c].pc \in CleanSection =>
              \/ /\ clean'[c].pc \in CleanSection
                 /\ clean'[c].uid = clean[c].uid /\ clean'[c].ident = clean[c].ident
              \/ clean[c].ident = None \/ lock'[clean[c].uid] # clean[c].ident
    PROVE  LockHeld'
<1> SUFFICES ASSUME NEW u \in UidKey, lock'[u] # None
    PROVE  \/ \E v \in Server : /\ logic'[v].uid = u /\ logic'[v].pc \in LogicSection
                                /\ logic'[v].ident = lock'[u]
           \/ \E c \in Cleaner : /\ clean'[c].uid = u /\ clean'[c].pc \in CleanSection
                                 /\ clean'[c].ident = lock'[u]
  BY DEF LockHeld, Abandoned, InLogicSection, InCleanSection
<1>1. lock'[u] = lock[u]
  OBVIOUS
<1>2. \/ \E v \in Server : /\ logic[v].uid = u /\ logic[v].pc \in LogicSection
                           /\ logic[v].ident = lock[u]
      \/ \E c \in Cleaner : /\ clean[c].uid = u /\ clean[c].pc \in CleanSection
                            /\ clean[c].ident = lock[u]
  BY <1>1 DEF LockHeld, Abandoned, InLogicSection, InCleanSection
<1>. QED BY <1>1, <1>2

\* A thread that gets lock u, or does without it, comes to the section of u.
LEMMA HeldAcquire ==
    ASSUME TypeOK, LockHeld, NEW p, NEW u \in UidKey, NEW ident, AcquireLock(p, u, ident),
           \A v \in Server : logic[v].pc \in LogicSection =>
              logic'[v].pc \in LogicSection /\ logic'[v].uid = logic[v].uid
                                            /\ logic'[v].ident = logic[v].ident,
           \A c \in Cleaner : clean[c].pc \in CleanSection =>
              clean'[c].pc \in CleanSection /\ clean'[c].uid = clean[c].uid
                                            /\ clean'[c].ident = clean[c].ident,
           \/ \E v \in Server : /\ logic'[v].uid = u /\ logic'[v].pc \in LogicSection
                                /\ logic'[v].ident = ident
           \/ \E c \in Cleaner : /\ clean'[c].uid = u /\ clean'[c].pc \in CleanSection
                                 /\ clean'[c].ident = ident
    PROVE  LockHeld'
<1>1. CASE UNCHANGED lock
  BY <1>1 DEF LockHeld, Abandoned, InLogicSection, InCleanSection
<1>2. CASE lock' = [lock EXCEPT ![u] = p] /\ ident = p
  <2>1. lock'[u] = ident /\ \A w \in UidKey : w # u => lock'[w] = lock[w]
    BY <1>2 DEF TypeOK
  <2>. QED BY <2>1 DEF LockHeld, Abandoned, InLogicSection, InCleanSection
<1>. QED BY <1>1, <1>2 DEF AcquireLock

LEMMA HeldLogin ==
    ASSUME TypeOK, LockHeld, NEW v \in Server, LoginStep(v) PROVE LockHeld'
<1>0. \A w \in Server : w # v => logic'[w] = logic[w]
  BY LoginThread
<1>1. CASE LoginReject(v)
  BY <1>1, HeldKept DEF LoginReject
<1>2. CASE LoginBegin(v)
  <2>1. logic[v].pc \notin LogicSection /\ UNCHANGED <<lock, clean>>
    BY <1>2 DEF LoginBegin, LogicSection
  <2>. QED BY <1>0, <2>1, HeldKept
<1>3. CASE LoginAcquire(v)
  <2>1. logic[v] \in BusyLogic /\ logic[v].uid \in UidKey
    BY <1>3, BusyType DEF LoginAcquire
  <2>2. PICK ident \in {Logic(v), None} :
          /\ AcquireLock(Logic(v), logic[v].uid, ident)
          /\ logic' = [logic EXCEPT ![v] = [@ EXCEPT !.ident = ident, !.pc = "check"]]
    BY <1>3 DEF LoginAcquire
  <2>3. /\ logic'[v].uid = logic[v].uid /\ logic'[v].ident = ident /\ logic'[v].pc = "check"
        /\ UNCHANGED clean /\ logic[v].pc \notin LogicSection
    BY <1>3, <2>1, <2>2 DEF LoginAcquire, TypeOK, BusyLogic, LogicSection
  <2>4. \E w \in Server : /\ logic'[w].uid = logic[v].uid /\ logic'[w].pc \in LogicSection
                          /\ logic'[w].ident = ident
    BY <2>3 DEF LogicSection
  <2>5. \A w \in Server : logic[w].pc \in LogicSection =>
          logic'[w].pc \in LogicSection /\ logic'[w].uid = logic[w].uid
                                        /\ logic'[w].ident = logic[w].ident
    BY <1>0, <2>3
  <2>6. PICK u \in UidKey : u = logic[v].uid
    BY <2>1
  <2>. QED BY <2>2, <2>3, <2>4, <2>5, <2>6, HeldAcquire
<1>4. CASE LoginLookupOld(v)
  <2>1. logic[v] \in BusyLogic /\ UNCHANGED <<lock, clean>>
    BY <1>4, BusyType DEF LoginLookupOld
  <2>2. /\ logic'[v].uid = logic[v].uid /\ logic'[v].ident = logic[v].ident
        /\ logic'[v].pc \in {"setip", "clear"}
    BY <1>4, <2>1 DEF LoginLookupOld, TypeOK, BusyLogic
  <2>3. logic'[v].pc \in LogicSection
    BY <2>2 DEF LogicSection
  <2>. QED BY <1>0, <2>1, <2>2, <2>3, HeldKept
<1>5. CASE \/ LoginCheck(v) \/ LoginClearOld(v) \/ LoginKicked(v) \/ LoginSetIp(v)
           \/ LoginSetSession(v) \/ LoginBind(v)
  <2>1. /\ logic[v].pc # "idle" /\ \E pc \in LogicSection : LogicGoto(v, pc)
        /\ UNCHANGED <<lock, clean>>
    BY <1>5 DEF LoginCheck, LoginClearOld, LoginKicked, LoginSetIp, LoginSetSession,
                LoginBind, LogicSection
  <2>. QED BY <2>1, LogicGotoType, HeldKept
<1>6. CASE LoginRelease(v)
  <2>1. logic[v] \in BusyLogic /\ logic[v].uid \in UidKey /\ UNCHANGED clean
    BY <1>6, BusyType DEF LoginRelease
  <2>2. lock' = IF lock[logic[v].uid] = logic[v].ident
                THEN [lock EXCEPT ![logic[v].uid] = None] ELSE lock
    BY <1>6 DEF LoginRelease, ReleaseLock
  <2>3. \A u \in UidKey : lock'[u] \in {lock[u], None}
    BY <2>2 DEF TypeOK
  <2>4. logic[v].ident = None \/ lock'[logic[v].uid] # logic[v].ident
    BY <2>1, <2>2 DEF TypeOK
  <2>. QED BY <1>0, <2>1, <2>3, <2>4, HeldKept
<1>. QED BY <1>1, <1>2, <1>3, <1>4, <1>5, <1>6 DEF LoginStep

LEMMA HeldClean ==
    ASSUME TypeOK, LockHeld, NEW c \in Cleaner, CleanStep(c) PROVE LockHeld'
<1>1. CASE CleanAcquire(c)
  <2>1. clean[c] \in CleanState /\ clean[c].uid \in UidKey
    BY CleanType
  <2>2. PICK ident \in {c, None} :
          /\ AcquireLock(c, clean[c].uid, ident)
          /\ clean' = [clean EXCEPT ![c] =
                [@ EXCEPT !.ident = ident, !.pc = IF ident = None THEN "clear" ELSE "check"]]
    BY <1>1 DEF CleanAcquire
  <2>3. /\ clean'[c].uid = clean[c].uid /\ clean'[c].ident = ident
        /\ clean'[c].pc \in {"clear", "check"}
        /\ \A d \in Cleaner : d # c => clean'[d] = clean[d]
    BY <2>1, <2>2 DEF TypeOK, CleanState
  <2>4. UNCHANGED logic /\ clean[c].pc \notin CleanSection
    BY <1>1 DEF CleanAcquire, CleanSection
  <2>5. clean'[c].pc \in CleanSection
    BY <2>3 DEF CleanSection
  <2>6. \E d \in Cleaner : /\ clean'[d].uid = clean[c].uid /\ clean'[d].pc \in CleanSection
                           /\ clean'[d].ident = ident
    BY <2>3, <2>5
  <2>7. \A d \in Cleaner : clean[d].pc \in CleanSection =>
          clean'[d].pc \in CleanSection /\ clean'[d].uid = clean[d].uid
                                        /\ clean'[d].ident = clean[d].ident
    BY <2>3, <2>4
  <2>8. PICK u \in UidKey : u = clean[c].uid
    BY <2>1
  <2>. QED BY <2>2, <2>4, <2>6, <2>7, <2>8, HeldAcquire
<1>2. CASE \/ CleanCheck(c) \/ CleanDelSession(c) \/ CleanDelIp(c) \/ CleanClear(c)
  <2>1. /\ \E pc \in CleanSection : CleanGoto(c, pc)
        /\ UNCHANGED <<lock, logic>>
    BY <1>2 DEF CleanCheck, CleanDelSession, CleanDelIp, CleanClear, CleanSection
  <2>. QED BY <2>1, CleanGotoType, HeldKept
<1>3. CASE CleanRelease(c)
  <2>1. clean[c].uid \in UidKey /\ UNCHANGED logic
    BY <1>3, CleanType DEF CleanRelease
  <2>2. lock' = IF lock[clean[c].uid] = clean[c].ident
                THEN [lock EXCEPT ![clean[c].uid] = None] ELSE lock
    BY <1>3 DEF CleanRelease, ReleaseLock
  <2>3. \A u \in UidKey : lock'[u] \in {lock[u], None}
    BY <2>2 DEF TypeOK
  <2>4. clean[c].ident = None \/ lock'[clean[c].uid] # clean[c].ident
    BY <2>1, <2>2 DEF TypeOK
  <2>5. \A d \in Cleaner : d # c => clean'[d] = clean[d]
    BY <1>3 DEF CleanRelease, TypeOK
  <2>. QED BY <2>1, <2>3, <2>4, <2>5, HeldKept
<1>. QED BY <1>1, <1>2, <1>3 DEF CleanStep

\* A connection's events start a cleanup only where none is under way.
LEMMA HeldConn ==
    ASSUME TypeOK, ExpiredHost, LockHeld, NEW s \in Session, ConnStep(s) PROVE LockHeld'
<1>1. UNCHANGED <<lock, logic>>
  BY DEF ConnStep, Accept, TimerCleanup, RecvLogin, ReadError, WriteError, BadFrame
<1>2. ASSUME NEW c \in Cleaner, StartCleanup(c), clean[c].pc = "idle" PROVE LockHeld'
  <2>1. \A d \in Cleaner : d # c => clean'[d] = clean[d]
    BY <1>2 DEF StartCleanup, TypeOK
  <2>2. clean[c].pc \notin CleanSection
    BY <1>2 DEF CleanSection
  <2>. QED BY <1>1, <2>1, <2>2, HeldKept
<1>3. CASE ReadError(s) \/ WriteError(s)
  BY <1>2, <1>3, OwnerTypes DEF ReadError, WriteError
<1>4. ASSUME NEW v \in Server, TimerCleanup(v, s) PROVE LockHeld'
  BY <1>2, <1>4, OwnerTypes DEF TimerCleanup, ExpiredHost
<1>5. CASE UNCHANGED clean
  BY <1>1, <1>5, HeldKept
<1>6. ASSUME NEW v \in Server, NEW u \in Uid, Accept(v, s) \/ RecvLogin(s, u) PROVE UNCHANGED clean
  BY <1>6 DEF Accept, RecvLogin
<1>7. BadFrame(s) => UNCHANGED clean
  BY DEF BadFrame
<1>. QED BY <1>3, <1>4, <1>5, <1>6, <1>7 DEF ConnStep, Accept, RecvLogin

LEMMA HeldStep ==
    ASSUME "crash" \notin Faults, TypeOK, HostInv, ExpiredHost, LockHeld, [Next]_vars
    PROVE  LockHeld'
<1>1. ASSUME UNCHANGED <<lock, logic, clean>> PROVE LockHeld'
  BY <1>1, HeldKept
<1>2. ASSUME NEW v \in Server, ServerStep(v) PROVE LockHeld'
  BY <1>1, <1>2 DEF ServerStep, Insert, TimerScan, Crash
<1>3. ASSUME NEW k \in kicks, KickStep(k) PROVE LockHeld'
  BY <1>1, <1>3 DEF KickStep, KickLookup, KickClear, KickLost
<1>4. ASSUME NEW u \in UidKey, ExpireLock(u) PROVE LockHeld'
  <2>1. \A w \in UidKey : lock'[w] \in {lock[w], None}
    BY <1>4 DEF ExpireLock, TypeOK
  <2>2. UNCHANGED <<logic, clean>>
    BY <1>4 DEF ExpireLock
  <2>. QED BY <2>1, <2>2, HeldKept
<1>5. CASE UNCHANGED vars \/ \E u \in Uid : ExpireRegistration(u)
  BY <1>1, <1>5 DEF vars, ExpireRegistration
<1>. QED BY <1>2, <1>3, <1>4, <1>5, HeldLogin, HeldClean, HeldConn DEF Next

\* LoginHandler and DealExceptionSession give a lock back on every way out, timeouts,
\* errors and TTLs that end too early included: a key in Redis belongs to a section that
\* is still to release it, so only a crash leaves one to its TTL.
THEOREM LocksReturned == "crash" \notin Faults => (Spec => []LockHeld)
<1> SUFFICES ASSUME "crash" \notin Faults PROVE Spec => []LockHeld
  OBVIOUS
<1>1. TypeOK /\ HostInv /\ ExpiredHost /\ [Next]_vars => ExpiredHost'
  BY ExpiredStep
<1>2. TypeOK /\ HostInv /\ ExpiredHost /\ LockHeld /\ [Next]_vars => LockHeld'
  BY HeldStep
<1>3. Init => ExpiredHost /\ LockHeld
  BY DEF Init, ExpiredHost, LockHeld
<1>. QED BY <1>1, <1>2, <1>3, TypeInit, TypeStep, HostInit, HostStep, PTL DEF Spec
=============================================================================
