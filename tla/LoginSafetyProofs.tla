------------------------- MODULE LoginSafetyProofs -------------------------
(***************************************************************************)
(* At most one live login per user, for every set of servers, sessions and *)
(* users, when only the failures in Handled happen.                        *)
(***************************************************************************)
EXTENDS LoginSessionProofs

-----------------------------------------------------------------------------
(* CleanInv: what a cleanup found out stays true until it acts on it.       *)

\* Steps that write no session id to Redis and let no cleanup decide.
LEMMA CleanKept ==
    ASSUME TypeOK, CleanInv,
           \A t \in Session : conn[t] = "closed" => conn'[t] = "closed" /\ host'[t] = host[t],
           \A w \in Server : \A t \in expired'[w] :
              t \in expired[w] \/ (conn'[t] = "closed" /\ host'[t] = w),
           \A c \in Cleaner : \/ clean'[c] = clean[c]
                              \/ clean'[c].pc = "idle"
                              \/ /\ clean'[c].pc \notin {"delsess", "delip"}
                                 /\ conn'[Of(c)] = "closed",
           \A u \in UidKey : usession'[u] \in {usession[u], None}
    PROVE  CleanInv'
<1>1. \A w \in Server : \A t \in expired'[w] : conn'[t] = "closed" /\ host'[t] = w
  BY DEF CleanInv, TypeOK
<1>2. ASSUME NEW c \in Cleaner
      PROVE  /\ clean'[c].pc # "idle" => conn'[Of(c)] = "closed"
             /\ clean'[c].pc \in {"delsess", "delip"} =>
                    usession'[clean'[c].uid] \in {Of(c), None}
  <2>1. clean[c].uid \in UidKey /\ Of(c) \in Session
    BY CleanType, OwnerTypes
  <2>2. CASE clean'[c] = clean[c]
    BY <2>1, <2>2 DEF CleanInv
  <2>. QED BY <2>2
<1>. QED BY <1>1, <1>2 DEF CleanInv

LEMMA CleanLogin ==
    ASSUME TypeOK, LockInv, CleanInv, NEW v \in Server, LoginStep(v) PROVE CleanInv'
<1>1. CASE LoginSetSession(v)
  <2>1. /\ logic[v].pc \in LogicSection
        /\ usession' = [usession EXCEPT ![logic[v].uid] = logic[v].sess]
        /\ UNCHANGED <<conn, host, clean, expired>>
    BY <1>1 DEF LoginSetSession, LogicSection, netVars
  <2>2. \A c \in Cleaner : clean[c].pc \in {"delsess", "delip"} =>
            usession'[clean[c].uid] = usession[clean[c].uid]
    BY <2>1, MutualExclusion, CleanType DEF CleanSection, TypeOK
  <2>. QED BY <2>1, <2>2 DEF CleanInv
<1>2. CASE ~LoginSetSession(v)
  BY <1>2, CleanKept
     DEF LoginStep, LoginReject, LoginBegin, LoginAcquire, LoginCheck, LoginLookupOld,
         LoginClearOld, LoginKicked, LoginSetIp, LoginBind, LoginRelease, netVars, regVars
<1>. QED BY <1>1, <1>2

LEMMA CleanClean ==
    ASSUME TypeOK, CleanInv, NEW c \in Cleaner, CleanStep(c) PROVE CleanInv'
<1>a. clean[c] \in CleanState /\ clean[c].uid \in UidKey /\ Of(c) \in Session
  BY CleanType, OwnerTypes
<1>b. clean[c].pc # "idle" => conn[Of(c)] = "closed"
  BY DEF CleanInv
<1>1. CASE CleanAcquire(c)
  <2>1. PICK ident \in {c, None} :
          clean' = [clean EXCEPT ![c] =
             [@ EXCEPT !.ident = ident, !.pc = IF ident = None THEN "clear" ELSE "check"]]
    BY <1>1 DEF CleanAcquire
  <2>2. [clean[c] EXCEPT !.ident = ident, !.pc = IF ident = None THEN "clear" ELSE "check"].pc
            \in {"clear", "check"}
    BY <1>a DEF CleanState
  <2>3. /\ \A d \in Cleaner : d # c => clean'[d] = clean[d]
        /\ clean'[c].pc \in {"clear", "check"}
    BY <2>1, <2>2 DEF TypeOK
  <2>4. UNCHANGED <<conn, host, expired, usession>> /\ clean[c].pc # "idle"
    BY <1>1 DEF CleanAcquire, netVars, regVars
  <2>. QED BY <1>b, <2>3, <2>4, CleanKept
<1>5. CASE CleanRelease(c)
  <2>1. \A d \in Cleaner : clean'[d] = clean[d] \/ clean'[d].pc = "idle"
    BY <1>5 DEF CleanRelease, TypeOK, IdleClean
  <2>2. UNCHANGED <<conn, host, expired, usession>>
    BY <1>5 DEF CleanRelease, netVars, regVars
  <2>. QED BY <2>1, <2>2, CleanKept
<1>2. CASE CleanCheck(c)
  <2>1. \E pc \in {"delsess", "clear"} :
            CleanGoto(c, pc) /\ (pc = "delsess" => usession[clean[c].uid] = Of(c))
    BY <1>2 DEF CleanCheck
  <2>2. /\ \A d \in Cleaner : d # c => clean'[d] = clean[d]
        /\ clean'[c].uid = clean[c].uid
        /\ clean'[c].pc \in {"delsess", "clear"}
        /\ clean'[c].pc = "delsess" => usession[clean[c].uid] = Of(c)
    BY <2>1, CleanGotoType DEF CleanSection
  <2>3. UNCHANGED <<conn, host, expired, usession>> /\ clean[c].pc # "idle"
    BY <1>2 DEF CleanCheck, netVars, regVars
  <2>. QED BY <1>b, <2>2, <2>3 DEF CleanInv
<1>3. CASE CleanDelSession(c)
  <2>1. /\ \A d \in Cleaner : d # c => clean'[d] = clean[d]
        /\ clean'[c].uid = clean[c].uid /\ clean'[c].pc = "delip"
    BY <1>3, CleanGotoType DEF CleanDelSession, CleanSection
  <2>2. UNCHANGED <<conn, host, expired>> /\ clean[c].pc # "idle"
    BY <1>3 DEF CleanDelSession, netVars
  <2>3. /\ \A u \in UidKey : usession'[u] \in {usession[u], None}
        /\ usession'[clean[c].uid] = None
    BY <1>3, <1>a DEF CleanDelSession, TypeOK
  <2>4. \A d \in Cleaner : clean[d].uid \in UidKey
    BY CleanType
  <2>. QED BY <1>b, <2>1, <2>2, <2>3, <2>4 DEF CleanInv
<1>4. CASE CleanDelIp(c) \/ CleanClear(c)
  <2>1. /\ \A d \in Cleaner : d # c => clean'[d] = clean[d]
        /\ clean'[c].pc \in {"clear", "release"} /\ clean[c].pc # "idle"
    BY <1>4, CleanGotoType DEF CleanDelIp, CleanClear, CleanSection
  <2>2. UNCHANGED <<conn, host, expired, usession>>
    BY <1>4 DEF CleanDelIp, CleanClear, netVars, regVars
  <2>. QED BY <1>b, <2>1, <2>2, CleanKept
<1>. QED BY <1>1, <1>2, <1>3, <1>4, <1>5 DEF CleanStep

LEMMA CleanConn ==
    ASSUME TypeOK, CleanInv, NEW s \in Session, ConnStep(s) PROVE CleanInv'
<1>1. \A t \in Session : conn[t] = "closed" => conn'[t] = "closed" /\ host'[t] = host[t]
  BY DEF ConnStep, Accept, TimerCleanup, RecvLogin, ReadError, WriteError, BadFrame, TypeOK,
         netVars
<1>2. UNCHANGED usession
  BY DEF ConnStep, Accept, TimerCleanup, RecvLogin, ReadError, WriteError, BadFrame, regVars
<1>3. \A w \in Server : expired'[w] \subseteq expired[w]
  BY DEF ConnStep, Accept, TimerCleanup, RecvLogin, ReadError, WriteError, BadFrame, TypeOK
<1>4. CASE UNCHANGED clean
  BY <1>1, <1>2, <1>3, <1>4, CleanKept
<1>5. CASE ~UNCHANGED clean
  <2>1. \/ /\ ReadError(s) \/ WriteError(s)
           /\ StartCleanup(<<"io", s>>) /\ conn'[s] = "closed"
        \/ \E w \in Server : s \in expired[w] /\ StartCleanup(<<"timer", s>>)
    BY <1>5 DEF ConnStep, Accept, TimerCleanup, RecvLogin, ReadError, WriteError, BadFrame,
                TypeOK
  <2>2. \E c \in Cleaner : Of(c) = s /\ StartCleanup(c) /\ conn'[s] = "closed"
    BY <1>1, <2>1, OwnerTypes DEF CleanInv
  <2>. QED BY <1>1, <1>2, <1>3, <2>2, StartCleanupType, CleanKept
<1>. QED BY <1>4, <1>5

LEMMA CleanServer ==
    ASSUME TypeOK, HostInv, CleanInv, NEW v \in Server, ServerStep(v) PROVE CleanInv'
<1>1. CASE Insert(v)
  BY <1>1, CleanKept DEF Insert, regVars
<1>2. ASSUME NEW E \in SUBSET sessions[v], TimerScan(v, E) PROVE CleanInv'
  <2>1. /\ \A t \in Session : conn'[t] = IF t \in E THEN "closed" ELSE conn[t]
        /\ \A w \in Server : \A t \in expired'[w] : t \in expired[w] \/ t \in E
        /\ \A w \in Server : w # v => expired'[w] = expired[w]
        /\ UNCHANGED <<host, clean, usession>>
    BY <1>2 DEF TimerScan, TypeOK, regVars
  <2>2. \A t \in E : t \in Session /\ host[t] = v
    BY DEF HostInv, HostTables, Knows, TypeOK
  <2>. QED BY <2>1, <2>2, CleanKept DEF TypeOK
<1>3. CASE Crash(v)
  <2>1. /\ \A t \in Session : conn[t] = "closed" => conn'[t] = "closed" /\ host'[t] = host[t]
        /\ \A w \in Server : expired'[w] \subseteq expired[w]
        /\ \A c \in Cleaner : clean'[c] = clean[c] \/ clean'[c].pc = "idle"
        /\ UNCHANGED usession
    BY <1>3 DEF Crash, TypeOK, IdleClean, regVars
  <2>. QED BY <2>1, CleanKept
<1>. QED BY <1>1, <1>2, <1>3 DEF ServerStep

LEMMA CleanInvStep ==
    ASSUME TypeOK, HostInv, LockInv, CleanInv, [Next]_vars PROVE CleanInv'
<1>1. ASSUME NEW k \in kicks, KickStep(k) PROVE CleanInv'
  BY <1>1, CleanKept DEF KickStep, KickLookup, KickClear, KickLost, netVars, regVars
<1>2. CASE UNCHANGED vars \/ \E u \in UidKey : ExpireLock(u)
  BY <1>2, CleanKept DEF vars, netVars, regVars, ExpireLock
<1>3. ASSUME NEW u \in Uid, ExpireRegistration(u) PROVE CleanInv'
  <2>1. \A w \in UidKey : usession'[w] \in {usession[w], None}
    BY <1>3 DEF ExpireRegistration, TypeOK
  <2>. QED BY <1>3, <2>1, CleanKept DEF ExpireRegistration, netVars
<1>. QED BY <1>1, <1>2, <1>3, CleanLogin, CleanClean, CleanConn, CleanServer DEF Next

\* The part of IInv that needs the locks only: it survives lost kicks and lapsed keys.
LockedInv == TypeOK /\ HostInv /\ LockInv /\ CleanInv

LEMMA LockedInit == Init => LockedInv
BY TypeInit, HostInit, LockInit
   DEF Init, LockedInv, CleanInv, IdleClean

LEMMA LockedStep ==
    ASSUME LocksHold, LockedInv, [Next]_vars
    PROVE  LockedInv'
BY TypeStep, HostStep, LockStep, CleanInvStep DEF LockedInv

\* What a cleanup has read of the registration stays true until it deletes the keys:
\* usession_<uid> is still the lost session's or nobody's, whatever else fails, as long
\* as no lock is given up or lapses under its holder.
THEOREM CleanupsUpToDate == LocksHold => (Spec => []LockedInv)
<1> SUFFICES ASSUME LocksHold PROVE Spec => []LockedInv
  OBVIOUS
<1>1. LockedInv /\ [Next]_vars => LockedInv'
  BY LockedStep
<1>. QED BY <1>1, LockedInit, PTL DEF Spec

-----------------------------------------------------------------------------
(* RegInv, LoginInv and OneLiveLogin.                                       *)

\* No step but LoginBind makes a user live at a server.
NoNewLive(u) ==
    \A w \in Server : Live(w, u)' => Live(w, u) /\ userMgr'[w][u] = userMgr[w][u]

LEMMA LiveType ==
    ASSUME TypeOK, NEW w \in Server, NEW u \in Uid, Live(w, u)
    PROVE  userMgr[w][u] \in Session /\ userMgr[w][u] # None
BY NoneAssumption DEF Live, TypeOK

LEMMA NoNewLiveShrinks ==
    ASSUME TypeOK, NEW u \in Uid, TypeOK',
           \A w \in Server : sessions'[w] \subseteq sessions[w],
           \A w \in Server : userMgr'[w][u] \in {userMgr[w][u], None}
    PROVE  NoNewLive(u)
BY NoneAssumption DEF NoNewLive, Live, TypeOK

LEMMA RegKept ==
    ASSUME RegInv, UNCHANGED regVars,
           \A u \in Uid : NoNewLive(u),
           \A c \in Cleaner : clean[c].pc \in {"delip", "clear"} =>
              \/ clean'[c].pc \in {"delip", "clear"} /\ clean'[c].uid = clean[c].uid
              \/ \A w \in Server, u \in Uid : Live(w, u)' => Of(c) # userMgr'[w][u]
    PROVE  RegInv'
<1> SUFFICES ASSUME NEW w \in Server, NEW u \in Uid, Live(w, u)'
             PROVE  \/ uip'[u] = w /\ usession'[u] = userMgr'[w][u]
                    \/ Leaving(w, u)'
  BY DEF RegInv
<1>1. Live(w, u) /\ userMgr'[w][u] = userMgr[w][u]
  BY DEF NoNewLive
<1>2. CASE uip[u] = w /\ usession[u] = userMgr[w][u]
  BY <1>1, <1>2 DEF regVars
<1>3. ASSUME NEW c \in Cleaner, clean[c].uid = u, Of(c) = userMgr[w][u],
             clean[c].pc \in {"delip", "clear"}
      PROVE  Leaving(w, u)'
  BY <1>1, <1>3 DEF Leaving
<1>. QED BY <1>1, <1>2, <1>3 DEF RegInv, Leaving

LEMMA OneKept ==
    ASSUME OneLiveLogin, \A u \in Uid : NoNewLive(u) PROVE OneLiveLogin'
BY DEF OneLiveLogin, NoNewLive

\* Steps of others: the login on v's logic thread keeps what it knows.
LEMMA AtKept ==
    ASSUME TypeOK, NEW v \in Server, LoginAt(v), logic'[v] = logic[v],
           NoNewLive(logic[v].uid),
           logic[v].pc \in {"setsess", "bind"} =>
              /\ uip'[logic[v].uid] = uip[logic[v].uid]
              /\ usession'[logic[v].uid] = usession[logic[v].uid],
           \A k \in kicks : logic[v].pc = "kick" /\ k.from = v =>
              \/ ~Live(k.to, k.uid)' /\ k.to \in Server
              \/ k.sess \notin {None, userMgr'[k.to][k.uid]}
              \/ \E l \in kicks' : /\ l.from = v /\ l.to = k.to /\ l.uid = k.uid
                                   /\ l.sess \in {None, userMgr'[k.to][k.uid]}
    PROVE  LoginAt(v)'
<1> DEFINE u == logic[v].uid
<1>1. logic[v].pc = "kick" => \A w \in Server : Live(w, u)' =>
            \E l \in kicks' : /\ l.from = v /\ l.to = w /\ l.uid = u
                             /\ l.sess \in {None, userMgr'[w][u]}
  BY DEF LoginAt, NoNewLive
<1>2. logic[v].pc = "lookup" => \A w \in Server : Live(w, u)' => w = v
  BY DEF LoginAt, NoNewLive
<1>3. logic[v].pc = "clear" => \A w \in Server : Live(w, u)' => w = v /\ userMgr'[v][u] = logic[v].old
  BY DEF LoginAt, NoNewLive
<1>4. logic[v].pc \in {"setip", "setsess", "bind"} => \A w \in Server : ~Live(w, u)'
  BY DEF LoginAt, NoNewLive
<1>5. /\ logic[v].pc \in {"setsess", "bind"} => uip'[u] = v
      /\ logic[v].pc = "bind" => usession'[u] = logic[v].sess
  BY DEF LoginAt
<1>. QED BY <1>1, <1>2, <1>3, <1>4, <1>5 DEF LoginAt

LEMMA AtEarly ==
    ASSUME NEW v,
           logic'[v].pc \notin {"lookup", "clear", "kick", "setip", "setsess", "bind"}
    PROVE  LoginAt(v)'
BY DEF LoginAt

\* Steps that change none of the tables and registrations.
LEMMA QuietCore ==
    ASSUME TypeOK, RegInv, LoginInv, OneLiveLogin,
           UNCHANGED <<sessions, userMgr, regVars, kicks>>,
           \A w \in Server : \/ logic'[w] = logic[w]
                             \/ logic'[w].pc \in {"idle", "acquire", "check"},
           \A c \in Cleaner : clean[c].pc \in {"delip", "clear"} => clean'[c] = clean[c]
    PROVE  RegInv' /\ LoginInv' /\ OneLiveLogin'
<1>1. \A u : NoNewLive(u)
  BY DEF NoNewLive, Live
<1>2. RegInv' /\ OneLiveLogin'
  BY <1>1, RegKept, OneKept
<1>3. ASSUME NEW w \in Server PROVE LoginAt(w)'
  <2>1. CASE logic'[w] = logic[w]
    BY <1>1, <2>1, AtKept DEF LoginInv, regVars
  <2>2. CASE logic'[w].pc \in {"idle", "acquire", "check"}
    BY <2>2, AtEarly
  <2>. QED BY <2>1, <2>2
<1>. QED BY <1>2, <1>3 DEF LoginInv

\* Steps that take sessions out of the tables of one server.
LEMMA ClearCore ==
    ASSUME TypeOK, RegInv, LoginInv, OneLiveLogin,
           \A u \in Uid : NoNewLive(u),
           UNCHANGED <<regVars, kicks, logic>>,
           \A c \in Cleaner : clean[c].pc \in {"delip", "clear"} =>
              \/ clean'[c] = clean[c]
              \/ \A w \in Server, u \in Uid : Live(w, u)' => Of(c) # userMgr'[w][u]
    PROVE  RegInv' /\ LoginInv' /\ OneLiveLogin'
<1>1. RegInv' /\ OneLiveLogin'
  BY RegKept, OneKept
<1>2. ASSUME NEW w \in Server PROVE LoginAt(w)'
  <2>1. CASE logic[w].pc = "idle"
    BY <2>1, AtEarly
  <2>2. CASE logic[w].pc # "idle"
    BY <2>2, BusyType, AtKept DEF LoginInv, regVars
  <2>. QED BY <2>1, <2>2
<1>. QED BY <1>1, <1>2 DEF LoginInv

\* While a login of u is in its section no cleanup is taking u's registration away.
LEMMA NotLeaving ==
    ASSUME TypeOK, LockInv, NEW v \in Server, logic[v].pc \in LogicSection
    PROVE  \A w \in Server : ~Leaving(w, logic[v].uid)
BY MutualExclusion DEF Leaving, CleanSection

\* Sections of two logic threads are those of two users.
LEMMA OtherUser ==
    ASSUME TypeOK, LockInv, NEW v \in Server, NEW w \in Server, v # w,
           logic[v].pc \in LogicSection, logic[w].pc \in LogicSection
    PROVE  logic[v].uid # logic[w].uid
BY MutualExclusion

LEMMA CoreCheck ==
    ASSUME TypeOK, LockInv, RegInv, LoginInv, OneLiveLogin,
           NEW v \in Server, LoginCheck(v)
    PROVE  RegInv' /\ LoginInv' /\ OneLiveLogin'
<1> PICK u \in Uid : u = logic[v].uid
  BY BusyType DEF LoginCheck
<1> PICK at : at = uip[u]
  OBVIOUS
<1>1. logic[v].pc = "check" /\ u \in Uid
  BY BusyType DEF LoginCheck
<1>2. UNCHANGED <<sessions, userMgr, regVars, clean>>
  BY DEF LoginCheck, tableVars
<1>3. \A x : NoNewLive(x)
  BY <1>2 DEF NoNewLive, Live
<1>4. RegInv' /\ OneLiveLogin'
  BY <1>2, <1>3, RegKept, OneKept
<1>5. \A w \in Server : Live(w, u) => at = w
  BY <1>1, NotLeaving DEF RegInv, LogicSection
<1>6. \A w \in Server : Live(w, u)' => Live(w, u)
  BY <1>2 DEF Live
<1>7. kicks \subseteq kicks'
  BY DEF LoginCheck
<1>8. \E pc \in {"setip", "lookup", "kick"} : LogicGoto(v, pc)
  BY DEF LoginCheck
<1>9. /\ \A w \in Server : w # v => logic'[w] = logic[w]
      /\ logic'[v].uid = u
  BY <1>1, <1>8, LogicGotoType DEF LogicSection
<1>10. ASSUME NEW w \in Server, w # v PROVE LoginAt(w)'
  BY <1>2, <1>3, <1>7, <1>9, <1>10, AtKept DEF LoginInv, regVars
<1>11. LoginAt(v)'
  <2>1. CASE at = None
    <3>1. logic'[v].pc = "setip"
      BY <1>1, <2>1, NoneAssumption, LogicGotoType DEF LoginCheck, LogicSection
    <3>. QED BY <1>5, <1>6, <1>9, <2>1, <3>1, NoneAssumption DEF LoginAt
  <2>2. CASE at = v
    <3>1. logic'[v].pc = "lookup"
      BY <1>1, <2>2, NoneAssumption, LogicGotoType DEF LoginCheck, LogicSection
    <3>. QED BY <1>5, <1>6, <1>9, <2>2, <3>1 DEF LoginAt
  <2>3. CASE at \notin {None, v}
    <3> DEFINE k == [from |-> v, to |-> at, uid |-> u, sess |-> None]
    <3>1. logic'[v].pc = "kick"
      BY <1>1, <2>3, LogicGotoType DEF LoginCheck, LogicSection
    <3>2. k \in kicks'
      BY <2>3 DEF LoginCheck
    <3>3. k.from = v /\ k.to = at /\ k.uid = u /\ k.sess = None
      OBVIOUS
    <3> HIDE DEF k
    <3>4. \A w \in Server : Live(w, u)' => /\ k.from = v /\ k.to = w /\ k.uid = u
                                           /\ k.sess \in {None, userMgr'[w][u]}
      BY <1>5, <1>6, <3>3
    <3>. QED BY <1>9, <3>1, <3>2, <3>4 DEF LoginAt
  <2>. QED BY <2>1, <2>2, <2>3
<1>. QED BY <1>4, <1>10, <1>11 DEF LoginInv

LEMMA CoreLookupOld ==
    ASSUME TypeOK, LockInv, RegInv, LoginInv, OneLiveLogin,
           NEW v \in Server, LoginLookupOld(v)
    PROVE  RegInv' /\ LoginInv' /\ OneLiveLogin'
<1> PICK u \in Uid : u = logic[v].uid
  BY BusyType DEF LoginLookupOld
<1> DEFINE s == userMgr[v][u]
           n == [logic[v] EXCEPT !.old = s, !.pc = IF s = None THEN "setip" ELSE "clear"]
<1>1. logic[v].pc = "lookup" /\ u \in Uid /\ logic[v] \in BusyLogic
  BY BusyType DEF LoginLookupOld
<1>2. UNCHANGED <<sessions, userMgr, regVars, clean, kicks>>
  BY DEF LoginLookupOld, tableVars
<1>3. \A x : NoNewLive(x)
  BY <1>2 DEF NoNewLive, Live
<1>4. RegInv' /\ OneLiveLogin'
  BY <1>2, <1>3, RegKept, OneKept
<1>5. logic' = [logic EXCEPT ![v] = n]
  BY DEF LoginLookupOld
<1>6. n.uid = u /\ n.old = s /\ n.pc = (IF s = None THEN "setip" ELSE "clear")
  BY <1>1 DEF BusyLogic
<1> HIDE DEF n
<1>7. /\ \A w \in Server : w # v => logic'[w] = logic[w]
      /\ logic'[v].uid = u /\ logic'[v].old = s
      /\ logic'[v].pc = (IF s = None THEN "setip" ELSE "clear")
  BY <1>5, <1>6 DEF TypeOK
<1>8. ASSUME NEW w \in Server, w # v PROVE LoginAt(w)'
  BY <1>2, <1>3, <1>7, <1>8, AtKept DEF LoginInv, regVars
<1>9. \A w \in Server : Live(w, u)' => w = v
  BY <1>1, <1>3 DEF LoginInv, LoginAt, NoNewLive
<1>10. Live(v, u)' => s # None
  BY <1>1, <1>2, LiveType DEF Live
<1>11. LoginAt(v)'
  BY <1>2, <1>7, <1>9, <1>10 DEF LoginAt
<1>. QED BY <1>4, <1>8, <1>11 DEF LoginInv

LEMMA CoreClearOld ==
    ASSUME TypeOK, TypeOK', LockInv, RegInv, LoginInv, OneLiveLogin,
           NEW v \in Server, LoginClearOld(v)
    PROVE  RegInv' /\ LoginInv' /\ OneLiveLogin'
<1> PICK u \in Uid : u = logic[v].uid
  BY BusyType DEF LoginClearOld
<1>1. logic[v].pc = "clear" /\ u \in Uid /\ logic[v].old \in Session
  BY BusyType DEF LoginClearOld, TypeOK
<1>2. UNCHANGED <<regVars, clean, kicks>>
  BY DEF LoginClearOld
<1>3. /\ \A w \in Server : sessions'[w] \subseteq sessions[w]
      /\ \A w \in Server, x \in Uid : userMgr'[w][x] \in {userMgr[w][x], None}
      /\ logic[v].old \notin sessions'[v]
  BY <1>1, ClearShrinks DEF LoginClearOld
<1>4. \A x \in Uid : NoNewLive(x)
  BY <1>3, NoNewLiveShrinks
<1>5. RegInv' /\ OneLiveLogin'
  BY <1>2, <1>4, RegKept, OneKept
<1>6. LogicGoto(v, "setip")
  BY DEF LoginClearOld
<1>7. /\ \A w \in Server : w # v => logic'[w] = logic[w]
      /\ logic'[v].uid = u /\ logic'[v].pc = "setip"
  BY <1>1, <1>6, LogicGotoType DEF LogicSection
<1>8. ASSUME NEW w \in Server, w # v PROVE LoginAt(w)'
  <2>1. CASE logic[w].pc = "idle"
    BY <1>7, <1>8, <2>1, AtEarly
  <2>2. CASE logic[w].pc # "idle"
    BY <1>2, <1>4, <1>7, <1>8, <2>2, BusyType, AtKept DEF LoginInv, regVars
  <2>. QED BY <2>1, <2>2
<1>9. ASSUME NEW w \in Server, Live(w, u)' PROVE FALSE
  <2>1. w = v /\ userMgr'[v][u] = logic[v].old
    BY <1>1, <1>4, <1>9 DEF NoNewLive, LoginInv, LoginAt
  <2>. QED BY <1>3, <1>9, <2>1 DEF Live
<1>10. LoginAt(v)'
  BY <1>7, <1>9 DEF LoginAt
<1>. QED BY <1>5, <1>8, <1>10 DEF LoginInv

LEMMA CoreKicked ==
    ASSUME TypeOK, LockInv, RegInv, LoginInv, OneLiveLogin,
           NEW v \in Server, LoginKicked(v)
    PROVE  RegInv' /\ LoginInv' /\ OneLiveLogin'
<1> PICK u \in Uid : u = logic[v].uid
  BY BusyType DEF LoginKicked
<1>1. logic[v].pc = "kick" /\ (\A k \in kicks : k.from # v) /\ LogicGoto(v, "setip")
  BY DEF LoginKicked
<1>2. UNCHANGED <<sessions, userMgr, regVars, clean, kicks>>
  BY DEF LoginKicked, tableVars
<1>3. \A x : NoNewLive(x)
  BY <1>2 DEF NoNewLive, Live
<1>4. RegInv' /\ OneLiveLogin'
  BY <1>2, <1>3, RegKept, OneKept
<1>5. /\ \A w \in Server : w # v => logic'[w] = logic[w]
      /\ logic'[v].uid = u /\ logic'[v].pc = "setip"
  BY <1>1, LogicGotoType DEF LogicSection
<1>6. ASSUME NEW w \in Server, w # v PROVE LoginAt(w)'
  BY <1>2, <1>3, <1>5, <1>6, AtKept DEF LoginInv, regVars
<1>7. \A w \in Server : ~Live(w, u)'
  BY <1>1, <1>3 DEF NoNewLive, LoginInv, LoginAt
<1>8. LoginAt(v)'
  BY <1>5, <1>7 DEF LoginAt
<1>. QED BY <1>4, <1>6, <1>8 DEF LoginInv

LEMMA CoreSetIp ==
    ASSUME TypeOK, LockInv, RegInv, LoginInv, OneLiveLogin,
           NEW v \in Server, LoginSetIp(v)
    PROVE  RegInv' /\ LoginInv' /\ OneLiveLogin'
<1> PICK u \in Uid : u = logic[v].uid
  BY BusyType DEF LoginSetIp
<1>1. /\ logic[v].pc = "setip" /\ LogicGoto(v, "setsess")
      /\ uip' = [uip EXCEPT ![u] = v]
  BY DEF LoginSetIp
<1>2. UNCHANGED <<sessions, userMgr, usession, clean, kicks>>
  BY DEF LoginSetIp, tableVars
<1>3. \A x : NoNewLive(x)
  BY <1>2 DEF NoNewLive, Live
<1>4. \A x \in Uid : x # u => uip'[x] = uip[x]
  BY <1>1 DEF TypeOK
<1>5. uip'[u] = v
  BY <1>1 DEF TypeOK, UidKey
<1>6. \A w \in Server : ~Live(w, u)
  BY <1>1 DEF LoginInv, LoginAt
<1>7. RegInv'
  BY <1>2, <1>4, <1>6 DEF RegInv, Leaving, Live
<1>8. /\ \A w \in Server : w # v => logic'[w] = logic[w]
      /\ logic'[v].uid = u /\ logic'[v].pc = "setsess"
  BY <1>1, LogicGotoType DEF LogicSection
<1>9. ASSUME NEW w \in Server, w # v PROVE LoginAt(w)'
  <2>1. logic[w].pc \in {"setsess", "bind"} => logic[w].uid # u /\ logic[w].uid \in Uid
    BY <1>1, <1>9, OtherUser, BusyType DEF LogicSection
  <2>. QED BY <1>2, <1>3, <1>4, <1>8, <1>9, <2>1, AtKept DEF LoginInv
<1>10. LoginAt(v)'
  BY <1>2, <1>5, <1>6, <1>8 DEF LoginAt, Live
<1>. QED BY <1>3, <1>7, <1>9, <1>10, OneKept DEF LoginInv

LEMMA CoreSetSession ==
    ASSUME TypeOK, LockInv, RegInv, LoginInv, OneLiveLogin,
           NEW v \in Server, LoginSetSession(v)
    PROVE  RegInv' /\ LoginInv' /\ OneLiveLogin'
<1> PICK u \in Uid : u = logic[v].uid
  BY BusyType DEF LoginSetSession
<1>1. /\ logic[v].pc = "setsess" /\ LogicGoto(v, "bind")
      /\ usession' = [usession EXCEPT ![u] = logic[v].sess]
  BY DEF LoginSetSession
<1>2. UNCHANGED <<sessions, userMgr, uip, clean, kicks>>
  BY DEF LoginSetSession, tableVars
<1>3. \A x : NoNewLive(x)
  BY <1>2 DEF NoNewLive, Live
<1>4. \A x \in Uid : x # u => usession'[x] = usession[x]
  BY <1>1 DEF TypeOK
<1>5. usession'[u] = logic[v].sess
  BY <1>1 DEF TypeOK, UidKey
<1>6. (\A w \in Server : ~Live(w, u)) /\ uip[u] = v
  BY <1>1 DEF LoginInv, LoginAt
<1>7. RegInv'
  BY <1>2, <1>4, <1>6 DEF RegInv, Leaving, Live
<1>8. /\ \A w \in Server : w # v => logic'[w] = logic[w]
      /\ logic'[v].uid = u /\ logic'[v].pc = "bind" /\ logic'[v].sess = logic[v].sess
  BY <1>1, LogicGotoType DEF LogicSection
<1>9. ASSUME NEW w \in Server, w # v PROVE LoginAt(w)'
  <2>1. logic[w].pc \in {"setsess", "bind"} => logic[w].uid # u /\ logic[w].uid \in Uid
    BY <1>1, <1>9, OtherUser, BusyType DEF LogicSection
  <2>. QED BY <1>2, <1>3, <1>4, <1>8, <1>9, <2>1, AtKept DEF LoginInv
<1>10. LoginAt(v)'
  BY <1>2, <1>5, <1>6, <1>8 DEF LoginAt, Live
<1>. QED BY <1>3, <1>7, <1>9, <1>10, OneKept DEF LoginInv

LEMMA CoreBind ==
    ASSUME TypeOK, LockInv, RegInv, LoginInv, OneLiveLogin,
           NEW v \in Server, LoginBind(v)
    PROVE  RegInv' /\ LoginInv' /\ OneLiveLogin'
<1> PICK u \in Uid : u = logic[v].uid
  BY BusyType DEF LoginBind
<1>1. /\ logic[v].pc = "bind" /\ LogicGoto(v, "release")
      /\ userMgr' = [userMgr EXCEPT ![v][u] = logic[v].sess]
  BY DEF LoginBind
<1>2. UNCHANGED <<sessions, regVars, clean, kicks>>
  BY DEF LoginBind
<1>3. \A w \in Server, x \in Uid : x # u \/ w # v => userMgr'[w][x] = userMgr[w][x]
  BY <1>1 DEF TypeOK
<1>4. userMgr'[v][u] = logic[v].sess
  BY <1>1 DEF TypeOK
<1>5. (\A w \in Server : ~Live(w, u)) /\ uip[u] = v /\ usession[u] = logic[v].sess
  BY <1>1 DEF LoginInv, LoginAt
<1>6. \A x \in Uid : x # u => NoNewLive(x)
  BY <1>2, <1>3 DEF NoNewLive, Live
<1>7. \A w \in Server : Live(w, u)' => w = v
  BY <1>2, <1>3, <1>5 DEF Live
<1>8. RegInv'
  <2> SUFFICES ASSUME NEW w \in Server, NEW x \in Uid, Live(w, x)'
               PROVE  \/ uip'[x] = w /\ usession'[x] = userMgr'[w][x]
                      \/ Leaving(w, x)'
    BY DEF RegInv
  <2>1. CASE x = u
    BY <1>2, <1>4, <1>5, <1>7, <2>1 DEF regVars
  <2>2. CASE x # u
    <3>1. Live(w, x) /\ userMgr'[w][x] = userMgr[w][x]
      BY <1>6, <2>2 DEF NoNewLive
    <3>. QED BY <1>2, <3>1 DEF RegInv, Leaving, regVars
  <2>. QED BY <2>1, <2>2
<1>9. OneLiveLogin'
  BY <1>6, <1>7 DEF OneLiveLogin, NoNewLive
<1>10. /\ \A w \in Server : w # v => logic'[w] = logic[w]
       /\ logic'[v].pc = "release"
  BY <1>1, LogicGotoType DEF LogicSection
<1>11. ASSUME NEW w \in Server, w # v PROVE LoginAt(w)'
  <2>1. CASE logic[w].pc \in LogicSection
    <3>1. logic[w].uid # u /\ logic[w].uid \in Uid
      BY <1>1, <1>11, <2>1, OtherUser, BusyType DEF LogicSection
    <3>. QED BY <1>2, <1>6, <1>10, <1>11, <3>1, AtKept DEF LoginInv, regVars
  <2>2. CASE logic[w].pc \notin LogicSection
    BY <1>10, <1>11, <2>2, AtEarly DEF LogicSection
  <2>. QED BY <2>1, <2>2
<1>12. LoginAt(v)'
  BY <1>10, AtEarly
<1>. QED BY <1>8, <1>9, <1>11, <1>12 DEF LoginInv

LEMMA CoreLogin ==
    ASSUME TypeOK, TypeOK', LockInv, RegInv, LoginInv, OneLiveLogin,
           NEW v \in Server, LoginStep(v)
    PROVE  RegInv' /\ LoginInv' /\ OneLiveLogin'
<1>1. CASE LoginReject(v) \/ LoginBegin(v) \/ LoginAcquire(v) \/ LoginRelease(v)
  <2>1. \A w \in Server : logic'[w] = logic[w] \/ logic'[w].pc \in {"idle", "acquire", "check"}
    <3>1. CASE LoginReject(v) \/ LoginBegin(v) \/ LoginRelease(v)
      BY <3>1 DEF LoginReject, LoginBegin, LoginRelease, TypeOK, IdleLogic
    <3>2. CASE LoginAcquire(v)
      <4>1. PICK ident : logic' = [logic EXCEPT ![v] = [@ EXCEPT !.ident = ident, !.pc = "check"]]
        BY <3>2 DEF LoginAcquire
      <4>2. logic[v] \in BusyLogic
        BY <3>2, BusyType DEF LoginAcquire
      <4>3. [logic[v] EXCEPT !.ident = ident, !.pc = "check"].pc = "check"
        BY <4>2 DEF BusyLogic
      <4>. QED BY <4>1, <4>3 DEF TypeOK
    <3>. QED BY <1>1, <3>1, <3>2
  <2>2. UNCHANGED <<sessions, userMgr, regVars, kicks, clean>>
    BY <1>1 DEF LoginReject, LoginBegin, LoginAcquire, LoginRelease, tableVars
  <2>. QED BY <2>1, <2>2, QuietCore
<1>. QED BY <1>1, CoreCheck, CoreLookupOld, CoreClearOld, CoreKicked, CoreSetIp,
            CoreSetSession, CoreBind DEF LoginStep

\* Deleting a key of the user whose session is cleaned up: if the user was registered
\* and live, the live login is the very session that is leaving.
LEMMA CoreDelete ==
    ASSUME TypeOK, LockInv, CleanInv, RegInv, LoginInv, OneLiveLogin,
           NEW c \in Cleaner, CleanDelSession(c) \/ CleanDelIp(c)
    PROVE  RegInv' /\ LoginInv' /\ OneLiveLogin'
<1> PICK u \in UidKey : u = clean[c].uid
  BY CleanType
<1>1. /\ \A d \in Cleaner : d # c => clean'[d] = clean[d]
      /\ clean'[c].uid = u /\ clean'[c].pc \in {"delip", "clear"}
      /\ clean[c].pc \in {"delsess", "delip"}
  BY CleanGotoType DEF CleanDelSession, CleanDelIp, CleanSection
<1>2. UNCHANGED <<sessions, userMgr, logic, kicks>>
  BY DEF CleanDelSession, CleanDelIp, tableVars
<1>3. \A x \in UidKey : x # u => uip'[x] = uip[x] /\ usession'[x] = usession[x]
  BY DEF CleanDelSession, CleanDelIp, TypeOK
<1>4. \A x : NoNewLive(x)
  BY <1>2 DEF NoNewLive, Live
<1>5. usession[u] \in {Of(c), None}
  BY <1>1 DEF CleanInv
<1>6. RegInv'
  <2> SUFFICES ASSUME NEW w \in Server, NEW x \in Uid, Live(w, x)'
               PROVE  \/ uip'[x] = w /\ usession'[x] = userMgr'[w][x]
                      \/ Leaving(w, x)'
    BY DEF RegInv
  <2>1. Live(w, x) /\ userMgr'[w][x] = userMgr[w][x] /\ userMgr[w][x] # None
    BY <1>4, LiveType DEF NoNewLive
  <2>2. ASSUME NEW d \in Cleaner, clean[d].uid = x, Of(d) = userMgr[w][x],
               clean[d].pc \in {"delip", "clear"}
        PROVE  Leaving(w, x)'
    <3>1. clean'[d].uid = x /\ clean'[d].pc \in {"delip", "clear"}
      BY <1>1, <2>2
    <3>. QED BY <2>1, <2>2, <3>1 DEF Leaving
  <2>3. CASE uip[x] = w /\ usession[x] = userMgr[w][x]
    <3>1. CASE x = u
      BY <1>1, <1>5, <2>1, <2>3, <3>1 DEF Leaving
    <3>2. CASE x # u
      BY <1>3, <2>1, <2>3, <3>2 DEF UidKey
    <3>. QED BY <3>1, <3>2
  <2>. QED BY <2>1, <2>2, <2>3 DEF RegInv, Leaving
<1>7. ASSUME NEW w \in Server PROVE LoginAt(w)'
  <2>1. logic[w].pc \in {"setsess", "bind"} => logic[w].uid # u /\ logic[w].uid \in UidKey
    BY <1>1, MutualExclusion, BusyType DEF LogicSection, CleanSection
  <2>. QED BY <1>2, <1>3, <1>4, <2>1, AtKept DEF LoginInv
<1>. QED BY <1>4, <1>6, <1>7, OneKept DEF LoginInv

LEMMA CoreClean ==
    ASSUME TypeOK, TypeOK', HostInv, LockInv, CleanInv, RegInv, LoginInv, OneLiveLogin,
           NEW c \in Cleaner, CleanStep(c)
    PROVE  RegInv' /\ LoginInv' /\ OneLiveLogin'
<1>1. CASE CleanAcquire(c) \/ CleanCheck(c) \/ CleanRelease(c)
  <2>1. /\ \A d \in Cleaner : d # c => clean'[d] = clean[d]
        /\ clean[c].pc \notin {"delip", "clear"}
    BY <1>1 DEF CleanAcquire, CleanCheck, CleanRelease, CleanGoto, TypeOK
  <2>2. UNCHANGED <<sessions, userMgr, regVars, kicks, logic>>
    BY <1>1 DEF CleanAcquire, CleanCheck, CleanRelease, tableVars
  <2>. QED BY <2>1, <2>2, QuietCore
<1>2. CASE CleanClear(c)
  <2>1. /\ \A d \in Cleaner : d # c => clean'[d] = clean[d]
        /\ UNCHANGED <<regVars, kicks, logic, host>>
    BY <1>2 DEF CleanClear, CleanGoto, TypeOK, netVars
  <2>2. /\ \A w \in Server : sessions'[w] \subseteq sessions[w]
        /\ \A w \in Server, u \in Uid : userMgr'[w][u] \in {userMgr[w][u], None}
        /\ host[Of(c)] \in Server => Of(c) \notin sessions'[host[Of(c)]]
    BY <1>2, ClearShrinks DEF CleanClear
  <2>3. \A u \in Uid : NoNewLive(u)
    BY <2>2, NoNewLiveShrinks
  <2>4. ASSUME NEW w \in Server, NEW u \in Uid, Live(w, u)' PROVE Of(c) # userMgr'[w][u]
    <3>1. userMgr'[w][u] \in sessions'[w] /\ userMgr'[w][u] \in sessions[w]
      BY <2>2, <2>4 DEF Live
    <3>2. host[userMgr'[w][u]] = w
      BY <3>1 DEF HostInv, HostTables, Knows
    <3>. QED BY <2>2, <3>1, <3>2
  <2>. QED BY <2>1, <2>3, <2>4, ClearCore
<1>. QED BY <1>1, <1>2, CoreDelete DEF CleanStep

LEMMA CoreConn ==
    ASSUME TypeOK, TypeOK', LockInv, CleanInv, RegInv, LoginInv, OneLiveLogin,
           NEW s \in Session, ConnStep(s)
    PROVE  RegInv' /\ LoginInv' /\ OneLiveLogin'
<1>1. UNCHANGED <<regVars, kicks, logic>>
  BY DEF ConnStep, Accept, TimerCleanup, RecvLogin, ReadError, WriteError, BadFrame
<1>2. UNCHANGED <<sessions, userMgr>> \/ ClearSession(host[s], s)
  BY DEF ConnStep, Accept, TimerCleanup, RecvLogin, ReadError, WriteError, BadFrame, tableVars
<1>3. \A u \in Uid : NoNewLive(u)
  <2>1. CASE UNCHANGED <<sessions, userMgr>>
    BY <2>1 DEF NoNewLive, Live
  <2>2. CASE ClearSession(host[s], s)
    BY <2>2, ClearShrinks, NoNewLiveShrinks
  <2>. QED BY <1>2, <2>1, <2>2
<1>4. \A c \in Cleaner : clean[c].pc \in {"delip", "clear"} => clean'[c] = clean[c]
  <2>1. CASE ReadError(s) \/ WriteError(s)
    <3>1. StartCleanup(<<"io", s>>) /\ clean[<<"io", s>>].pc = "idle"
      BY <2>1 DEF ReadError, WriteError
    <3>. QED BY <3>1, StartCleanupType, OwnerTypes
  <2>2. ASSUME NEW w \in Server, TimerCleanup(w, s), NEW c \in Cleaner,
               clean[c].pc \in {"delip", "clear"}
        PROVE  clean'[c] = clean[c]
    <3>1. host[s] = w
      BY <2>2 DEF TimerCleanup, CleanInv
    <3>2. clean[<<"timer", s>>].pc = "idle" /\ StartCleanup(<<"timer", s>>)
      BY <2>2, <3>1 DEF TimerCleanup
    <3>. QED BY <2>2, <3>2, StartCleanupType, OwnerTypes
  <2>. QED BY <2>1, <2>2 DEF ConnStep, Accept, RecvLogin, BadFrame
<1>. QED BY <1>1, <1>3, <1>4, ClearCore

LEMMA CoreServer ==
    ASSUME TypeOK, TypeOK', HostInv, LockInv, CleanInv, RegInv, LoginInv, OneLiveLogin,
           NEW v \in Server, ServerStep(v)
    PROVE  RegInv' /\ LoginInv' /\ OneLiveLogin'
<1>1. CASE Insert(v)
  <2>1. /\ UNCHANGED <<userMgr, regVars, kicks, logic, clean>>
        /\ accepting[v] # None
        /\ \A w \in Server : \A s \in sessions'[w] :
                s \in sessions[w] \/ (w = v /\ s = accepting[v])
    BY <1>1 DEF Insert, TypeOK
  <2>2. ASSUME NEW w \in Server, NEW u \in Uid, Live(w, u)' PROVE Live(w, u)
    <3>1. userMgr[w][u] \in sessions'[w] /\ userMgr[w][u] \in Session
      BY <2>1, <2>2, NoneAssumption DEF Live, TypeOK
    <3>2. userMgr[w][u] # accepting[w]
      BY <3>1, NoneAssumption DEF HostInv, HostTables, Knows
    <3>. QED BY <2>1, <3>1, <3>2 DEF Live
  <2>3. \A u \in Uid : NoNewLive(u)
    BY <2>1, <2>2 DEF NoNewLive
  <2>. QED BY <2>1, <2>3, ClearCore
<1>2. ASSUME NEW E \in SUBSET sessions[v], TimerScan(v, E)
      PROVE  RegInv' /\ LoginInv' /\ OneLiveLogin'
  BY <1>2, QuietCore DEF TimerScan, tableVars
<1>3. CASE Crash(v)
  <2>1. /\ \A w \in Server : w # v => /\ sessions'[w] = sessions[w]
                                      /\ userMgr'[w] = userMgr[w]
                                      /\ logic'[w] = logic[w]
        /\ sessions'[v] = {} /\ logic'[v].pc = "idle"
        /\ UNCHANGED <<host, regVars>>
    BY <1>3 DEF Crash, TypeOK, IdleLogic
  <2>2. \A u \in Uid : ~Live(v, u)'
    BY <2>1 DEF Live
  <2>3. \A u \in Uid, w \in Server : w # v => (Live(w, u)' <=> Live(w, u)) /\ userMgr'[w][u] = userMgr[w][u]
    BY <2>1 DEF Live
  <2>4. \A u \in Uid : NoNewLive(u)
    BY <2>2, <2>3 DEF NoNewLive
  <2>5. ASSUME NEW c \in Cleaner, clean'[c] # clean[c], NEW w \in Server, NEW u \in Uid,
               Live(w, u)'
        PROVE  Of(c) # userMgr'[w][u]
    <3>1. host[Of(c)] = v
      BY <1>3, <2>5, OwnerTypes DEF Crash, TypeOK
    <3>2. w # v /\ userMgr'[w][u] \in sessions[w]
      BY <2>1, <2>2, <2>5 DEF Live
    <3>3. host[userMgr'[w][u]] = w
      BY <3>2 DEF HostInv, HostTables, Knows
    <3>. QED BY <3>1, <3>2, <3>3
  <2>6. RegInv' /\ OneLiveLogin'
    BY <2>1, <2>4, <2>5, RegKept, OneKept
  <2>7. ASSUME NEW w \in Server, w # v PROVE LoginAt(w)'
    <3>1. CASE logic[w].pc = "idle"
      BY <2>1, <2>7, <3>1, AtEarly
    <3>2. CASE logic[w].pc # "idle"
      <4>1. ASSUME NEW k \in kicks, k.from = w, k.to # v PROVE k \in kicks'
        BY <1>3, <2>7, <4>1 DEF Crash, Orphaned
      <4>2. \A k \in kicks : k.to \in Server /\ k.uid \in Uid
        BY DEF TypeOK, Kick
      <4>3. \A k \in kicks : k.from = w =>
              \/ ~Live(k.to, k.uid)' /\ k.to \in Server
              \/ k.sess \notin {None, userMgr'[k.to][k.uid]}
              \/ \E l \in kicks' : /\ l.from = w /\ l.to = k.to /\ l.uid = k.uid
                                   /\ l.sess \in {None, userMgr'[k.to][k.uid]}
        BY <2>2, <4>1, <4>2
      <4>4. logic'[w] = logic[w] /\ logic[w].uid \in Uid /\ NoNewLive(logic[w].uid)
        BY <2>1, <2>4, <2>7, <3>2, BusyType
      <4>. QED BY <2>1, <4>3, <4>4, AtKept DEF LoginInv, regVars
    <3>. QED BY <3>1, <3>2
  <2>. QED BY <2>1, <2>6, <2>7, AtEarly DEF LoginInv
<1>. QED BY <1>1, <1>2, <1>3 DEF ServerStep

LEMMA CoreKick ==
    ASSUME TypeOK, TypeOK', HostInv, LockInv, CleanInv, RegInv, LoginInv, OneLiveLogin,
           Faults \subseteq Handled, NEW k \in kicks, KickStep(k)
    PROVE  RegInv' /\ LoginInv' /\ OneLiveLogin'
<1>1. k.to \in Server /\ k.uid \in Uid /\ \A l \in kicks : l.to \in Server /\ l.uid \in Uid
  BY DEF TypeOK, Kick
<1>2. UNCHANGED <<regVars, logic, clean>>
  BY DEF KickStep, KickLookup, KickClear, KickLost
<1>3. ~KickLost(k)
  BY NoUnhandled DEF KickLost, Unhandled
<1>4. \A u \in Uid : NoNewLive(u)
  <2>1. CASE KickLookup(k)
    BY <2>1 DEF KickLookup, tableVars, NoNewLive, Live
  <2>2. CASE KickClear(k)
    BY <1>1, <2>2, ClearShrinks, NoNewLiveShrinks DEF KickClear
  <2>. QED BY <1>3, <2>1, <2>2 DEF KickStep
<1>5. RegInv' /\ OneLiveLogin'
  BY <1>2, <1>4, RegKept, OneKept
<1>6. \A l \in kicks : l # k => l \in kicks'
  BY <1>3 DEF KickStep, KickLookup, KickClear
<1>7. \/ ~Live(k.to, k.uid)'
      \/ k.sess \notin {None, userMgr'[k.to][k.uid]}
      \/ \E l \in kicks' : /\ l.from = k.from /\ l.to = k.to /\ l.uid = k.uid
                           /\ l.sess \in {None, userMgr'[k.to][k.uid]}
  <2>1. CASE KickLookup(k)
    <3> PICK s : s = userMgr[k.to][k.uid]
      OBVIOUS
    <3>1. UNCHANGED <<sessions, userMgr>>
      BY <2>1 DEF KickLookup, tableVars
    <3>2. CASE s = None
      <4>1. ~Live(k.to, k.uid)
        BY <1>1, <3>2, LiveType
      <4>. QED BY <3>1, <4>1 DEF Live
    <3>3. CASE s # None
      <4> DEFINE l == [k EXCEPT !.sess = s]
      <4>1. l \in kicks'
        BY <2>1, <3>3 DEF KickLookup
      <4>2. l.from = k.from /\ l.to = k.to /\ l.uid = k.uid /\ l.sess = s
        BY DEF TypeOK, Kick
      <4> HIDE DEF l
      <4>. QED BY <3>1, <4>1, <4>2
    <3>. QED BY <3>2, <3>3
  <2>2. CASE KickClear(k)
    <3>1. k.sess # None /\ k.sess \notin sessions'[k.to]
      BY <1>1, <2>2, ClearShrinks DEF KickClear
    <3>. QED BY <3>1 DEF Live
  <2>. QED BY <1>3, <2>1, <2>2 DEF KickStep
<1>8. ASSUME NEW w \in Server PROVE LoginAt(w)'
  <2>1. CASE logic[w].pc = "idle"
    BY <1>2, <2>1, AtEarly
  <2>2. CASE logic[w].pc # "idle"
    <3>1. \A l \in kicks : l.from = w =>
            \/ ~Live(l.to, l.uid)' /\ l.to \in Server
            \/ l.sess \notin {None, userMgr'[l.to][l.uid]}
            \/ \E m \in kicks' : /\ m.from = w /\ m.to = l.to /\ m.uid = l.uid
                                 /\ m.sess \in {None, userMgr'[l.to][l.uid]}
      BY <1>1, <1>6, <1>7
    <3>2. logic'[w] = logic[w] /\ NoNewLive(logic[w].uid)
      BY <1>2, <1>4, <2>2, BusyType
    <3>. QED BY <1>2, <3>1, <3>2, AtKept DEF LoginInv, regVars
  <2>. QED BY <2>1, <2>2
<1>. QED BY <1>5, <1>8 DEF LoginInv

LEMMA CoreExpireRegistration ==
    ASSUME TypeOK, RegInv, LoginInv, OneLiveLogin,
           Faults \subseteq Handled, NEW u \in Uid, ExpireRegistration(u)
    PROVE  RegInv' /\ LoginInv' /\ OneLiveLogin'
<1>1. /\ \A v \in Server : ~Live(v, u) /\ ~InLogicSection(v, u)
      /\ UNCHANGED <<sessions, userMgr, kicks, clean, logic>>
  BY NoUnhandled DEF ExpireRegistration, Unhandled, tableVars
<1>2. \A x \in UidKey : x # u => uip'[x] = uip[x] /\ usession'[x] = usession[x]
  BY DEF ExpireRegistration, TypeOK
<1>3. \A x : NoNewLive(x)
  BY <1>1 DEF NoNewLive, Live
<1>4. RegInv'
  BY <1>1, <1>2 DEF RegInv, Leaving, Live, UidKey
<1>5. ASSUME NEW w \in Server PROVE LoginAt(w)'
  <2>1. logic[w].pc \in {"setsess", "bind"} => logic[w].uid # u /\ logic[w].uid \in UidKey
    BY <1>1, BusyType DEF InLogicSection, LogicSection
  <2>. QED BY <1>1, <1>2, <1>3, <2>1, AtKept DEF LoginInv
<1>. QED BY <1>3, <1>4, <1>5, OneKept DEF LoginInv

-----------------------------------------------------------------------------
(* The inductive invariant and what follows from it.                        *)

LEMMA IInvInit == Init => IInv
<1> SUFFICES ASSUME Init PROVE IInv
  OBVIOUS
<1>1. TypeOK /\ HostInv /\ LockInv /\ CleanInv
  BY LockedInit DEF LockedInv
<1>3. \A u \in Uid, v \in Server : ~Live(v, u)
  BY DEF Init, Live
<1>4. RegInv /\ LoginInv /\ OneLiveLogin
  BY <1>3 DEF Init, RegInv, LoginInv, LoginAt, OneLiveLogin, IdleLogic
<1>. QED BY <1>1, <1>4 DEF IInv

LEMMA IInvStep ==
    ASSUME Faults \subseteq Handled, IInv, [Next]_vars
    PROVE  IInv'
<1>1. TypeOK' /\ HostInv' /\ LockInv' /\ CleanInv'
  BY HandledLocks, LockedStep DEF IInv, LockedInv
<1>2. ASSUME NEW u \in UidKey, ExpireLock(u) PROVE RegInv' /\ LoginInv' /\ OneLiveLogin'
  BY <1>2, QuietCore DEF ExpireLock, IInv, tableVars
<1>3. ASSUME UNCHANGED vars PROVE RegInv' /\ LoginInv' /\ OneLiveLogin'
  <2>1. UNCHANGED <<sessions, userMgr, regVars, kicks, logic, clean>>
    BY <1>3 DEF vars, tableVars
  <2>. QED BY <2>1, QuietCore DEF IInv
<1>4. RegInv' /\ LoginInv' /\ OneLiveLogin'
  BY <1>1, <1>2, <1>3, CoreLogin, CoreClean, CoreConn, CoreServer, CoreKick,
     CoreExpireRegistration
     DEF Next, IInv
<1>. QED BY <1>1, <1>4 DEF IInv

\* IInv holds in every reachable state if only the failures in Handled happen: crashes,
\* write errors, bad frames, heartbeat timeouts and repeated logins.
THEOREM IInvCorrect == Faults \subseteq Handled => (Spec => []IInv)
<1> SUFFICES ASSUME Faults \subseteq Handled PROVE Spec => []IInv
  OBVIOUS
<1>1. Init => IInv
  BY IInvInit
<1>2. IInv /\ [Next]_vars => IInv'
  BY IInvStep
<1>. QED BY <1>1, <1>2, PTL DEF Spec

\* No two servers of the cluster have the same user live: what the distributed lock, the
\* kick and the registration of LoginHandler achieve together, whatever fails in Handled.
THEOREM OneLiveLoginCorrect == Faults \subseteq Handled => (Spec => []OneLiveLogin)
<1> SUFFICES ASSUME Faults \subseteq Handled PROVE Spec => []OneLiveLogin
  OBVIOUS
<1>1. Spec => []IInv
  BY IInvCorrect
<1>2. IInv => OneLiveLogin
  BY DEF IInv
<1>. QED BY <1>1, <1>2, PTL

LEMMA RegisteredIfFree == IInv => RegisteredWhereLive
<1> SUFFICES ASSUME IInv, NEW u \in Uid, NEW v \in Server, Live(v, u), lock[u] = None
             PROVE  uip[u] = v /\ usession[u] = userMgr[v][u]
  BY DEF RegisteredWhereLive
<1>1. ~Leaving(v, u)
  BY OwnerDistinct DEF IInv, LockInv, Leaving, CleanSection
<1>. QED BY <1>1 DEF IInv, RegInv

\* While nobody holds the user's lock, uip_<uid> and usession_<uid> are those of the live
\* login: the cleanup of an older session never leaves an online user unregistered.
THEOREM RegisteredWhereLiveCorrect ==
    Faults \subseteq Handled => (Spec => []RegisteredWhereLive)
<1> SUFFICES ASSUME Faults \subseteq Handled PROVE Spec => []RegisteredWhereLive
  OBVIOUS
<1>1. Spec => []IInv
  BY IInvCorrect
<1>. QED BY <1>1, RegisteredIfFree, PTL

\* Of all steps only the end of a registration's TTL removes the keys of a live login
\* with an open connection.
LEMMA OnlineStep ==
    ASSUME "reg_expiry" \notin Faults, LockedInv, [Next]_vars, NEW u \in Uid, NEW v \in Server,
           Live(v, u), conn[userMgr[v][u]] = "open",
           uip[u] = v, usession[u] = userMgr[v][u]
    PROVE  uip'[u] # None /\ usession'[u] # None
<1>1. userMgr[v][u] # None /\ v # None
  BY LiveType, NoneAssumption DEF LockedInv
<1>2. ASSUME NEW w \in Server, LoginStep(w) PROVE uip'[u] # None /\ usession'[u] # None
  <2>1. CASE LoginSetIp(w)
    <3>1. uip' = [uip EXCEPT ![logic[w].uid] = w] /\ UNCHANGED usession
      BY <2>1 DEF LoginSetIp
    <3>2. w # None
      BY NoneAssumption
    <3>. QED BY <1>1, <3>1, <3>2 DEF LockedInv, TypeOK
  <2>2. CASE LoginSetSession(w)
    <3>1. usession' = [usession EXCEPT ![logic[w].uid] = logic[w].sess] /\ UNCHANGED uip
      BY <2>2 DEF LoginSetSession
    <3>2. logic[w].sess # None
      BY <2>2, BusyType, NoneAssumption DEF LockedInv, LoginSetSession
    <3>. QED BY <1>1, <3>1, <3>2 DEF LockedInv, TypeOK
  <2>3. CASE ~LoginSetIp(w) /\ ~LoginSetSession(w)
    <3>1. UNCHANGED regVars
      BY <1>2, <2>3 DEF LoginStep, LoginReject, LoginBegin, LoginAcquire, LoginCheck,
                        LoginLookupOld, LoginClearOld, LoginKicked, LoginBind, LoginRelease
    <3>. QED BY <1>1, <3>1 DEF regVars
  <2>. QED BY <2>1, <2>2, <2>3
<1>3. ASSUME NEW c \in Cleaner, CleanStep(c) PROVE uip'[u] # None /\ usession'[u] # None
  <2>1. CASE CleanDelSession(c) \/ CleanDelIp(c)
    <3>1. clean[c].pc \in {"delsess", "delip"}
      BY <2>1 DEF CleanDelSession, CleanDelIp
    <3>2. clean[c].uid # u
      BY <1>1, <3>1 DEF LockedInv, CleanInv
    <3>3. u \in UidKey
      BY DEF UidKey
    <3>4. uip'[u] = uip[u] /\ usession'[u] = usession[u]
      BY <2>1, <3>2, <3>3 DEF CleanDelSession, CleanDelIp, LockedInv, TypeOK
    <3>. QED BY <1>1, <3>4
  <2>2. CASE ~CleanDelSession(c) /\ ~CleanDelIp(c)
    BY <1>1, <1>3, <2>2 DEF CleanStep, CleanAcquire, CleanCheck, CleanClear, CleanRelease,
                            regVars
  <2>. QED BY <2>1, <2>2
<1>4. ASSUME NEW x \in Uid, ExpireRegistration(x) PROVE uip'[u] # None /\ usession'[u] # None
  <2>1. x # u
    BY <1>4 DEF ExpireRegistration
  <2>2. u \in UidKey
    BY DEF UidKey
  <2>3. uip'[u] = uip[u] /\ usession'[u] = usession[u]
    BY <1>4, <2>1, <2>2 DEF ExpireRegistration, LockedInv, TypeOK
  <2>. QED BY <1>1, <2>3
<1>5. ASSUME UNCHANGED regVars PROVE uip'[u] # None /\ usession'[u] # None
  BY <1>1, <1>5 DEF regVars
<1>6. ASSUME NEW s \in Session, ConnStep(s) PROVE UNCHANGED regVars
  BY <1>6 DEF ConnStep, Accept, TimerCleanup, RecvLogin, ReadError, WriteError, BadFrame
<1>7. ASSUME NEW w \in Server, ServerStep(w) PROVE UNCHANGED regVars
  BY <1>7 DEF ServerStep, Insert, Crash, TimerScan
<1>8. ASSUME NEW k \in kicks, KickStep(k) PROVE UNCHANGED regVars
  BY <1>8 DEF KickStep, KickLookup, KickClear, KickLost
<1>9. CASE UNCHANGED vars \/ \E x \in UidKey : ExpireLock(x)
  BY <1>5, <1>9 DEF vars, ExpireLock
<1>. QED BY <1>2, <1>3, <1>4, <1>5, <1>6, <1>7, <1>8, <1>9 DEF Next

\* A cleanup never deletes the registration of a live login whose connection is open:
\* the comparison of usession_<uid> with the session being cleaned up, under the lock,
\* is enough, also when kicks are lost and the user is live twice.  Only the keys' own
\* TTL and a lock that its holder does not hold are excluded.
THEOREM OnlineStaysRegisteredCorrect ==
    LocksHold /\ "reg_expiry" \notin Faults => (Spec => OnlineStaysRegistered)
<1> SUFFICES ASSUME LocksHold, "reg_expiry" \notin Faults
             PROVE  Spec => OnlineStaysRegistered
  OBVIOUS
<1>1. Spec => []LockedInv
  BY CleanupsUpToDate
<1>2. LockedInv /\ [Next]_vars =>
        [\A u \in Uid, v \in Server :
            (/\ Live(v, u) /\ conn[userMgr[v][u]] = "open"
             /\ uip[u] = v /\ usession[u] = userMgr[v][u])
                => uip'[u] # None /\ usession'[u] # None]_vars
  BY OnlineStep
<1>. QED BY <1>1, <1>2, PTL DEF Spec, OnlineStaysRegistered

-----------------------------------------------------------------------------
(* The refinement of Seat.                                                  *)

\* Only LoginBind makes a user live.
LEMMA LiveStep ==
    ASSUME IInv, TypeOK', [Next]_vars, NEW u \in Uid
    PROVE  NoNewLive(u) \/ \E v \in Server : LoginBind(v)
<1>1. ASSUME UNCHANGED <<sessions, userMgr>> \/ \E v, s : ClearSession(v, s)
      PROVE  NoNewLive(u)
  <2>1. CASE UNCHANGED <<sessions, userMgr>>
    BY <2>1 DEF NoNewLive, Live
  <2>2. CASE \E v, s : ClearSession(v, s)
    BY <2>2, ClearShrinks, NoNewLiveShrinks DEF IInv
  <2>. QED BY <1>1, <2>1, <2>2
<1>2. ASSUME NEW v \in Server, LoginStep(v) PROVE NoNewLive(u) \/ LoginBind(v)
  <2>1. \/ LoginBind(v)
        \/ UNCHANGED <<sessions, userMgr>>
        \/ ClearSession(v, logic[v].old)
    BY <1>2 DEF LoginStep, LoginReject, LoginBegin, LoginAcquire, LoginCheck, LoginLookupOld,
                LoginClearOld, LoginKicked, LoginSetIp, LoginSetSession, LoginRelease, tableVars
  <2>. QED BY <1>1, <2>1
<1>3. ASSUME NEW c \in Cleaner, CleanStep(c) PROVE NoNewLive(u)
  <2>1. UNCHANGED <<sessions, userMgr>> \/ ClearSession(host[Of(c)], Of(c))
    BY <1>3 DEF CleanStep, CleanAcquire, CleanCheck, CleanDelSession, CleanDelIp, CleanClear,
                CleanRelease, tableVars
  <2>. QED BY <1>1, <2>1
<1>4. ASSUME NEW s \in Session, ConnStep(s) PROVE NoNewLive(u)
  <2>1. UNCHANGED <<sessions, userMgr>> \/ ClearSession(host[s], s)
    BY <1>4 DEF ConnStep, Accept, TimerCleanup, RecvLogin, ReadError, WriteError, BadFrame,
                tableVars
  <2>. QED BY <1>1, <2>1
<1>5. ASSUME NEW k \in kicks, KickStep(k) PROVE NoNewLive(u)
  <2>1. UNCHANGED <<sessions, userMgr>> \/ ClearSession(k.to, k.sess)
    BY <1>5 DEF KickStep, KickLookup, KickClear, KickLost, tableVars
  <2>. QED BY <1>1, <2>1
<1>6. ASSUME NEW v \in Server, ServerStep(v) PROVE NoNewLive(u)
  <2>1. CASE Insert(v)
    <3>1. /\ UNCHANGED userMgr
          /\ \A w \in Server : \A s \in sessions'[w] : s \in sessions[w] \/ s = accepting[w]
      BY <2>1 DEF Insert, IInv, TypeOK
    <3>2. \A w \in Server : userMgr[w][u] # None => userMgr[w][u] # accepting[w]
      BY DEF IInv, HostInv, HostTables, Knows
    <3>3. \A w \in Server : Live(w, u)' => userMgr[w][u] # None
      BY <3>1, NoneAssumption DEF Live, TypeOK
    <3>. QED BY <3>1, <3>2, <3>3 DEF NoNewLive, Live
  <2>2. CASE Crash(v)
    <3>1. /\ sessions'[v] = {}
          /\ \A w \in Server : w # v => sessions'[w] = sessions[w] /\ userMgr'[w] = userMgr[w]
      BY <2>2 DEF Crash, IInv, TypeOK
    <3>. QED BY <3>1 DEF NoNewLive, Live
  <2>3. CASE \E E \in SUBSET sessions[v] : TimerScan(v, E)
    BY <1>1, <2>3 DEF TimerScan, tableVars
  <2>. QED BY <1>6, <2>1, <2>2, <2>3 DEF ServerStep
<1>7. CASE \/ UNCHANGED vars
           \/ \E x \in UidKey : ExpireLock(x)
           \/ \E x \in Uid : ExpireRegistration(x)
  <2>1. UNCHANGED <<sessions, userMgr>>
    BY <1>7 DEF vars, tableVars, ExpireLock, ExpireRegistration
  <2>. QED BY <1>1, <2>1
<1>. QED BY <1>2, <1>3, <1>4, <1>5, <1>6, <1>7 DEF Next

\* seat maps a user to the session of its live login.
SeatIsLive ==
    \A u \in Uid : /\ \A v \in Server : Live(v, u) => seat[u] = userMgr[v][u]
                   /\ (\A v \in Server : ~Live(v, u)) => seat[u] = None

LEMMA SeatOf == OneLiveLogin => SeatIsLive
<1> SUFFICES ASSUME OneLiveLogin, NEW u \in Uid
             PROVE  /\ \A v \in Server : Live(v, u) => seat[u] = userMgr[v][u]
                    /\ (\A v \in Server : ~Live(v, u)) => seat[u] = None
  BY DEF SeatIsLive
<1>1. ASSUME NEW v \in Server, Live(v, u) PROVE seat[u] = userMgr[v][u]
  <2> DEFINE w == CHOOSE w \in Server : Live(w, u)
  <2>1. w \in Server /\ Live(w, u)
    BY <1>1
  <2>2. w = v
    BY <1>1, <2>1 DEF OneLiveLogin
  <2>. QED BY <1>1, <2>2 DEF seat
<1>2. ASSUME \A v \in Server : ~Live(v, u) PROVE seat[u] = None
  BY <1>2 DEF seat
<1>. QED BY <1>1, <1>2

LEMMA SeatStep ==
    ASSUME IInv, IInv', [Next]_vars
    PROVE  [Seats!Next]_seat
<1>1. OneLiveLogin /\ OneLiveLogin' /\ TypeOK'
  BY DEF IInv
<1>2. seat = [u \in Uid |-> seat[u]] /\ seat' = [u \in Uid |-> seat'[u]]
  BY DEF seat
<1>b. SeatIsLive /\ SeatIsLive'
  BY <1>1, SeatOf, PTL
<1>a. \A u \in Uid :
         /\ \A v \in Server : Live(v, u)' => seat'[u] = userMgr'[v][u]
         /\ (\A v \in Server : ~Live(v, u)') => seat'[u] = None
  BY <1>b DEF SeatIsLive, Live
<1>3. ASSUME NEW u \in Uid, NoNewLive(u) PROVE seat'[u] \in {seat[u], None}
  <2>1. CASE \E v \in Server : Live(v, u)'
    <3>1. PICK v \in Server : Live(v, u)'
      BY <2>1
    <3>2. Live(v, u) /\ userMgr'[v][u] = userMgr[v][u]
      BY <1>3, <3>1 DEF NoNewLive
    <3>3. seat[u] = userMgr[v][u]
      BY <1>b, <3>2 DEF SeatIsLive
    <3>. QED BY <1>a, <3>1, <3>2, <3>3
  <2>2. CASE \A v \in Server : ~Live(v, u)'
    BY <1>a, <2>2
  <2>. QED BY <2>1, <2>2
<1>4. CASE \A u \in Uid : NoNewLive(u)
  <2> DEFINE U == {u \in Uid : seat'[u] = None}
  <2>1. \A u \in Uid : seat'[u] = IF u \in U THEN None ELSE seat[u]
    BY <1>3, <1>4
  <2>2. seat' = [u \in Uid |-> IF u \in U THEN None ELSE seat[u]]
    BY <1>2, <2>1
  <2>. QED BY <2>2 DEF Seats!Next, Seats!Leave
<1>5. ASSUME NEW v \in Server, LoginBind(v) PROVE [Seats!Next]_seat
  <2> PICK u \in Uid : u = logic[v].uid
    BY <1>5, BusyType DEF LoginBind, IInv
  <2> PICK s \in Session : s = logic[v].sess
    BY <1>5, BusyType DEF LoginBind, IInv
  <2>1. /\ userMgr' = [userMgr EXCEPT ![v][u] = s]
        /\ UNCHANGED sessions
        /\ logic[v].pc = "bind"
    BY <1>5 DEF LoginBind
  <2>2. \A w \in Server : ~Live(w, u)
    BY <2>1 DEF IInv, LoginInv, LoginAt
  <2>3. seat[u] = None
    BY <1>b, <2>2 DEF SeatIsLive
  <2>4. \A w \in Server, x \in Uid : x # u \/ w # v => userMgr'[w][x] = userMgr[w][x]
    BY <2>1 DEF IInv, TypeOK
  <2>5. userMgr'[v][u] = s
    BY <2>1 DEF IInv, TypeOK
  <2>6. ASSUME NEW x \in Uid, x # u PROVE seat'[x] = seat[x]
    <3>1. \A w \in Server : (Live(w, x)' <=> Live(w, x)) /\ userMgr'[w][x] = userMgr[w][x]
      BY <2>1, <2>4, <2>6 DEF Live
    <3>2. CASE \E w \in Server : Live(w, x)
      <4>1. PICK w \in Server : Live(w, x)
        BY <3>2
      <4>2. seat[x] = userMgr[w][x]
        BY <1>b, <4>1 DEF SeatIsLive
      <4>3. seat'[x] = userMgr'[w][x]
        BY <1>a, <3>1, <4>1
      <4>. QED BY <3>1, <4>2, <4>3
    <3>3. CASE \A w \in Server : ~Live(w, x)
      <4>1. seat[x] = None
        BY <1>b, <3>3 DEF SeatIsLive
      <4>2. seat'[x] = None
        BY <1>a, <3>1, <3>3
      <4>. QED BY <4>1, <4>2
    <3>. QED BY <3>2, <3>3
  <2>7. CASE Live(v, u)'
    <3>1. seat'[u] = s
      BY <1>a, <2>5, <2>7
    <3>2. seat' = [seat EXCEPT ![u] = s]
      BY <1>2, <2>6, <3>1
    <3>. QED BY <2>3, <3>2 DEF Seats!Next, Seats!Take
  <2>8. CASE ~Live(v, u)'
    <3>1. \A w \in Server : ~Live(w, u)'
      BY <2>1, <2>2, <2>4, <2>8 DEF Live
    <3>2. seat'[u] = seat[u]
      BY <1>a, <2>3, <3>1
    <3>. QED BY <1>2, <2>6, <3>2
  <2>. QED BY <2>7, <2>8
<1>. QED BY <1>1, <1>4, <1>5, LiveStep

\* The login protocol implements Seat: a user's seat is empty before another session
\* takes it, so a login never takes over from a session that is still served.
THEOREM SeatCorrect == Faults \subseteq Handled => (Spec => SeatSpec)
<1> SUFFICES ASSUME Faults \subseteq Handled PROVE Spec => SeatSpec
  OBVIOUS
<1>1. Init => Seats!Init
  <2>1. Init => \A u \in Uid, v \in Server : ~Live(v, u)
    BY DEF Init, Live
  <2>. QED BY <2>1 DEF Seats!Init, seat
<1>2. Spec => []IInv
  BY IInvCorrect
<1>3. IInv /\ IInv' /\ [Next]_vars => [Seats!Next]_seat
  BY SeatStep
<1>. QED BY <1>1, <1>2, <1>3, PTL DEF Spec, SeatSpec, Seats!Spec
=============================================================================
