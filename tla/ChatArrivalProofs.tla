------------------------- MODULE ChatArrivalProofs -------------------------
(***************************************************************************)
(* Text messages for every number of servers, users and messages, second   *)
(* part: every variable keeps its type; for an addressee whom one other    *)
(* user writes to, nothing that is saved is skipped by the offline pull    *)
(* and nothing that is acknowledged is missing once he is online, under    *)
(* the failures each allows for; and whatever fails, a user has one seat.  *)
(***************************************************************************)
EXTENDS ChatDeliveryProofs, WellFoundedInduction

-----------------------------------------------------------------------------
(* The greatest number of a batch.                                          *)

LEMMA LeastNat ==
    ASSUME NEW T \in SUBSET Nat, T # {}
    PROVE  \E x \in T : \A y \in T : x <= y
<1>1. PICK x \in T : \A y \in T : ~(<<y, x>> \in OpToRel(<, Nat))
  BY NatLessThanWellFounded, WFMin
<1>2. \A y \in T : ~(y < x)
  BY <1>1 DEF OpToRel
<1>. QED BY <1>2

LEMMA GreatestInt ==
    ASSUME NEW S \in SUBSET Int, S # {}, NEW n \in Int, \A s \in S : s <= n
    PROVE  \E m \in S : \A s \in S : s <= m
<1> DEFINE T == {k \in Nat : n - k \in S}
<1>1. T \in SUBSET Nat /\ T # {}
  <2>1. PICK s \in S : TRUE
    OBVIOUS
  <2>2. n - s \in Nat /\ n - (n - s) = s
    BY <2>1
  <2>. QED BY <2>1, <2>2
<1>. HIDE DEF T
<1>2. PICK x \in T : \A y \in T : x <= y
  BY <1>1, LeastNat
<1>3. n - x \in S /\ x \in Nat
  BY <1>2 DEF T
<1>4. ASSUME NEW s \in S PROVE s <= n - x
  <2>1. n - s \in Nat /\ n - (n - s) = s
    OBVIOUS
  <2>2. n - s \in T
    BY <2>1 DEF T
  <2>. QED BY <1>2, <1>3, <2>1, <2>2
<1>. QED BY <1>3, <1>4

\* There is always a number that no row exceeds, so every batch has a greatest one.
Bounded == \E n \in Nat : \A r \in messages : r.seq <= n

LEMMA MaxSeqRow ==
    ASSUME messages \subseteq Row, Bounded, NEW B \in SUBSET messages, B # {}
    PROVE  /\ MaxSeq(B) \in Int
           /\ \E b \in B : b.seq = MaxSeq(B)
           /\ \A r \in B : r.seq <= MaxSeq(B)
<1> DEFINE S == {r.seq : r \in B}
<1>1. PICK n \in Nat : \A r \in messages : r.seq <= n
  BY DEF Bounded
<1>2. S \in SUBSET Int /\ S # {} /\ \A s \in S : s <= n
  BY <1>1 DEF Row
<1>. HIDE DEF S
<1>3. \E m \in S : \A s \in S : s <= m
  BY <1>2, GreatestInt
<1>4. \E m \in S : \A r \in B : r.seq <= m
  BY <1>3 DEF S
<1>5. MaxSeq(B) \in S /\ \A r \in B : r.seq <= MaxSeq(B)
  BY <1>4 DEF MaxSeq, S
<1>6. \E b \in B : b.seq = MaxSeq(B)
  BY <1>5 DEF S
<1>. QED BY <1>2, <1>5, <1>6

LEMMA BoundedInit == Init => Bounded
<1> SUFFICES ASSUME Init PROVE Bounded
  OBVIOUS
<1>1. 0 \in Nat /\ messages = {}
  BY DEF Init
<1>. QED BY <1>1 DEF Bounded

LEMMA BoundedNext == StoreInv /\ Bounded /\ [Next]_vars => Bounded'
<1> SUFFICES ASSUME StoreInv, Bounded, [Next]_vars PROVE Bounded'
  OBVIOUS
<1>1. CASE UNCHANGED messages
  BY <1>1 DEF Bounded
<1>2. ASSUME NEW v \in Server, logic[v].pc = "save", logic[v].num # None, messages' = Inserted(logic[v])
      PROVE  Bounded'
  <2> DEFINE l == logic[v]
  <2>1. PICK n \in Nat : \A r \in messages : r.seq <= n
    BY DEF Bounded
  <2>2. /\ l.num \in Int
        /\ \A r \in messages' : r \in messages \/
             r = [id |-> Head(l.todo), from |-> l.from, to |-> l.to, seq |-> l.num]
    BY <1>2, InsertedRow
  <2>3. \A r \in messages : r.seq \in Int
    BY DEF StoreInv, Types, Row
  <2>4. PICK k \in Nat : n <= k /\ l.num <= k
    <3>1. CASE l.num <= n
      BY <3>1, <2>2
    <3>2. CASE n < l.num
      BY <3>2, <2>2
    <3>. QED BY <2>2, <3>1, <3>2
  <2>5. \A r \in messages' : r \in messages \/ r.seq = l.num
    BY <2>2
  <2>. HIDE DEF l
  <2>6. \A r \in messages' : r.seq <= k
    BY <2>1, <2>2, <2>3, <2>4, <2>5
  <2>. QED BY <2>6 DEF Bounded
<1>3. ASSUME NEW v \in Server, DealSave(v) PROVE Bounded'
  BY <1>1, <1>2, <1>3 DEF DealSave
<1>4. ASSUME NEW v \in Server, LoginStep(v) \/ Crash(v) PROVE UNCHANGED messages
  BY <1>4 DEF LoginStep, LoginBegin, LoginKick, LoginSetIp, LoginBind, LoginPull, LoginCursor,
       Crash, dbVars
<1>5. ASSUME NEW v \in Server, DealStep(v) PROVE UNCHANGED messages \/ DealSave(v)
  BY <1>5 DEF DealStep, DealBegin, DealIncr, DealLookup, DealPush, DealReply, dbVars
<1>6. ASSUME NEW u \in User, SessionStep(u) PROVE UNCHANGED messages
  BY <1>6 DEF SessionStep, Drop, Unregister, Unbind, RegLapse, dbVars
<1>7. ASSUME NEW r \in rpcs, RpcServe(r) \/ RpcLost(r) PROVE UNCHANGED messages
  BY <1>7 DEF RpcServe, RpcLost, dbVars
<1>8. CASE UNCHANGED vars
  BY <1>1, <1>8 DEF vars, dbVars
<1>. QED BY <1>1, <1>3, <1>4, <1>5, <1>6, <1>7, <1>8 DEF Next
-----------------------------------------------------------------------------
(* Types.                                                                   *)

Jobs == {Idle} \cup Login \cup Deal

\* What StoreInv leaves open.
RestTypes ==
    /\ cursor  \in [User -> Int]
    /\ up      \in [User -> BOOLEAN]
    /\ leaving \subseteq User
    /\ logic   \in [Server -> Jobs]
    /\ left    \in [User -> SUBSET Msg]
    /\ faults  \in Profiles

LEMMA JobKinds ==
    ASSUME NEW l \in Jobs
    PROVE  /\ l.pc \in {"idle", "kick", "setip", "bind", "pull", "cursor", "save", "push", "rpc"}
           /\ IsLogin(l) => ~IsDeal(l) /\ l \in Login /\ l.user \in User
           /\ IsDeal(l) => ~IsLogin(l) /\ l \in Deal /\ l.from \in User /\ l.to \in User
           /\ l.pc = "idle" => l = Idle
           /\ l.pc = "cursor" => l.max \in Int
  BY DEF Jobs, Idle, Login, Deal, IsLogin, IsDeal

LEMMA IdleJob == Idle \in Jobs /\ ~IsLogin(Idle) /\ ~IsDeal(Idle) /\ Idle.pc = "idle"
  BY DEF Jobs, Idle, IsLogin, IsDeal

\* The login of l goes on to pc.
LEMMA LoginGoto ==
    ASSUME RestTypes, NEW v \in Server, logic[v].pc \in {"kick", "setip", "bind"},
           NEW pc \in {"setip", "bind", "pull"}, LogicGoto(v, pc)
    PROVE  /\ logic' \in [Server -> Jobs]
           /\ IsLogin(logic'[v]) /\ logic'[v].pc = pc /\ logic'[v].user = logic[v].user
           /\ IsLogin(logic[v]) /\ logic[v].user \in User
           /\ \A w \in Server : w # v => logic'[w] = logic[w]
<1> DEFINE l == [logic[v] EXCEPT !.pc = pc]
<1>1. logic[v] \in Jobs
  BY DEF RestTypes
<1>2. logic[v] \in [pc: {"kick", "setip", "bind", "pull"}, user: User]
  BY <1>1 DEF Jobs, Idle, Login, Deal
<1>3. l \in [pc: {"kick", "setip", "bind", "pull"}, user: User] /\ l.pc = pc /\ l.user = logic[v].user
  BY <1>2
<1>4. l \in Jobs /\ IsLogin(l) /\ IsLogin(logic[v])
  BY <1>3 DEF Jobs, Login, IsLogin
<1>5. logic' = [logic EXCEPT ![v] = l]
  BY DEF LogicGoto, RestTypes
<1>. HIDE DEF l
<1>. QED BY <1>2, <1>3, <1>4, <1>5 DEF RestTypes

\* The request of l goes on to pc.
LEMMA DealGoto ==
    ASSUME RestTypes, NEW v \in Server, IsDeal(logic[v]), NEW pc \in DealPc, LogicGoto(v, pc)
    PROVE  /\ logic' \in [Server -> Jobs]
           /\ IsDeal(logic'[v]) /\ logic'[v].pc = pc /\ logic'[v].from = logic[v].from
           /\ logic'[v].to = logic[v].to /\ logic'[v].saved = logic[v].saved
           /\ \A w \in Server : w # v => logic'[w] = logic[w]
<1> DEFINE l == [logic[v] EXCEPT !.pc = pc]
<1>1. logic[v] \in Deal
  BY JobKinds DEF RestTypes
<1>2. /\ l \in Deal /\ l.pc = pc /\ l.from = logic[v].from /\ l.to = logic[v].to
      /\ l.saved = logic[v].saved
  BY <1>1 DEF Deal, DealPc
<1>3. l \in Jobs /\ IsDeal(l)
  BY <1>2 DEF Jobs, IsDeal, DealPc
<1>4. logic' = [logic EXCEPT ![v] = l]
  BY DEF LogicGoto, RestTypes
<1>. HIDE DEF l
<1>. QED BY <1>2, <1>3, <1>4 DEF RestTypes

LEMMA JobSet ==
    ASSUME RestTypes, NEW v \in Server, NEW l \in Jobs, logic' = [logic EXCEPT ![v] = l]
    PROVE  /\ logic' \in [Server -> Jobs] /\ logic'[v] = l
           /\ \A w \in Server : w # v => logic'[w] = logic[w]
  BY DEF RestTypes

\* A login that has pulled.
LEMMA PullEffect ==
    ASSUME StoreInv, RestTypes, Bounded, NEW v \in Server, LoginPull(v)
    PROVE  /\ IsLogin(logic[v]) /\ logic[v].user \in User
           /\ logic' \in [Server -> Jobs]
           /\ \A w \in Server : w # v => logic'[w] = logic[w]
           /\ \/ logic'[v] = Idle
              \/ /\ IsLogin(logic'[v]) /\ logic'[v].pc = "cursor"
                 /\ logic'[v].user = logic[v].user
           /\ left' \in [User -> SUBSET Msg]
<1> DEFINE u == logic[v].user
<1>1. IsLogin(logic[v]) /\ u \in User
  BY JobKinds DEF RestTypes, LoginPull, IsLogin
<1>2. messages \subseteq Row
  BY DEF StoreInv, Types
<1>3. CASE logic' = [logic EXCEPT ![v] = Idle] /\ UNCHANGED left
  BY <1>1, <1>3, IdleJob, JobSet DEF RestTypes
<1>4. ASSUME NEW B \in FirstOf(Unread(u)), left' = [left EXCEPT ![u] = Ids(Unread(u) \ B)],
             logic' = [logic EXCEPT ![v] = IF B = {} THEN Idle
                         ELSE [pc |-> "cursor", user |-> u, max |-> MaxSeq(B)]]
      PROVE  /\ logic' \in [Server -> Jobs] /\ left' \in [User -> SUBSET Msg]
             /\ \A w \in Server : w # v => logic'[w] = logic[w]
             /\ logic'[v] = Idle \/ (IsLogin(logic'[v]) /\ logic'[v].pc = "cursor" /\ logic'[v].user = u)
  <2>1. left' \in [User -> SUBSET Msg]
    <3>1. Ids(Unread(u) \ B) \in SUBSET Msg
      BY <1>2 DEF Ids, Unread, Row
    <3>. QED BY <1>4, <3>1 DEF RestTypes
  <2>2. CASE B = {}
    <3>1. logic' = [logic EXCEPT ![v] = Idle]
      BY <1>4, <2>2
    <3>. QED BY <2>1, <3>1, IdleJob, JobSet
  <2>3. CASE B # {}
    <3> DEFINE l == [pc |-> "cursor", user |-> u, max |-> MaxSeq(B)]
    <3>1. B \in SUBSET messages
      BY DEF FirstOf, Unread
    <3>2. MaxSeq(B) \in Int
      BY <1>2, <2>3, <3>1, MaxSeqRow
    <3>3. l \in Jobs /\ IsLogin(l) /\ l.pc = "cursor" /\ l.user = u
      BY <1>1, <3>2 DEF Jobs, Login, IsLogin
    <3>4. logic' = [logic EXCEPT ![v] = l]
      BY <1>4, <2>3
    <3>. HIDE DEF l
    <3>. QED BY <2>1, <3>3, <3>4, JobSet
  <2>. QED BY <2>2, <2>3
<1>. QED BY <1>1, <1>3, <1>4 DEF LoginPull

\* A request that has got its number.
LEMMA IncrEffect ==
    ASSUME StoreInv, RestTypes, NEW v \in Server, DealIncr(v)
    PROVE  /\ IsDeal(logic[v]) /\ IsDeal(logic'[v]) /\ logic' \in [Server -> Jobs]
           /\ \A w \in Server : w # v => logic'[w] = logic[w]
           /\ logic'[v].pc = "save" /\ logic'[v].from = logic[v].from /\ logic'[v].to = logic[v].to
           /\ \/ logic'[v].num = seq[ConvOf(v)] + 1
              \/ "incr_fail" \in faults
<1>1. logic[v].pc = "save" /\ IsDeal(logic[v]) /\ logic[v] \in Deal /\ JobOK(logic[v])
  BY DealJob DEF DealIncr, IsDeal
<1>2. ASSUME NEW n \in Int, logic' = [logic EXCEPT ![v].num = n]
      PROVE  /\ IsDeal(logic'[v]) /\ logic' \in [Server -> Jobs]
             /\ \A w \in Server : w # v => logic'[w] = logic[w]
             /\ logic'[v].pc = "save" /\ logic'[v].from = logic[v].from /\ logic'[v].to = logic[v].to
             /\ logic'[v].num = n
  <2> DEFINE l == [logic[v] EXCEPT !.num = n]
  <2>1. l \in Deal /\ l.pc = "save" /\ l.from = logic[v].from /\ l.to = logic[v].to /\ l.num = n
    BY <1>1 DEF Deal
  <2>2. logic' = [logic EXCEPT ![v] = l] /\ l \in Jobs /\ IsDeal(l)
    BY <1>2, <2>1 DEF RestTypes, Jobs, IsDeal
  <2>. HIDE DEF l
  <2>. QED BY <2>1, <2>2, JobSet
<1>3. seq[ConvOf(v)] + 1 \in Int /\ -1 \in Int
  <2>1. ConvOf(v) \in Conv
    <3>1. <<logic[v].from, logic[v].to>> \in Talk
      BY <1>1 DEF JobOK
    <3>. QED BY <3>1 DEF ConvOf, Conv
  <2>2. seq[ConvOf(v)] \in Nat
    BY <2>1 DEF StoreInv, Types
  <2>. QED BY <2>2
<1>. QED BY <1>1, <1>2, <1>3 DEF DealIncr

\* A request one of whose messages is saved.
LEMMA SaveEffect ==
    ASSUME StoreInv, RestTypes, NEW v \in Server, DealSave(v)
    PROVE  /\ IsDeal(logic[v]) /\ logic' \in [Server -> Jobs] /\ ~Holds(logic'[v])
           /\ \A w \in Server : w # v => logic'[w] = logic[w]
           /\ \/ logic'[v] = Idle
              \/ /\ IsDeal(logic'[v]) /\ logic'[v].from = logic[v].from /\ logic'[v].pc = "save"
<1>1. logic[v].pc = "save" /\ logic[v].num # None /\ IsDeal(logic[v]) /\ JobOK(logic[v]) /\ logic[v] \in Deal
  BY DealJob DEF DealSave, IsDeal
<1>2. CASE logic' = [logic EXCEPT ![v] = Idle]
  BY <1>1, <1>2, IdleJob, IdleHolds, JobSet
<1>3. CASE logic' = [logic EXCEPT ![v] = SavedOne(@)]
  <2> DEFINE l == logic[v]
             m == SavedOne(l)
  <2>1. l.todo # <<>> /\ l.todo \in Seq(Msg) /\ l.saved \in SUBSET Msg
    BY <1>1 DEF JobOK, Deal
  <2>2. Head(l.todo) \in Msg /\ Tail(l.todo) \in Seq(Msg)
    BY <2>1
  <2>3. m \in Deal /\ m.pc = "save" /\ m.from = l.from /\ m.num = None
    BY <1>1, <2>1, <2>2 DEF SavedOne, Deal
  <2>4. logic' = [logic EXCEPT ![v] = m] /\ m \in Jobs /\ IsDeal(m) /\ ~Holds(m)
    BY <1>3, <2>3 DEF RestTypes, Jobs, IsDeal, Holds
  <2>. HIDE DEF m
  <2>. QED BY <1>1, <2>3, <2>4, JobSet
<1>. QED BY <1>2, <1>3 DEF DealSave

\* A new request.
LEMMA BeginEffect ==
    ASSUME RestTypes, NEW v \in Server, NEW p \in Talk, DealBegin(v, p[1], p[2])
    PROVE  /\ logic[v] = Idle /\ IsDeal(logic'[v]) /\ logic'[v].pc = "save" /\ logic'[v].from = p[1]
           /\ ~Holds(logic'[v]) /\ logic' \in [Server -> Jobs]
           /\ \A w \in Server : w # v => logic'[w] = logic[w]
<1> DEFINE f == p[1]
           t == p[2]
<1>1. PICK k \in 1 .. MaxBatch : \E todo \in [1 .. k -> Texts(f, t)] :
        logic' = [logic EXCEPT ![v] = [pc |-> "save", from |-> f, to |-> t,
                                       todo |-> todo, saved |-> {}, num |-> None]]
  BY DEF DealBegin
<1>2. PICK todo \in [1 .. k -> Texts(f, t)] :
        logic' = [logic EXCEPT ![v] = [pc |-> "save", from |-> f, to |-> t,
                                       todo |-> todo, saved |-> {}, num |-> None]]
  BY <1>1
<1> DEFINE l == [pc |-> "save", from |-> f, to |-> t, todo |-> todo, saved |-> {}, num |-> None]
<1>3. f \in User /\ t \in User
  BY TalkAssumption
<1>4. k \in Nat /\ todo \in [1 .. k -> Msg] /\ todo \in Seq(Msg)
  BY BoundAssumption DEF Texts
<1>5. l \in Deal /\ l.pc = "save" /\ l.from = f /\ l.num = None
  BY <1>3, <1>4 DEF Deal
<1>6. l \in Jobs /\ IsDeal(l) /\ ~Holds(l)
  BY <1>5 DEF Jobs, IsDeal, Holds
<1>7. logic' = [logic EXCEPT ![v] = l] /\ logic[v] = Idle
  BY <1>2 DEF DealBegin
<1>. HIDE DEF l
<1>. QED BY <1>5, <1>6, <1>7, JobSet

\* A new login.
LEMMA LoginBeginEffect ==
    ASSUME RestTypes, NEW v \in Server, NEW u \in User, LoginBegin(v, u)
    PROVE  /\ logic[v] = Idle /\ IsLogin(logic'[v]) /\ logic'[v].pc = "kick" /\ logic'[v].user = u
           /\ logic' \in [Server -> Jobs]
           /\ \A w \in Server : w # v => logic'[w] = logic[w]
<1> DEFINE l == [pc |-> "kick", user |-> u]
<1>1. l \in Jobs /\ IsLogin(l) /\ l.pc = "kick" /\ l.user = u
  BY DEF Jobs, Login, IsLogin
<1>2. logic' = [logic EXCEPT ![v] = l] /\ logic[v] = Idle
  BY DEF LoginBegin
<1>. HIDE DEF l
<1>. QED BY <1>1, <1>2, JobSet

\* A login, a request or a process that ends.
LEMMA EndEffect ==
    ASSUME RestTypes, NEW v \in Server, logic' = [logic EXCEPT ![v] = Idle]
    PROVE  /\ logic' \in [Server -> Jobs] /\ logic'[v] = Idle
           /\ \A w \in Server : w # v => logic'[w] = logic[w]
  BY IdleJob, JobSet

LEMMA LookupEffect ==
    ASSUME RestTypes, NEW v \in Server, DealLookup(v)
    PROVE  /\ IsDeal(logic[v]) /\ logic' \in [Server -> Jobs]
           /\ \A w \in Server : w # v => logic'[w] = logic[w]
           /\ \/ logic'[v] = Idle
              \/ /\ IsDeal(logic'[v]) /\ logic'[v].from = logic[v].from
                 /\ logic'[v].to = logic[v].to /\ logic'[v].saved = logic[v].saved
                 /\ logic'[v].pc \in {"push", "rpc"}
<1>1. IsDeal(logic[v])
  BY DEF DealLookup, IsDeal
<1>2. CASE DealEnd(v)
  BY <1>1, <1>2, EndEffect DEF DealEnd
<1>3. ASSUME NEW pc \in {"push", "rpc"}, LogicGoto(v, pc)
      PROVE  /\ logic' \in [Server -> Jobs] /\ \A w \in Server : w # v => logic'[w] = logic[w]
             /\ IsDeal(logic'[v]) /\ logic'[v].from = logic[v].from /\ logic'[v].pc \in {"push", "rpc"}
             /\ logic'[v].to = logic[v].to /\ logic'[v].saved = logic[v].saved
  BY <1>1, <1>3, DealGoto DEF DealPc
<1>. QED BY <1>1, <1>2, <1>3 DEF DealLookup

LEMMA RestInit == Init => RestTypes
  BY IdleJob DEF Init, RestTypes

LEMMA RestNext == StoreInv /\ RestTypes /\ Bounded /\ [Next]_vars => RestTypes'
<1> SUFFICES ASSUME StoreInv, RestTypes, Bounded, [Next]_vars PROVE RestTypes'
  OBVIOUS
<1>0. faults' = faults /\ \A v \in Server : logic[v] \in Jobs
  BY DEF Next, vars, RestTypes
<1>1. ASSUME NEW v \in Server, LoginStep(v) PROVE RestTypes'
  <2>1. ASSUME NEW u \in User, LoginBegin(v, u) PROVE RestTypes'
    BY <1>0, <2>1, LoginBeginEffect DEF LoginBegin, onlineVars, clientVars, RestTypes
  <2>2. CASE LoginKick(v)
    BY <1>0, <2>2, LoginGoto DEF LoginKick, clientVars, RestTypes
  <2>3. CASE LoginSetIp(v)
    BY <1>0, <2>3, LoginGoto DEF LoginSetIp, clientVars, RestTypes
  <2>4. CASE LoginBind(v)
    BY <1>0, <2>4, LoginGoto DEF LoginBind, clientVars, RestTypes
  <2>5. CASE LoginPull(v)
    BY <1>0, <2>5, PullEffect DEF LoginPull, onlineVars, RestTypes
  <2>6. CASE LoginCursor(v)
    <3>1. logic' \in [Server -> Jobs]
      BY <2>6, EndEffect DEF LoginCursor
    <3>2. cursor' \in [User -> Int]
      <4>1. logic[v].max \in Int
        BY <1>0, <2>6, JobKinds DEF LoginCursor
      <4>. QED BY <2>6, <4>1 DEF LoginCursor, RestTypes
    <3>. QED BY <1>0, <2>6, <3>1, <3>2 DEF LoginCursor, onlineVars, clientVars, RestTypes
  <2>. QED BY <1>1, <2>1, <2>2, <2>3, <2>4, <2>5, <2>6 DEF LoginStep
<1>2. ASSUME NEW v \in Server, DealStep(v) PROVE RestTypes'
  <2>1. UNCHANGED <<cursor, up, leaving, left>>
    BY <1>2 DEF DealStep, DealBegin, DealIncr, DealSave, DealLookup, DealPush, DealReply, onlineVars,
         clientVars
  <2>2. logic' \in [Server -> Jobs]
    <3>1. ASSUME NEW p \in Talk, DealBegin(v, p[1], p[2]) PROVE logic' \in [Server -> Jobs]
      BY <3>1, BeginEffect
    <3>2. CASE DealPush(v) \/ DealReply(v)
      BY <3>2, EndEffect DEF DealPush, DealReply, DealEnd
    <3>. QED BY <1>2, <3>1, <3>2, IncrEffect, SaveEffect, LookupEffect DEF DealStep
  <2>. QED BY <1>0, <2>1, <2>2 DEF RestTypes
<1>3. ASSUME NEW v \in Server, Crash(v) PROVE RestTypes'
  <2>1. logic' \in [Server -> Jobs]
    BY <1>3, EndEffect DEF Crash
  <2>2. up' \in [User -> BOOLEAN] /\ leaving' \subseteq User /\ UNCHANGED <<cursor, left>>
    BY <1>3 DEF Crash, clientVars, RestTypes
  <2>. QED BY <1>0, <2>1, <2>2 DEF RestTypes
<1>4. ASSUME NEW u \in User, SessionStep(u) PROVE RestTypes'
  BY <1>0, <1>4 DEF SessionStep, Drop, Unregister, Unbind, RegLapse, clientVars, RestTypes
<1>5. ASSUME NEW r \in rpcs, RpcServe(r) \/ RpcLost(r) PROVE RestTypes'
  BY <1>0, <1>5 DEF RpcServe, RpcLost, onlineVars, clientVars, RestTypes
<1>6. CASE UNCHANGED vars
  BY <1>6 DEF vars, onlineVars, clientVars, RestTypes
<1>. QED BY <1>1, <1>2, <1>3, <1>4, <1>5, <1>6 DEF Next

\* For any servers, users, messages and failures every variable keeps its type: the
\* logic thread is in one of the two handlers, at one of its places, or idle.
THEOREM ChatTypeCorrect == Spec => []TypeOK
<1>1. StoreInv /\ RestTypes => TypeOK
  BY DEF StoreInv, Types, RestTypes, TypeOK, Jobs
<1>. QED BY <1>1, StoreInit, StoreNext, BoundedInit, BoundedNext, RestInit, RestNext, PTL DEF Spec
-----------------------------------------------------------------------------
(* Sessions: a user is in one login, or has one session, or leaves it.      *)

LoginOnce == \A v, w \in Server :
    v # w /\ IsLogin(logic[v]) /\ IsLogin(logic[w]) => logic[v].user # logic[w].user

\* How far a login has come shows in the registration and in the UserMgr.
LoginPlace == \A v \in Server : IsLogin(logic[v]) =>
    LET l == logic[v] IN
      /\ l.user \notin leaving
      /\ l.pc \in {"setip", "bind"} => bound[l.user] = None
      /\ l.pc \in {"bind", "pull", "cursor"} => reg[l.user] = v
      /\ l.pc \in {"pull", "cursor"} => bound[l.user] = v
      /\ l.pc = "pull" /\ "early_drop" \notin faults => up[l.user]

\* uip_<uid> leads to the session of a user until its cleanup begins.
Registered == \A u \in User : bound[u] # None /\ u \notin leaving => reg[u] = bound[u]

\* A user has one request under way, and does not log in meanwhile: what a sender does
\* that does not overtake itself.
SenderStays == "overtake" \notin faults => \A v \in Server : IsDeal(logic[v]) =>
    ~InLogin(logic[v].from) /\ bound[logic[v].from] \in {v, None}

SendsOnce == "overtake" \notin faults => \A v, w \in Server :
    v # w /\ IsDeal(logic[v]) /\ IsDeal(logic[w]) => logic[v].from # logic[w].from

\* The sessions, whatever fails.
SessionInv == LoginOnce /\ LoginPlace /\ Registered /\ SenderStays /\ SendsOnce

\* The logic thread ends what it does, goes on with the request, or from the pull of a
\* login to its cursor.
Quiet(l, m) ==
    \/ m = l
    \/ m = Idle
    \/ IsDeal(l) /\ IsDeal(m) /\ m.from = l.from
    \/ IsLogin(l) /\ IsLogin(m) /\ l.pc = "pull" /\ m.pc = "cursor" /\ m.user = l.user

LEMMA QuietJob ==
    ASSUME NEW l \in Jobs, NEW m \in Jobs, Quiet(l, m)
    PROVE  /\ IsLogin(m) => /\ IsLogin(l) /\ m.user = l.user
                            /\ m.pc = l.pc \/ (l.pc = "pull" /\ m.pc = "cursor")
           /\ IsDeal(m) => IsDeal(l) /\ m.from = l.from
  BY IdleJob, JobKinds DEF Quiet

LEMMA SessionQuiet ==
    ASSUME RestTypes, logic' \in [Server -> Jobs], SessionInv, UNCHANGED onlineVars, faults' = faults,
           \A w \in Server : Quiet(logic[w], logic'[w])
    PROVE  SessionInv'
<1>0. UNCHANGED <<reg, bound, up, leaving>>
  BY DEF onlineVars
<1>1. \A w \in Server :
        /\ IsLogin(logic'[w]) => /\ IsLogin(logic[w]) /\ logic'[w].user = logic[w].user
                                 /\ \/ logic'[w].pc = logic[w].pc
                                    \/ logic[w].pc = "pull" /\ logic'[w].pc = "cursor"
        /\ IsDeal(logic'[w]) => IsDeal(logic[w]) /\ logic'[w].from = logic[w].from
  <2> SUFFICES ASSUME NEW w \in Server
               PROVE  /\ IsLogin(logic'[w]) => /\ IsLogin(logic[w]) /\ logic'[w].user = logic[w].user
                                               /\ \/ logic'[w].pc = logic[w].pc
                                                  \/ logic[w].pc = "pull" /\ logic'[w].pc = "cursor"
                      /\ IsDeal(logic'[w]) => IsDeal(logic[w]) /\ logic'[w].from = logic[w].from
    OBVIOUS
  <2>1. logic[w] \in Jobs /\ logic'[w] \in Jobs
    BY DEF RestTypes
  <2>. QED BY <2>1, QuietJob
<1>2. \A u : InLogin(u)' => InLogin(u)
  BY <1>1 DEF InLogin, IsLogin
<1>3. LoginOnce'
  BY <1>1 DEF SessionInv, LoginOnce, IsLogin
<1>4. LoginPlace'
  <2> SUFFICES ASSUME NEW v \in Server, IsLogin(logic'[v])
               PROVE  LET l == logic'[v] IN
                        /\ l.user \notin leaving
                        /\ l.pc \in {"setip", "bind"} => bound[l.user] = None
                        /\ l.pc \in {"bind", "pull", "cursor"} => reg[l.user] = v
                        /\ l.pc \in {"pull", "cursor"} => bound[l.user] = v
                        /\ l.pc = "pull" /\ "early_drop" \notin faults => up[l.user]
    BY <1>0 DEF LoginPlace, IsLogin
  <2>. QED BY <1>1 DEF SessionInv, LoginPlace
<1>5. Registered'
  BY <1>0 DEF SessionInv, Registered
<1>6. SenderStays'
  BY <1>0, <1>1, <1>2 DEF SessionInv, SenderStays, IsDeal
<1>7. SendsOnce'
  BY <1>1 DEF SessionInv, SendsOnce, IsDeal
<1>. QED BY <1>3, <1>4, <1>5, <1>6, <1>7 DEF SessionInv

LEMMA LoginSession ==
    ASSUME StoreInv, RestTypes, Bounded, SessionInv, faults' = faults,
           NEW v \in Server, LoginStep(v)
    PROVE  SessionInv'
<1>0. LoginOnce /\ LoginPlace /\ Registered /\ SenderStays /\ SendsOnce
  BY DEF SessionInv
<1>1. ASSUME NEW u \in User, LoginBegin(v, u) PROVE SessionInv'
  <2>1. /\ logic[v] = Idle /\ IsLogin(logic'[v]) /\ logic'[v].pc = "kick" /\ logic'[v].user = u
        /\ ~IsDeal(logic'[v]) /\ \A w \in Server : w # v => logic'[w] = logic[w]
    BY <1>1, LoginBeginEffect, JobKinds
  <2>2. /\ ~InLogin(u) /\ u \notin leaving
        /\ "overtake" \notin faults => \A w \in Server : IsDeal(logic[w]) => logic[w].from # u
        /\ UNCHANGED <<reg, bound, up, leaving>>
    BY <1>1 DEF LoginBegin, onlineVars
  <2>3. \A w \in Server : IsLogin(logic'[w]) => w = v \/ (IsLogin(logic[w]) /\ logic[w].user # u)
    BY <2>1, <2>2 DEF InLogin
  <2>4. LoginOnce'
    BY <1>0, <2>1, <2>3 DEF LoginOnce, IsLogin
  <2>5. LoginPlace'
    <3> SUFFICES ASSUME NEW w \in Server, IsLogin(logic'[w])
                 PROVE  LET l == logic'[w] IN
                          /\ l.user \notin leaving
                          /\ l.pc \in {"setip", "bind"} => bound[l.user] = None
                          /\ l.pc \in {"bind", "pull", "cursor"} => reg[l.user] = w
                          /\ l.pc \in {"pull", "cursor"} => bound[l.user] = w
                          /\ l.pc = "pull" /\ "early_drop" \notin faults => up[l.user]
      BY <2>2 DEF LoginPlace, IsLogin
    <3>1. CASE w = v
      BY <2>1, <2>2, <3>1
    <3>2. CASE w # v
      BY <1>0, <2>1, <3>2 DEF LoginPlace
    <3>. QED BY <3>1, <3>2
  <2>6. Registered'
    BY <1>0, <2>2 DEF Registered
  <2>7. SenderStays' /\ SendsOnce'
    <3>1. \A w \in Server : IsDeal(logic'[w]) => logic'[w] = logic[w] /\ IsDeal(logic[w])
      BY <2>1
    <3>2. \A x : InLogin(x)' => x = u \/ InLogin(x)
      BY <2>1 DEF InLogin, IsLogin
    <3>3. SendsOnce'
      BY <1>0, <3>1 DEF SendsOnce, IsDeal
    <3>4. SenderStays'
      BY <1>0, <2>2, <3>1, <3>2 DEF SenderStays, IsDeal
    <3>. QED BY <3>3, <3>4
  <2>. QED BY <2>4, <2>5, <2>6, <2>7 DEF SessionInv
<1>2. ASSUME LoginKick(v) \/ LoginSetIp(v) \/ LoginBind(v) PROVE SessionInv'
  <2> DEFINE u == logic[v].user
  <2>1. /\ IsLogin(logic[v]) /\ u \in User /\ IsLogin(logic'[v]) /\ logic'[v].user = u
        /\ logic'[v] \in Jobs /\ ~IsDeal(logic'[v])
        /\ logic[v].pc = "kick" => logic'[v].pc = "setip"
        /\ logic[v].pc = "setip" => logic'[v].pc = "bind"
        /\ logic[v].pc = "bind" => logic'[v].pc = "pull"
        /\ logic[v].pc \in {"kick", "setip", "bind"}
        /\ \A w \in Server : w # v => logic'[w] = logic[w]
    BY <1>2, LoginGoto, JobKinds DEF LoginKick, LoginSetIp, LoginBind
  <2>2. \A w \in User : w # u => reg'[w] = reg[w] /\ bound'[w] = bound[w] /\ up'[w] = up[w]
    BY <1>2 DEF LoginKick, LoginSetIp, LoginBind, StoreInv, Types, RestTypes
  <2>3. leaving' = leaving /\ u \notin leaving
    BY <1>0, <1>2, <2>1 DEF LoginKick, LoginSetIp, LoginBind, LoginPlace
  <2>4. /\ logic'[v].pc = "setip" => bound'[u] = None
        /\ logic'[v].pc = "bind" => reg'[u] = v /\ bound'[u] = None
        /\ logic'[v].pc = "pull" => reg'[u] = v /\ bound'[u] = v /\ up'[u]
    <3>1. CASE LoginKick(v)
      <4>1. bound'[u] = IF reg[u] = bound[u] THEN None ELSE bound[u]
        BY <2>1, <3>1 DEF LoginKick, StoreInv, Types
      <4>. QED BY <1>0, <2>1, <2>3, <3>1, <4>1 DEF Registered, LoginKick
    <3>2. CASE LoginSetIp(v)
      BY <1>0, <2>1, <3>2 DEF LoginSetIp, LoginPlace, StoreInv, Types
    <3>3. CASE LoginBind(v)
      BY <1>0, <2>1, <3>3 DEF LoginBind, LoginPlace, StoreInv, Types, RestTypes
    <3>. QED BY <1>2, <3>1, <3>2, <3>3
  <2>5. \A w \in Server : w # v /\ IsLogin(logic[w]) => logic[w].user # u /\ logic[w].user \in User
    BY <1>0, <2>1, JobKinds DEF LoginOnce, RestTypes
  <2>. HIDE DEF u
  <2>6. LoginOnce'
    BY <1>0, <2>1, <2>5 DEF LoginOnce, IsLogin
  <2>7. LoginPlace'
    <3> SUFFICES ASSUME NEW w \in Server, IsLogin(logic'[w])
                 PROVE  LET l == logic'[w] IN
                          /\ l.user \notin leaving'
                          /\ l.pc \in {"setip", "bind"} => bound'[l.user] = None
                          /\ l.pc \in {"bind", "pull", "cursor"} => reg'[l.user] = w
                          /\ l.pc \in {"pull", "cursor"} => bound'[l.user] = w
                          /\ l.pc = "pull" /\ "early_drop" \notin faults => up'[l.user]
      BY DEF LoginPlace, IsLogin
    <3>1. CASE w = v
      BY <2>1, <2>3, <2>4, <3>1
    <3>2. CASE w # v
      BY <1>0, <2>1, <2>2, <2>3, <2>5, <3>2 DEF LoginPlace
    <3>. QED BY <3>1, <3>2
  <2>8. Registered'
    <3> SUFFICES ASSUME NEW x \in User, bound'[x] # None, x \notin leaving' PROVE reg'[x] = bound'[x]
      BY DEF Registered
    <3>1. CASE x = u
      BY <2>1, <2>4, <3>1
    <3>2. CASE x # u
      BY <1>0, <2>2, <2>3, <3>2 DEF Registered
    <3>. QED BY <3>1, <3>2
  <2>9. \A w \in Server : IsDeal(logic'[w]) =>
          /\ logic'[w] = logic[w] /\ IsDeal(logic[w]) /\ logic[w].from \in User
          /\ "overtake" \notin faults => logic[w].from # u
    BY <1>0, <2>1, JobKinds DEF SenderStays, InLogin, RestTypes, u
  <2>10. \A x : InLogin(x)' => InLogin(x)
    BY <2>1 DEF InLogin, IsLogin, u
  <2>11. SendsOnce'
    BY <1>0, <2>9 DEF SendsOnce, IsDeal
  <2>12. SenderStays'
    BY <1>0, <2>2, <2>9, <2>10 DEF SenderStays, IsDeal
  <2>. QED BY <2>6, <2>7, <2>8, <2>11, <2>12 DEF SessionInv
<1>3. CASE LoginPull(v)
  <2>1. UNCHANGED onlineVars
    BY <1>3 DEF LoginPull
  <2>2. logic[v].pc = "pull"
    BY <1>3 DEF LoginPull
  <2>. QED BY <1>3, <2>1, <2>2, PullEffect, SessionQuiet DEF Quiet
<1>4. CASE LoginCursor(v)
  <2>1. UNCHANGED onlineVars /\ logic' = [logic EXCEPT ![v] = Idle]
    BY <1>4 DEF LoginCursor
  <2>. QED BY <2>1, EndEffect, SessionQuiet DEF Quiet
<1>. QED BY <1>1, <1>2, <1>3, <1>4 DEF LoginStep

\* A user whose session ends is in no login; the connection may be lost in one.
LEMMA EndSession ==
    ASSUME StoreInv, RestTypes, SessionInv, faults' = faults, NEW u \in User, SessionStep(u)
    PROVE  SessionInv'
<1>0. LoginOnce /\ LoginPlace /\ Registered /\ SenderStays /\ SendsOnce
  BY DEF SessionInv
<1>1. logic' = logic
  BY DEF SessionStep, Drop, Unregister, Unbind, RegLapse
<1>2. ~InLogin(u) \/ ("early_drop" \in faults /\ UNCHANGED <<reg, bound, leaving>>)
  BY <1>0 DEF SessionStep, Drop, Unregister, Unbind, RegLapse, InLogin, LoginPlace
<1>3. /\ \A w \in User : w # u => reg'[w] = reg[w] /\ bound'[w] = bound[w] /\ up'[w] = up[w]
      /\ \A w : w # u => (w \in leaving' <=> w \in leaving)
      /\ bound'[u] \in {bound[u], None}
  BY DEF SessionStep, Drop, Unregister, Unbind, RegLapse, StoreInv, Types, RestTypes
<1>4. bound'[u] # None /\ u \notin leaving' => reg'[u] = bound'[u]
  BY <1>0 DEF SessionStep, Drop, Unregister, Unbind, RegLapse, StoreInv, Types, Registered
<1>5. LoginOnce' /\ SendsOnce'
  BY <1>0, <1>1 DEF LoginOnce, SendsOnce
<1>6. LoginPlace'
  <2>1. CASE ~InLogin(u)
    <3>1. \A w \in Server : IsLogin(logic[w]) => logic[w].user # u /\ logic[w].user \in User
      BY <2>1, JobKinds DEF InLogin, RestTypes
    <3>. QED BY <1>0, <1>1, <1>3, <3>1 DEF LoginPlace
  <2>2. CASE "early_drop" \in faults /\ UNCHANGED <<reg, bound, leaving>>
    BY <1>0, <1>1, <2>2 DEF LoginPlace
  <2>. QED BY <1>2, <2>1, <2>2
<1>7. Registered'
  BY <1>0, <1>3, <1>4 DEF Registered
<1>8. SenderStays'
  <2>1. \A x : InLogin(x)' <=> InLogin(x)
    BY <1>1 DEF InLogin
  <2>2. \A w \in Server : IsDeal(logic[w]) => logic[w].from \in User
    BY JobKinds DEF RestTypes
  <2>. QED BY <1>0, <1>1, <1>3, <2>1, <2>2 DEF SenderStays
<1>. QED BY <1>5, <1>6, <1>7, <1>8 DEF SessionInv

LEMMA CrashSession ==
    ASSUME StoreInv, RestTypes, SessionInv, faults' = faults, NEW v \in Server, Crash(v)
    PROVE  SessionInv'
<1>0. LoginOnce /\ LoginPlace /\ Registered /\ SenderStays /\ SendsOnce
  BY DEF SessionInv
<1>1. logic'[v] = Idle /\ \A w \in Server : w # v => logic'[w] = logic[w]
  BY EndEffect DEF Crash
<1>2. /\ \A u \in User : /\ bound'[u] = IF bound[u] = v THEN None ELSE bound[u]
                         /\ up'[u] = (up[u] /\ bound[u] # v)
      /\ leaving' = {u \in leaving : bound[u] # v} /\ reg' = reg
  BY DEF Crash
<1>3. v # None
  BY NoneAssumption
<1>4. \A w \in Server : IsLogin(logic'[w]) \/ IsDeal(logic'[w]) => w # v /\ logic'[w] = logic[w]
  BY <1>1, IdleJob
<1>5. LoginOnce' /\ SendsOnce'
  <2>1. LoginOnce'
    BY <1>0, <1>4 DEF LoginOnce, IsLogin
  <2>2. SendsOnce'
    BY <1>0, <1>4 DEF SendsOnce, IsDeal
  <2>. QED BY <2>1, <2>2
<1>6. LoginPlace'
  <2> SUFFICES ASSUME NEW w \in Server, IsLogin(logic'[w])
               PROVE  LET l == logic'[w] IN
                        /\ l.user \notin leaving'
                        /\ l.pc \in {"setip", "bind"} => bound'[l.user] = None
                        /\ l.pc \in {"bind", "pull", "cursor"} => reg'[l.user] = w
                        /\ l.pc \in {"pull", "cursor"} => bound'[l.user] = w
                        /\ l.pc = "pull" /\ "early_drop" \notin faults => up'[l.user]
    BY DEF LoginPlace, IsLogin
  <2>1. w # v /\ logic'[w] = logic[w] /\ logic[w].user \in User
    BY <1>4, JobKinds DEF RestTypes
  <2> DEFINE x == logic[w].user
  <2>2. /\ x \notin leaving
        /\ logic[w].pc \in {"setip", "bind"} => bound[x] = None
        /\ logic[w].pc \in {"bind", "pull", "cursor"} => reg[x] = w
        /\ logic[w].pc \in {"pull", "cursor"} => bound[x] = w
        /\ logic[w].pc = "pull" /\ "early_drop" \notin faults => up[x]
    BY <1>0, <1>4 DEF LoginPlace
  <2>3. /\ x \notin leaving' /\ reg'[x] = reg[x]
        /\ bound'[x] = IF bound[x] = v THEN None ELSE bound[x]
        /\ up'[x] <=> up[x] /\ bound[x] # v
    BY <1>2, <2>1, <2>2
  <2>. HIDE DEF x
  <2>4. logic'[w].user = x /\ logic'[w].pc = logic[w].pc
    BY <2>1 DEF x
  <2>. QED BY <2>1, <2>2, <2>3, <2>4
<1>7. Registered'
  BY <1>0, <1>2, <1>3 DEF Registered, RestTypes
<1>8. SenderStays'
  <2>1. \A x : InLogin(x)' => InLogin(x)
    BY <1>4 DEF InLogin, IsLogin
  <2> SUFFICES ASSUME "overtake" \notin faults, NEW w \in Server, IsDeal(logic'[w])
               PROVE  ~InLogin(logic[w].from)' /\ bound'[logic'[w].from] \in {w, None}
    BY DEF SenderStays, IsDeal
  <2>2. w # v /\ logic'[w] = logic[w] /\ logic[w].from \in User
    BY <1>4, JobKinds DEF RestTypes
  <2>. QED BY <1>0, <1>2, <2>1, <2>2 DEF SenderStays
<1>. QED BY <1>5, <1>6, <1>7, <1>8 DEF SessionInv

LEMMA DealSession ==
    ASSUME StoreInv, RestTypes, SessionInv, faults' = faults, NEW v \in Server, DealStep(v)
    PROVE  SessionInv'
<1>0. LoginOnce /\ LoginPlace /\ Registered /\ SenderStays /\ SendsOnce
  BY DEF SessionInv
<1>1. UNCHANGED onlineVars
  BY DEF DealStep, DealBegin, DealIncr, DealSave, DealLookup, DealPush, DealReply
<1>2. ASSUME NEW p \in Talk, DealBegin(v, p[1], p[2]) PROVE SessionInv'
  <2>1. /\ logic[v] = Idle /\ IsDeal(logic'[v]) /\ ~IsLogin(logic'[v]) /\ logic'[v].from = p[1]
        /\ \A w \in Server : w # v => logic'[w] = logic[w]
    BY <1>2, BeginEffect, JobKinds
  <2>2. bound[p[1]] = v /\ ("overtake" \notin faults => ~InLogin(p[1])) /\ v # None
    BY <1>2, NoneAssumption DEF DealBegin
  <2>3. "overtake" \notin faults => \A w \in Server : w # v /\ IsDeal(logic[w]) => logic[w].from # p[1]
    BY <1>0, <2>2 DEF SenderStays
  <2>4. UNCHANGED <<reg, bound, up, leaving>>
    BY <1>1 DEF onlineVars
  <2>5. \A w \in Server : IsLogin(logic'[w]) => logic'[w] = logic[w]
    BY <2>1
  <2>6. \A x : InLogin(x)' => InLogin(x)
    BY <2>5 DEF InLogin, IsLogin
  <2>7. LoginOnce'
    BY <1>0, <2>5 DEF LoginOnce, IsLogin
  <2>8. LoginPlace'
    BY <1>0, <2>4, <2>5 DEF LoginPlace, IsLogin
  <2>9. Registered'
    BY <1>0, <2>4 DEF Registered
  <2>10. SenderStays'
    <3> SUFFICES ASSUME "overtake" \notin faults, NEW w \in Server, IsDeal(logic'[w])
                 PROVE  ~InLogin(logic[w].from)' /\ bound[logic'[w].from] \in {w, None}
      BY <2>4 DEF SenderStays, IsDeal
    <3>. QED BY <1>0, <2>1, <2>2, <2>6 DEF SenderStays
  <2>11. SendsOnce'
    BY <1>0, <2>1, <2>3 DEF SendsOnce, IsDeal
  <2>. QED BY <2>7, <2>8, <2>9, <2>10, <2>11 DEF SessionInv
<1>3. ASSUME logic' \in [Server -> Jobs], \A w \in Server : w # v => logic'[w] = logic[w],
             \/ logic'[v] = Idle
             \/ IsDeal(logic[v]) /\ IsDeal(logic'[v]) /\ logic'[v].from = logic[v].from
      PROVE  SessionInv'
  BY <1>1, <1>3, SessionQuiet DEF Quiet
<1>4. CASE DealPush(v) \/ DealReply(v)
  <2>1. logic' = [logic EXCEPT ![v] = Idle]
    BY <1>4 DEF DealPush, DealReply, DealEnd
  <2>. QED BY <1>3, <2>1, EndEffect
<1>. QED BY <1>2, <1>3, <1>4, IncrEffect, SaveEffect, LookupEffect DEF DealStep

LEMMA SessionInit == Init => SessionInv
  BY IdleJob DEF Init, SessionInv, LoginOnce, LoginPlace, Registered, SenderStays, SendsOnce

LEMMA SessionNext ==
    ASSUME StoreInv, RestTypes, Bounded, SessionInv, [Next]_vars
    PROVE  SessionInv'
<1>0. faults' = faults
  BY DEF Next, vars
<1>1. CASE UNCHANGED <<onlineVars, logic>>
  BY <1>0, <1>1, SessionQuiet DEF Quiet, RestTypes
<1>2. ASSUME NEW r \in rpcs, RpcServe(r) \/ RpcLost(r) PROVE UNCHANGED <<onlineVars, logic>>
  BY <1>2 DEF RpcServe, RpcLost
<1>3. CASE UNCHANGED vars
  BY <1>1, <1>3 DEF vars
<1>. QED BY <1>0, <1>1, <1>2, <1>3, LoginSession, DealSession, CrashSession, EndSession DEF Next
-----------------------------------------------------------------------------
(* Order: what is saved comes behind what was pulled.                       *)

\* The number a request holds is behind all that its user has saved for the addressee.
HeldNewest == \A v \in Server : Holds(logic[v]) =>
    \A r \in messages : r.from = logic[v].from /\ r.to = logic[v].to => r.seq < logic[v].num

\* A cursor, and the number it is about to get, is that of a row.
CursorRow == \A u \in User : cursor[u] = 0 \/ \E r \in messages : r.to = u /\ r.seq = cursor[u]

MaxRow == \A v \in Server : logic[v].pc = "cursor" =>
    \E r \in messages : r.to = logic[v].user /\ r.seq = logic[v].max

\* All up to the number the cursor is about to get has been received.
BatchGot == \A v \in Server : logic[v].pc = "cursor" /\ OneSender(logic[v].user) =>
    \A r \in messages : r.to = logic[v].user /\ r.seq <= logic[v].max => r.id \in got[r.to]

OrderInv == HeldNewest /\ CursorRow /\ MaxRow /\ BatchGot /\ NeverSkipped

LEMMA SameSender ==
    ASSUME NEW u, OneSender(u), NEW a, NEW b, <<a, u>> \in Talk, <<b, u>> \in Talk
    PROVE  a = b
<1> DEFINE p == <<a, u>>
           q == <<b, u>>
<1>1. p \in Talk /\ q \in Talk /\ p[1] = a /\ q[1] = b /\ p[2] = u /\ q[2] = u
  OBVIOUS
<1>. HIDE DEF p, q
<1>. QED BY <1>1 DEF OneSender

LEMMA RowTalk ==
    ASSUME StoreInv, NEW r \in messages
    PROVE  <<r.from, r.to>> \in Talk /\ r.to \in User /\ r.seq \in Int /\ r.id \in Msg
  BY DEF StoreInv, RowInv, Types, Row

\* Steps that save nothing and move no cursor.
LEMMA OrderTurn ==
    ASSUME StoreInv, OrderInv, faults \subseteq Deferring, UNCHANGED <<messages, cursor, faults>>,
           \A u \in User : got[u] \subseteq got'[u],
           \A w \in Server : Holds(logic'[w]) =>
             \/ logic'[w] = logic[w]
             \/ \A r \in messages : r.from = logic'[w].from /\ r.to = logic'[w].to =>
                  r.seq < logic'[w].num,
           \A w \in Server : logic'[w].pc = "cursor" =>
             \/ logic'[w] = logic[w]
             \/ /\ \E r \in messages : r.to = logic'[w].user /\ r.seq = logic'[w].max
                /\ OneSender(logic'[w].user) =>
                     \A r \in messages : r.to = logic'[w].user /\ r.seq <= logic'[w].max =>
                       r.id \in got'[r.to]
    PROVE  OrderInv'
<1>0. /\ HeldNewest /\ CursorRow /\ MaxRow /\ BatchGot /\ NeverSkipped
      /\ \A r \in messages : r.to \in User
  BY RowTalk DEF OrderInv
<1>1. HeldNewest'
  <2> SUFFICES ASSUME NEW w \in Server, Holds(logic'[w]), NEW r \in messages,
                      r.from = logic'[w].from, r.to = logic'[w].to
               PROVE  r.seq < logic'[w].num
    BY DEF HeldNewest, Holds
  <2>. QED BY <1>0 DEF HeldNewest
<1>2. CursorRow'
  BY <1>0 DEF CursorRow
<1>3. MaxRow'
  BY <1>0 DEF MaxRow
<1>4. BatchGot'
  <2> SUFFICES ASSUME NEW w \in Server, logic'[w].pc = "cursor", OneSender(logic'[w].user),
                      NEW r \in messages, r.to = logic'[w].user, r.seq <= logic'[w].max
               PROVE  r.id \in got'[r.to]
    BY DEF BatchGot, OneSender
  <2>1. CASE logic'[w] = logic[w]
    <3>1. r.id \in got[r.to]
      BY <1>0, <2>1 DEF BatchGot
    <3>. QED BY <1>0, <3>1
  <2>2. CASE logic'[w] # logic[w]
    BY <2>2
  <2>. QED BY <2>1, <2>2
<1>5. NeverSkipped'
  <2> SUFFICES ASSUME NEW r \in messages, OneSender(r.to)
               PROVE  r.id \in got'[r.to] \/ r.seq > cursor[r.to]
    BY DEF NeverSkipped, OneSender
  <2>. QED BY <1>0 DEF NeverSkipped
<1>. QED BY <1>1, <1>2, <1>3, <1>4, <1>5 DEF OrderInv

\* What the offline pull sends: all up to its greatest number has been received.
LEMMA PullOrder ==
    ASSUME StoreInv, NumInv, RestTypes, Bounded, SessionInv, OrderInv, faults \subseteq Deferring,
           faults' = faults, NEW v \in Server, LoginPull(v)
    PROVE  OrderInv'
<1> DEFINE u == logic[v].user
<1>0. /\ IsLogin(logic[v]) /\ u \in User /\ up[u]
      /\ \A w \in Server : w # v => logic'[w] = logic[w]
      /\ UNCHANGED <<messages, cursor>>
  <2>1. IsLogin(logic[v]) /\ u \in User /\ \A w \in Server : w # v => logic'[w] = logic[w]
    BY PullEffect
  <2>2. up[u]
    BY <2>1 DEF LoginPull, SessionInv, LoginPlace, Deferring, Handled
  <2>. QED BY <2>1, <2>2 DEF LoginPull, dbVars
<1>9. CASE logic' = [logic EXCEPT ![v] = Idle] /\ got' = got
  BY <1>0, <1>9, EndEffect, IdleHolds, IdleJob, OrderTurn
<1>1. SUFFICES ASSUME NEW B \in FirstOf(Unread(u)), Send(u, Ids(B)),
                      logic' = [logic EXCEPT ![v] = IF B = {} THEN Idle
                                  ELSE [pc |-> "cursor", user |-> u, max |-> MaxSeq(B)]]
               PROVE  OrderInv'
  BY <1>9 DEF LoginPull
<1>2. got'[u] = got[u] \cup Ids(B) /\ \A w \in User : w # u => got'[w] = got[w]
  BY <1>0, <1>1 DEF Send, StoreInv, Types
<1>3. \A w \in User : got[w] \subseteq got'[w]
  BY <1>2
<1>4. CASE B = {}
  <2>1. logic' = [logic EXCEPT ![v] = Idle]
    BY <1>1, <1>4
  <2>2. logic'[v] = Idle
    BY <2>1, EndEffect
  <2>. QED BY <1>0, <1>3, <2>2, IdleHolds, IdleJob, OrderTurn
<1>5. CASE B # {}
  <2> DEFINE l == [pc |-> "cursor", user |-> u, max |-> MaxSeq(B)]
  <2>1. logic'[v] = l
    <3>1. logic' = [logic EXCEPT ![v] = l]
      BY <1>1, <1>5
    <3>. HIDE DEF l
    <3>. QED BY <3>1 DEF RestTypes
  <2>2. l.pc = "cursor" /\ l.user = u /\ l.max = MaxSeq(B) /\ ~Holds(l)
    BY DEF Holds
  <2>. HIDE DEF l
  <2>3. B \in SUBSET messages /\ \A r \in B : r.to = u
    BY DEF FirstOf, Unread
  <2>4. PICK b \in B : b.seq = MaxSeq(B) /\ MaxSeq(B) \in Int
    BY <1>5, <2>3, MaxSeqRow DEF StoreInv, Types
  <2>5. ASSUME OneSender(u), NEW r \in messages, r.to = u, r.seq <= MaxSeq(B)
        PROVE  r.id \in got'[r.to]
    <3>0. r.seq \in Int /\ cursor[u] \in Int
      BY <1>0, RowTalk DEF RestTypes
    <3>1. CASE r.seq <= cursor[u]
      <4>1. r.id \in got[r.to]
        BY <2>5, <3>0, <3>1 DEF OrderInv, NeverSkipped
      <4>. QED BY <1>2, <2>5, <4>1
    <3>2. CASE r.seq > cursor[u] /\ r \in B
      BY <1>2, <2>5, <3>2 DEF Ids
    <3>3. CASE r.seq > cursor[u] /\ r \notin B
      <4>1. r \in Unread(u) \ B
        BY <2>5, <3>3 DEF Unread
      <4>2. b.seq <= r.seq
        BY <4>1 DEF FirstOf
      <4>3. b.seq = r.seq
        BY <2>4, <2>5, <3>0, <4>2
      <4>4. b.from = r.from /\ b.to = r.to
        <5>1. b \in messages /\ b.to = u
          BY <2>3
        <5>2. <<b.from, u>> \in Talk /\ <<r.from, u>> \in Talk
          BY <2>5, <5>1, RowTalk
        <5>. QED BY <2>5, <5>1, <5>2, SameSender
      <4>5. b = r
        BY <2>3, <4>3, <4>4 DEF NumInv, RowsDiffer, Both, Deferring, Handled
      <4>. QED BY <3>3, <4>5
    <3>. QED BY <3>0, <3>1, <3>2, <3>3
  <2>6. \A w \in Server : Holds(logic'[w]) => logic'[w] = logic[w]
    BY <1>0, <2>1, <2>2
  <2>7. ASSUME NEW w \in Server, logic'[w].pc = "cursor"
        PROVE  \/ logic'[w] = logic[w]
               \/ /\ \E r \in messages : r.to = logic'[w].user /\ r.seq = logic'[w].max
                  /\ OneSender(logic'[w].user) =>
                       \A r \in messages : r.to = logic'[w].user /\ r.seq <= logic'[w].max =>
                         r.id \in got'[r.to]
    <3>. HIDE DEF u
    <3>1. CASE w = v
      BY <2>1, <2>2, <2>3, <2>4, <2>5, <3>1
    <3>2. CASE w # v
      BY <1>0, <3>2
    <3>. QED BY <3>1, <3>2
  <2>. QED BY <1>0, <1>3, <2>6, <2>7, OrderTurn
<1>. QED BY <1>4, <1>5

\* The cursor moves behind what has been received.
LEMMA CursorOrder ==
    ASSUME StoreInv, RestTypes, OrderInv, faults \subseteq Deferring, faults' = faults,
           NEW v \in Server, LoginCursor(v)
    PROVE  OrderInv'
<1> DEFINE l == logic[v]
<1>0. /\ HeldNewest /\ CursorRow /\ MaxRow /\ BatchGot /\ NeverSkipped
      /\ UNCHANGED <<messages, got>> /\ l.pc = "cursor" /\ logic'[v] = Idle
      /\ \A w \in Server : w # v => logic'[w] = logic[w]
  BY EndEffect DEF OrderInv, LoginCursor, dbVars, clientVars
<1>1. CASE UNCHANGED cursor
  BY <1>0, <1>1, IdleHolds, IdleJob, OrderTurn
<1>2. CASE cursor' = [cursor EXCEPT ![l.user] = IF l.max > @ THEN l.max ELSE @]
  <2>0. logic[v] \in Jobs
    BY DEF RestTypes
  <2>1. l.user \in User /\ l.max \in Int
    BY <1>0, <2>0, JobKinds DEF IsLogin
  <2>2. /\ cursor'[l.user] = IF l.max > cursor[l.user] THEN l.max ELSE cursor[l.user]
        /\ \A u \in User : u # l.user => cursor'[u] = cursor[u]
    BY <1>2, <2>1 DEF RestTypes
  <2>3. \A w \in Server : Holds(logic'[w]) \/ logic'[w].pc = "cursor" => logic'[w] = logic[w]
    BY <1>0, IdleHolds, IdleJob
  <2>4. HeldNewest'
    BY <1>0, <2>3 DEF HeldNewest, Holds
  <2>5. MaxRow'
    BY <1>0, <2>3 DEF MaxRow
  <2>6. BatchGot'
    <3>1. \A u : OneSender(u)' <=> OneSender(u)
      BY DEF OneSender
    <3>. QED BY <1>0, <2>3, <3>1 DEF BatchGot, OneSender
  <2>7. CursorRow'
    <3> SUFFICES ASSUME NEW u \in User
                 PROVE  cursor'[u] = 0 \/ \E r \in messages : r.to = u /\ r.seq = cursor'[u]
      BY <1>0 DEF CursorRow
    <3>. QED BY <1>0, <2>2 DEF CursorRow, MaxRow
  <2>8. NeverSkipped'
    <3> SUFFICES ASSUME NEW r \in messages, OneSender(r.to)
                 PROVE  r.id \in got[r.to] \/ r.seq > cursor'[r.to]
      BY <1>0 DEF NeverSkipped, OneSender
    <3>1. r.to \in User /\ r.seq \in Int /\ cursor[r.to] \in Int
      BY RowTalk DEF RestTypes
    <3>2. r.id \in got[r.to] \/ r.seq > cursor[r.to]
      BY <1>0 DEF NeverSkipped
    <3>3. r.to = l.user /\ r.seq <= l.max => r.id \in got[r.to]
      BY <1>0 DEF BatchGot
    <3>. HIDE DEF l
    <3>4. CASE r.to = l.user
      BY <2>1, <2>2, <3>1, <3>2, <3>3, <3>4
    <3>5. CASE r.to # l.user
      BY <2>2, <3>1, <3>2, <3>5
    <3>. QED BY <3>4, <3>5
  <2>. QED BY <2>4, <2>5, <2>6, <2>7, <2>8 DEF OrderInv
<1>. QED BY <1>1, <1>2 DEF LoginCursor

\* A row is saved with the number its request holds, behind every cursor that it matters to.
LEMMA SaveOrder ==
    ASSUME StoreInv, NumInv, RestTypes, SessionInv, OrderInv, faults \subseteq Deferring,
           faults' = faults, NEW v \in Server, DealSave(v)
    PROVE  OrderInv'
<1> DEFINE l == logic[v]
<1>0. /\ HeldNewest /\ CursorRow /\ MaxRow /\ BatchGot /\ NeverSkipped
      /\ UNCHANGED <<cursor, got>> /\ l.pc = "save" /\ l.num # None /\ Holds(l) /\ ~Holds(logic'[v])
      /\ \A w \in Server : w # v => logic'[w] = logic[w]
      /\ logic'[v].pc # "cursor"
      /\ IsDeal(l)
  BY SaveEffect, IdleJob DEF OrderInv, DealSave, clientVars, IsDeal, Holds
<1>1. CASE UNCHANGED messages
  BY <1>0, <1>1, OrderTurn
<1>2. CASE messages' = Inserted(l)
  <2>1. /\ l.num \in Int /\ <<l.from, l.to>> \in Talk /\ messages \subseteq messages'
        /\ \A r \in messages' : r \in messages \/
             r = [id |-> Head(l.todo), from |-> l.from, to |-> l.to, seq |-> l.num]
    BY <1>0, <1>2, InsertedRow
  <2>2. \A r \in messages' : r \in messages \/ (r.from = l.from /\ r.to = l.to /\ r.seq = l.num)
    BY <2>1
  <2>3. l.num >= 1 /\ l.to \in User
    <3>1. l.num \in 1 .. seq[Both(l)] /\ l \in Deal
      BY <1>0, DealJob DEF NumInv, HeldNumbers, Deferring, Handled
    <3>. QED BY <3>1 DEF Deal
  <2>4. \A w \in Server : Holds(logic'[w]) \/ logic'[w].pc = "cursor" => w # v /\ logic'[w] = logic[w]
    BY <1>0
  <2>5. ASSUME NEW q \in messages, OneSender(l.to), q.to = l.to PROVE q.seq < l.num
    <3>1. <<q.from, l.to>> \in Talk
      BY <2>5, RowTalk
    <3>2. q.from = l.from
      BY <2>1, <2>5, <3>1, SameSender
    <3>. QED BY <1>0, <2>5, <3>2 DEF HeldNewest
  <2>6. HeldNewest'
    <3> SUFFICES ASSUME NEW w \in Server, Holds(logic'[w]), NEW r \in messages',
                        r.from = logic'[w].from, r.to = logic'[w].to
                 PROVE  r.seq < logic'[w].num
      BY DEF HeldNewest, Holds
    <3>1. w # v /\ logic'[w] = logic[w] /\ IsDeal(logic[w])
      BY <2>4 DEF Holds, IsDeal
    <3>2. logic[w].from # l.from
      BY <1>0, <3>1 DEF SessionInv, SendsOnce, Deferring, Handled
    <3>. QED BY <1>0, <2>2, <3>1, <3>2 DEF HeldNewest
  <2>7. CursorRow'
    BY <1>0, <2>1 DEF CursorRow
  <2>8. MaxRow'
    BY <1>0, <2>1, <2>4 DEF MaxRow
  <2>9. BatchGot'
    <3> SUFFICES ASSUME NEW w \in Server, logic'[w].pc = "cursor", OneSender(logic'[w].user),
                        NEW r \in messages', r.to = logic'[w].user, r.seq <= logic'[w].max
                 PROVE  r.id \in got[r.to]
      BY <1>0 DEF BatchGot, OneSender
    <3>1. logic'[w] = logic[w]
      BY <2>4
    <3>2. CASE r \in messages
      BY <1>0, <3>1, <3>2 DEF BatchGot
    <3>3. CASE r.from = l.from /\ r.to = l.to /\ r.seq = l.num
      <4>1. PICK q \in messages : q.to = logic[w].user /\ q.seq = logic[w].max
        BY <1>0, <3>1 DEF MaxRow
      <4>2. q.seq < l.num /\ q.seq \in Int
        BY <2>5, <3>1, <3>3, <4>1, RowTalk
      <4>3. l.num <= q.seq
        BY <3>1, <3>3, <4>1
      <4>. QED BY <2>1, <4>2, <4>3
    <3>. QED BY <2>2, <3>2, <3>3
  <2>10. NeverSkipped'
    <3> SUFFICES ASSUME NEW r \in messages', OneSender(r.to)
                 PROVE  r.id \in got[r.to] \/ r.seq > cursor[r.to]
      BY <1>0 DEF NeverSkipped, OneSender
    <3>1. CASE r \in messages
      BY <1>0, <3>1 DEF NeverSkipped
    <3>2. CASE r.from = l.from /\ r.to = l.to /\ r.seq = l.num
      <4>1. cursor[l.to] < l.num
        <5>1. CASE cursor[l.to] = 0
          BY <2>1, <2>3, <5>1
        <5>2. CASE \E q \in messages : q.to = l.to /\ q.seq = cursor[l.to]
          BY <2>5, <3>2, <5>2
        <5>. QED BY <1>0, <2>3, <5>1, <5>2 DEF CursorRow
      <4>2. cursor[l.to] \in Int
        BY <2>3 DEF RestTypes
      <4>. QED BY <2>1, <3>2, <4>1, <4>2
    <3>. QED BY <2>2, <3>1, <3>2
  <2>. QED BY <2>6, <2>7, <2>8, <2>9, <2>10 DEF OrderInv
<1>. QED BY <1>1, <1>2 DEF DealSave

\* Incr gives out a number behind all that are saved.
LEMMA IncrOrder ==
    ASSUME StoreInv, NumInv, RestTypes, OrderInv, faults \subseteq Deferring, faults' = faults,
           NEW v \in Server, DealIncr(v)
    PROVE  OrderInv'
<1>0. /\ logic'[v].num = seq[ConvOf(v)] + 1 /\ logic'[v].from = logic[v].from
      /\ logic'[v].to = logic[v].to /\ logic'[v].pc = "save"
      /\ \A w \in Server : w # v => logic'[w] = logic[w]
      /\ IsDeal(logic[v])
  BY IncrEffect DEF Deferring, Handled
<1>1. UNCHANGED <<messages, cursor, got>>
  BY DEF DealIncr, clientVars
<1>2. seq[ConvOf(v)] \in Nat
  <2>1. <<logic[v].from, logic[v].to>> \in Talk
    BY <1>0, DealJob DEF JobOK
  <2>2. ConvOf(v) \in Conv
    BY <2>1 DEF ConvOf, Conv
  <2>. QED BY <2>2 DEF StoreInv, Types
<1>3. ASSUME NEW r \in messages, r.from = logic'[v].from, r.to = logic'[v].to
      PROVE  r.seq < logic'[v].num
  <2>1. Both(r) = ConvOf(v)
    BY <1>0, <1>3 DEF Both, ConvOf
  <2>2. r.seq \in 1 .. seq[ConvOf(v)]
    BY <2>1 DEF NumInv, RowNumbers, Deferring, Handled
  <2>. QED BY <1>0, <1>2, <2>2
<1>. QED BY <1>0, <1>1, <1>3, OrderTurn

LEMMA OrderInit == Init => OrderInv
<1> SUFFICES ASSUME Init PROVE OrderInv
  OBVIOUS
<1>1. messages = {} /\ cursor = [u \in User |-> 0] /\ \A v \in Server : logic[v] = Idle
  BY DEF Init
<1>. QED BY <1>1, IdleHolds, IdleJob
     DEF OrderInv, HeldNewest, CursorRow, MaxRow, BatchGot, NeverSkipped

LEMMA SendGrows ==
    ASSUME StoreInv, NEW x \in User, NEW ids, Send(x, ids)
    PROVE  \A u \in User : got[u] \subseteq got'[u]
  BY DEF Send, StoreInv, Types

\* The order, as long as no more fails than what leaves a message to the next login.
LEMMA OrderNext ==
    ASSUME StoreInv, NumInv, RestTypes, Bounded, SessionInv, OrderInv, faults \subseteq Deferring,
           [Next]_vars
    PROVE  OrderInv'
<1>0. faults' = faults
  BY DEF Next, vars
<1>1. ASSUME NEW v \in Server, UNCHANGED <<messages, cursor>>,
             \A u \in User : got[u] \subseteq got'[u],
             logic'[v].pc # "cursor", ~Holds(logic'[v]), \A w \in Server : w # v => logic'[w] = logic[w]
      PROVE  OrderInv'
  BY <1>0, <1>1, OrderTurn
<1>2. ASSUME NEW v \in Server, LoginStep(v) PROVE OrderInv'
  <2>1. ASSUME NEW u \in User, LoginBegin(v, u) PROVE OrderInv'
    <3>1. UNCHANGED <<messages, cursor, got>>
      BY <2>1 DEF LoginBegin, dbVars, clientVars
    <3>. QED BY <1>1, <2>1, <3>1, LoginBeginEffect DEF Holds
  <2>2. CASE LoginKick(v) \/ LoginSetIp(v) \/ LoginBind(v)
    <3>1. UNCHANGED <<messages, cursor, got>>
      BY <2>2 DEF LoginKick, LoginSetIp, LoginBind, dbVars, clientVars
    <3>2. logic'[v].pc \in {"setip", "bind", "pull"} /\ \A w \in Server : w # v => logic'[w] = logic[w]
      BY <2>2, LoginGoto DEF LoginKick, LoginSetIp, LoginBind
    <3>. QED BY <1>1, <3>1, <3>2 DEF Holds
  <2>. QED BY <1>0, <1>2, <2>1, <2>2, PullOrder, CursorOrder DEF LoginStep
<1>3. ASSUME NEW v \in Server, DealStep(v) PROVE OrderInv'
  <2>1. ASSUME NEW p \in Talk, DealBegin(v, p[1], p[2]) PROVE OrderInv'
    <3>1. UNCHANGED <<messages, cursor, got>>
      BY <2>1 DEF DealBegin, dbVars
    <3>. QED BY <1>1, <2>1, <3>1, BeginEffect
  <2>2. CASE DealLookup(v)
    <3>1. UNCHANGED <<messages, cursor, got>>
      BY <2>2 DEF DealLookup, dbVars
    <3>2. logic'[v].pc \notin {"save", "cursor"} /\ \A w \in Server : w # v => logic'[w] = logic[w]
      BY <2>2, LookupEffect, IdleJob
    <3>. QED BY <1>1, <3>1, <3>2 DEF Holds
  <2>3. CASE DealPush(v) \/ DealReply(v)
    <3>1. UNCHANGED <<messages, cursor>> /\ logic' = [logic EXCEPT ![v] = Idle]
      BY <2>3 DEF DealPush, DealReply, DealEnd, dbVars
    <3>2. \A u \in User : got[u] \subseteq got'[u]
      <4>1. CASE DealPush(v)
        <5>1. logic[v] \in Jobs
          BY DEF RestTypes
        <5>2. logic[v].to \in User
          BY <4>1, <5>1, JobKinds DEF DealPush, IsDeal
        <5>. QED BY <4>1, <5>2, SendGrows DEF DealPush, Push
      <4>2. CASE DealReply(v)
        BY <4>2 DEF DealReply
      <4>. QED BY <2>3, <4>1, <4>2
    <3>. QED BY <1>1, <3>1, <3>2, EndEffect, IdleHolds, IdleJob
  <2>. QED BY <1>0, <1>3, <2>1, <2>2, <2>3, IncrOrder, SaveOrder DEF DealStep
<1>4. ASSUME NEW v \in Server, Crash(v) PROVE OrderInv'
  <2>1. UNCHANGED <<messages, cursor, got>> /\ logic' = [logic EXCEPT ![v] = Idle]
    BY <1>4 DEF Crash, dbVars, clientVars
  <2>. QED BY <1>1, <2>1, EndEffect, IdleHolds, IdleJob
<1>5. ASSUME UNCHANGED <<messages, cursor, logic>>, \A u \in User : got[u] \subseteq got'[u]
      PROVE  OrderInv'
  BY <1>0, <1>5, OrderTurn
<1>6. ASSUME NEW u \in User, SessionStep(u) PROVE OrderInv'
  <2>1. UNCHANGED <<messages, cursor, logic, got>>
    BY <1>6 DEF SessionStep, Drop, Unregister, Unbind, RegLapse, dbVars, clientVars
  <2>. QED BY <1>5, <2>1
<1>7. ASSUME NEW r \in rpcs, RpcServe(r) \/ RpcLost(r) PROVE OrderInv'
  <2>1. UNCHANGED <<messages, cursor, logic>>
    BY <1>7 DEF RpcServe, RpcLost, dbVars
  <2>2. \A u \in User : got[u] \subseteq got'[u]
    <3>1. r.user \in User
      BY DEF StoreInv, Types
    <3>2. CASE RpcServe(r)
      BY <3>1, <3>2, SendGrows DEF RpcServe, Push
    <3>3. CASE RpcLost(r)
      BY <3>3 DEF RpcLost, clientVars
    <3>. QED BY <1>7, <3>2, <3>3
  <2>. QED BY <1>5, <2>1, <2>2
<1>8. CASE UNCHANGED vars
  BY <1>5, <1>8 DEF vars, dbVars, clientVars
<1>. QED BY <1>2, <1>3, <1>4, <1>6, <1>7, <1>8 DEF Next
-----------------------------------------------------------------------------
(* What users with a session have seen.                                     *)

Pulling(l, u) == l.pc = "pull" /\ l.user = u

\* The session of u has pulled, and is neither lost nor being cleaned up.
Settled(u) == bound[u] # None /\ up[u] /\ u \notin leaving /\ \A v \in Server : ~Pulling(logic[v], u)

Seen(u, ids)    == Settled(u) => ids \subseteq got[u] \cup left[u]
Near(u, ids, v) == Settled(u) => bound[u] = v \/ ids \subseteq got[u] \cup left[u]

AckedAll == \A r \in messages : r.id \in acked /\ OneSender(r.to) => Seen(r.to, {r.id})

\* A push or a call goes where the addressee was; if the addressee has a session
\* elsewhere meanwhile, that one has pulled what is on its way.
PushNear == \A v \in Server : logic[v].pc = "push" /\ OneSender(logic[v].to) =>
    Near(logic[v].to, logic[v].saved, v)

CallNear == \A r \in rpcs : OneSender(r.user) => Near(r.user, r.ids, r.to)

Calling(v, r) == r.from = v /\ r.user = logic[v].to /\ r.ids = logic[v].saved

CallOut == \A v \in Server : logic[v].pc = "rpc" /\ OneSender(logic[v].to) =>
    (\E r \in rpcs : Calling(v, r)) \/ Seen(logic[v].to, logic[v].saved)

SeenInv == AckedAll /\ PushNear /\ CallNear /\ CallOut

\* A session that has pulled stays the one it is and keeps what it has; one that has
\* just pulled has all that was saved.
Steady(u) == Settled(u)' =>
    \/ Settled(u) /\ bound'[u] = bound[u] /\ got[u] \cup left[u] \subseteq got'[u] \cup left'[u]
    \/ Saved(u) \subseteq got'[u] \cup left'[u]

LEMMA SeenStays ==
    ASSUME NEW u, Steady(u), NEW ids, ids \subseteq Saved(u)
    PROVE  /\ Seen(u, ids) => Seen(u, ids)'
           /\ \A v : Near(u, ids, v) => Near(u, ids, v)'
<1>1. ASSUME Seen(u, ids) PROVE Seen(u, ids)'
  <2>1. ASSUME Settled(u)' PROVE ids \subseteq got'[u] \cup left'[u]
    BY <1>1, <2>1 DEF Steady, Seen
  <2>. QED BY <2>1 DEF Seen
<1>2. ASSUME NEW v, Near(u, ids, v) PROVE Near(u, ids, v)'
  <2>1. ASSUME Settled(u)' PROVE bound'[u] = v \/ ids \subseteq got'[u] \cup left'[u]
    BY <1>2, <2>1 DEF Steady, Near
  <2>. QED BY <2>1 DEF Near
<1>. QED BY <1>1, <1>2

\* What is pushed to the session of u is seen, or was pulled by the one that replaced it.
LEMMA PushSeen ==
    ASSUME StoreInv, NEW u \in User, Steady(u), NEW ids, ids \subseteq Saved(u), NEW v,
           Near(u, ids, v), Push(v, u, ids), left' = left
    PROVE  Seen(u, ids)'
<1> SUFFICES ASSUME Settled(u)' PROVE ids \subseteq got'[u] \cup left'[u]
  BY DEF Seen
<1>1. CASE Saved(u) \subseteq got'[u] \cup left'[u]
  BY <1>1
<1>2. CASE Settled(u) /\ bound[u] = v
  <2>1. got'[u] = got[u] \cup ids
    BY <1>2 DEF Push, Send, Settled, StoreInv, Types
  <2>. QED BY <2>1
<1>3. CASE Settled(u) /\ bound[u] # v /\ got[u] \cup left[u] \subseteq got'[u] \cup left'[u]
  BY <1>3 DEF Near
<1>. QED BY <1>1, <1>2, <1>3 DEF Steady

\* Steps that start no session of u and end no pull of it.
LEMMA SteadyStep ==
    ASSUME NEW u, bound'[u] \in {bound[u], None}, up'[u] => up[u],
           u \in leaving => u \in leaving' \/ bound'[u] = None,
           \A w \in Server : Pulling(logic[w], u) => logic'[w] = logic[w] \/ bound'[u] = None,
           got[u] \cup left[u] \subseteq got'[u] \cup left'[u]
    PROVE  Steady(u)
<1> SUFFICES ASSUME Settled(u)' PROVE Settled(u) /\ bound'[u] = bound[u]
  BY DEF Steady
<1>1. bound'[u] # None /\ up'[u] /\ u \notin leaving' /\ \A w \in Server : ~Pulling(logic'[w], u)
  BY DEF Settled, Pulling
<1>2. \A w \in Server : ~Pulling(logic[w], u)
  BY <1>1
<1>. QED BY <1>1, <1>2 DEF Settled

LEMMA SteadyPull ==
    ASSUME StoreInv, RestTypes, Bounded, SessionInv, OrderInv, faults \subseteq Handled,
           NEW v \in Server, LoginPull(v), NEW u \in User, OneSender(u)
    PROVE  Steady(u)
<1> DEFINE x == logic[v].user
<1>0. /\ IsLogin(logic[v]) /\ x \in User /\ up[x]
      /\ \A w \in Server : w # v => logic'[w] = logic[w]
      /\ UNCHANGED <<messages, bound, up, leaving>>
  <2>1. IsLogin(logic[v]) /\ x \in User /\ \A w \in Server : w # v => logic'[w] = logic[w]
    BY PullEffect
  <2>2. up[x]
    BY <2>1 DEF LoginPull, SessionInv, LoginPlace, Handled
  <2>. QED BY <2>1, <2>2 DEF LoginPull, dbVars, onlineVars
<1>1. PICK B \in FirstOf(Unread(x)) :
        Send(x, Ids(B)) /\ left' = [left EXCEPT ![x] = Ids(Unread(x) \ B)]
  BY DEF LoginPull, Handled
<1>2. /\ got'[x] = got[x] \cup Ids(B) /\ left'[x] = Ids(Unread(x) \ B)
      /\ \A w \in User : w # x => got'[w] = got[w] /\ left'[w] = left[w]
  BY <1>0, <1>1 DEF Send, StoreInv, Types, RestTypes
<1>3. CASE u = x
  <2>1. ASSUME NEW m \in Saved(x) PROVE m \in got'[x] \cup left'[x]
    <3>1. PICK r \in messages : r.id = m /\ r.to = x
      BY SavedMember
    <3>2. r.seq \in Int /\ cursor[x] \in Int
      BY <1>0, RowTalk DEF RestTypes
    <3>3. CASE r.seq > cursor[x]
      <4>1. r \in B \/ r \in Unread(x) \ B
        BY <3>1, <3>3 DEF Unread
      <4>2. m \in Ids(B) \/ m \in Ids(Unread(x) \ B)
        BY <3>1, <4>1 DEF Ids
      <4>. QED BY <1>2, <4>2
    <3>4. CASE ~(r.seq > cursor[x])
      BY <1>2, <1>3, <3>1, <3>4 DEF OrderInv, NeverSkipped, Deferring
    <3>. QED BY <3>3, <3>4
  <2>. HIDE DEF x
  <2>. QED BY <1>3, <2>1 DEF Steady
<1>4. CASE u # x
  <2>1. \A w \in Server : Pulling(logic[w], u) => logic'[w] = logic[w]
    BY <1>0, <1>4 DEF Pulling
  <2>. QED BY <1>0, <1>2, <1>4, <2>1, SteadyStep
<1>. QED BY <1>3, <1>4

LEMMA SteadyNext ==
    ASSUME StoreInv, RestTypes, Bounded, SessionInv, OrderInv, faults \subseteq Handled,
           [Next]_vars, NEW u \in User, OneSender(u)
    PROVE  Steady(u)
<1>1. ASSUME NEW v \in Server, UNCHANGED <<bound, up, leaving>>, logic[v].pc # "pull",
             \A w \in Server : w # v => logic'[w] = logic[w], got[u] \subseteq got'[u], left' = left
      PROVE  Steady(u)
  <2>1. \A w \in Server : Pulling(logic[w], u) => logic'[w] = logic[w]
    BY <1>1 DEF Pulling
  <2>. QED BY <1>1, <2>1, SteadyStep
<1>2. ASSUME NEW v \in Server, LoginStep(v) PROVE Steady(u)
  <2>1. ASSUME NEW x \in User, LoginBegin(v, x) PROVE Steady(u)
    BY <1>1, <2>1, LoginBeginEffect, IdleJob DEF LoginBegin, onlineVars, clientVars
  <2>2. CASE LoginKick(v)
    <3> DEFINE x == logic[v].user
    <3>1. x \in User /\ \A w \in Server : w # v => logic'[w] = logic[w]
      BY <2>2, LoginGoto DEF LoginKick
    <3>2. bound'[u] \in {bound[u], None} /\ UNCHANGED <<up, leaving, got, left>>
      BY <2>2 DEF LoginKick, clientVars, StoreInv, Types
    <3>3. \A w \in Server : Pulling(logic[w], u) => logic'[w] = logic[w]
      BY <2>2, <3>1 DEF LoginKick, Pulling
    <3>. QED BY <3>2, <3>3, SteadyStep
  <2>3. CASE LoginSetIp(v)
    BY <1>1, <2>3, LoginGoto DEF LoginSetIp, clientVars
  <2>4. CASE LoginBind(v)
    <3> DEFINE x == logic[v].user
    <3>1. /\ x \in User /\ \A w \in Server : w # v => logic'[w] = logic[w]
          /\ logic'[v].pc = "pull" /\ logic'[v].user = x
      BY <2>4, LoginGoto DEF LoginBind
    <3>2. CASE u = x
      <4>1. Pulling(logic'[v], u)
        BY <3>1, <3>2 DEF Pulling
      <4>. QED BY <4>1 DEF Steady, Settled, Pulling
    <3>3. CASE u # x
      <4>1. bound'[u] = bound[u] /\ up'[u] = up[u] /\ UNCHANGED <<leaving, got, left>>
        BY <2>4, <3>3 DEF LoginBind, clientVars, StoreInv, Types, RestTypes
      <4>2. \A w \in Server : Pulling(logic[w], u) => logic'[w] = logic[w]
        BY <2>4, <3>1 DEF LoginBind, Pulling
      <4>. QED BY <4>1, <4>2, SteadyStep
    <3>. QED BY <3>2, <3>3
  <2>5. CASE LoginCursor(v)
    BY <1>1, <2>5, EndEffect DEF LoginCursor, onlineVars, clientVars
  <2>. QED BY <1>2, <2>1, <2>2, <2>3, <2>4, <2>5, SteadyPull DEF LoginStep
<1>3. ASSUME NEW v \in Server, DealStep(v) PROVE Steady(u)
  <2>1. UNCHANGED <<bound, up, leaving, left>> /\ logic[v].pc # "pull"
    BY <1>3, IdleJob DEF DealStep, DealBegin, DealIncr, DealSave, DealLookup, DealPush, DealReply,
       onlineVars, clientVars
  <2>2. \A w \in Server : w # v => logic'[w] = logic[w]
    <3>1. CASE DealPush(v) \/ DealReply(v)
      BY <3>1, EndEffect DEF DealPush, DealReply, DealEnd
    <3>. QED BY <1>3, <3>1, BeginEffect, IncrEffect, SaveEffect, LookupEffect DEF DealStep
  <2>3. got[u] \subseteq got'[u]
    <3>1. CASE DealPush(v)
      <4>1. logic[v] \in Jobs
        BY DEF RestTypes
      <4>2. logic[v].to \in User
        BY <3>1, <4>1, JobKinds DEF DealPush, IsDeal
      <4>. QED BY <3>1, <4>2, SendGrows DEF DealPush, Push
    <3>. QED BY <1>3, <3>1 DEF DealStep, DealBegin, DealIncr, DealSave, DealLookup, DealReply, clientVars
  <2>. QED BY <1>1, <2>1, <2>2, <2>3
<1>4. ASSUME NEW v \in Server, Crash(v) PROVE Steady(u)
  <2>1. /\ bound'[u] = IF bound[u] = v THEN None ELSE bound[u]
        /\ up'[u] <=> up[u] /\ bound[u] # v
        /\ leaving' = {x \in leaving : bound[x] # v} /\ UNCHANGED <<got, left>>
        /\ \A w \in Server : w # v => logic'[w] = logic[w]
    BY <1>4, EndEffect DEF Crash, clientVars
  <2>2. Pulling(logic[v], u) => bound[u] = v
    BY DEF Pulling, IsLogin, SessionInv, LoginPlace
  <2>. QED BY <2>1, <2>2, SteadyStep
<1>5. ASSUME NEW x \in User, SessionStep(x) PROVE Steady(u)
  <2>1. /\ UNCHANGED <<logic, got, left>> /\ bound'[u] \in {bound[u], None} /\ (up'[u] => up[u])
        /\ u \in leaving => u \in leaving' \/ bound'[u] = None
    BY <1>5 DEF SessionStep, Drop, Unregister, Unbind, RegLapse, clientVars, StoreInv, Types, RestTypes
  <2>. QED BY <2>1, SteadyStep
<1>6. ASSUME NEW r \in rpcs, RpcServe(r) \/ RpcLost(r) PROVE Steady(u)
  <2>1. UNCHANGED <<bound, up, leaving, logic, left>>
    BY <1>6 DEF RpcServe, RpcLost, onlineVars, clientVars
  <2>2. got[u] \subseteq got'[u]
    <3>1. r.user \in User
      BY DEF StoreInv, Types
    <3>. QED BY <1>6, <3>1, SendGrows DEF RpcServe, RpcLost, Push, clientVars
  <2>. QED BY <2>1, <2>2, SteadyStep
<1>7. CASE UNCHANGED vars
  BY <1>7, SteadyStep DEF vars, onlineVars, clientVars
<1>. QED BY <1>2, <1>3, <1>4, <1>5, <1>6, <1>7 DEF Next
-----------------------------------------------------------------------------
\* The addressee of a request is a user, and what it has saved is saved for him.
LEMMA DealTo ==
    ASSUME StoreInv, NEW v \in Server, IsDeal(logic[v])
    PROVE  logic[v].to \in User /\ logic[v].saved \subseteq Saved(logic[v].to)
  BY DealJob DEF JobOK, Deal

LEMMA CallTo ==
    ASSUME StoreInv, NEW r \in rpcs
    PROVE  r.user \in User /\ r.ids \subseteq Saved(r.user) /\ r.to \in Server
  BY DEF StoreInv, Types, RpcInv

\* A message has one addressee.
LEMMA OneAddressee ==
    ASSUME StoreInv, NEW r \in messages, NEW u, r.id \in Saved(u)
    PROVE  r.to = u
<1>1. PICK q \in messages : q.id = r.id /\ q.to = u
  BY SavedMember
<1>2. sent[r.id] = <<r.from, r.to>> /\ sent[r.id] = <<q.from, q.to>>
  BY <1>1 DEF StoreInv, RowInv
<1>3. <<r.from, r.to>> = <<q.from, q.to>>
  BY <1>2
<1>4. r.to = q.to
  BY <1>3
<1>. QED BY <1>1, <1>4

\* One conjunct of SeenInv at a time: what is new has been seen, or is near.
LEMMA AckedStep ==
    ASSUME StoreInv, AckedAll, \A u \in User : OneSender(u) => Steady(u),
           \A r \in messages' : r \in messages \/ r.id \notin acked',
           \A r \in messages : r.id \in acked' /\ r.id \notin acked /\ OneSender(r.to) =>
             Seen(r.to, {r.id})'
    PROVE  AckedAll'
<1> SUFFICES ASSUME NEW r \in messages', r.id \in acked', OneSender(r.to), Settled(r.to)'
             PROVE  {r.id} \subseteq got'[r.to] \cup left'[r.to]
  BY DEF AckedAll, OneSender, Seen
<1>1. r \in messages /\ r.to \in User
  BY RowTalk
<1>2. CASE r.id \in acked
  <2>1. Seen(r.to, {r.id}) /\ {r.id} \subseteq Saved(r.to)
    BY <1>1, <1>2, SavedMember DEF AckedAll
  <2>2. Seen(r.to, {r.id})'
    BY <1>1, <2>1, SeenStays
  <2>. QED BY <2>2 DEF Seen
<1>3. CASE r.id \notin acked
  <2>1. Seen(r.to, {r.id})'
    BY <1>1, <1>3
  <2>. QED BY <2>1 DEF Seen
<1>. QED BY <1>2, <1>3

LEMMA PushStep ==
    ASSUME StoreInv, PushNear, \A u \in User : OneSender(u) => Steady(u),
           \A w \in Server : logic'[w].pc = "push" =>
             \/ logic'[w] = logic[w]
             \/ \A u \in User : \A ids \in SUBSET Saved(u) :
                  u = logic'[w].to /\ ids = logic'[w].saved => Near(u, ids, w),
           \A w \in Server : logic'[w].pc = "push" =>
             logic'[w].to \in User /\ logic'[w].saved \subseteq Saved(logic'[w].to)
    PROVE  PushNear'
<1> SUFFICES ASSUME NEW w \in Server, NEW u, NEW ids, u = logic'[w].to, ids = logic'[w].saved,
                    logic'[w].pc = "push", OneSender(u), Settled(u)'
             PROVE  bound'[u] = w \/ ids \subseteq got'[u] \cup left'[u]
  BY DEF PushNear, OneSender, Near, Settled, Pulling
<1>1. u \in User /\ ids \subseteq Saved(u)
  OBVIOUS
<1>2. Near(u, ids, w)
  BY <1>1 DEF PushNear
<1>3. Near(u, ids, w)'
  BY <1>1, <1>2, SeenStays
<1>. QED BY <1>3 DEF Near

LEMMA CallStep ==
    ASSUME StoreInv, CallNear, \A u \in User : OneSender(u) => Steady(u),
           \A r \in rpcs' : r.user \in User /\ r.ids \subseteq Saved(r.user) /\
             \/ \E q \in rpcs : q.user = r.user /\ q.ids = r.ids /\ q.to = r.to
             \/ OneSender(r.user) => Near(r.user, r.ids, r.to)
    PROVE  CallNear'
<1> SUFFICES ASSUME NEW r \in rpcs', OneSender(r.user), Settled(r.user)'
             PROVE  bound'[r.user] = r.to \/ r.ids \subseteq got'[r.user] \cup left'[r.user]
  BY DEF CallNear, OneSender, Near
<1>1. r.user \in User /\ r.ids \subseteq Saved(r.user)
  OBVIOUS
<1>2. Near(r.user, r.ids, r.to)
  BY DEF CallNear
<1>3. Near(r.user, r.ids, r.to)'
  BY <1>1, <1>2, SeenStays
<1>. QED BY <1>3 DEF Near

LEMMA OutStep ==
    ASSUME StoreInv, CallOut, \A u \in User : OneSender(u) => Steady(u),
           \A w \in Server : logic'[w].pc = "rpc" =>
             /\ IsDeal(logic[w]) /\ logic'[w].to = logic[w].to /\ logic'[w].saved = logic[w].saved
             /\ \/ \E r \in rpcs' : Calling(w, r)
                \/ logic'[w] = logic[w] /\ \A r \in rpcs : ~Calling(w, r)
                \/ OneSender(logic[w].to) => Seen(logic[w].to, logic[w].saved)
                \/ \E r \in rpcs : Calling(w, r) /\ (OneSender(r.user) => Seen(r.user, r.ids)')
    PROVE  CallOut'
<1> SUFFICES ASSUME NEW w \in Server, NEW u, NEW ids, u = logic'[w].to, ids = logic'[w].saved,
                    logic'[w].pc = "rpc", OneSender(u)
             PROVE  \/ \E r \in rpcs' : r.from = w /\ r.user = u /\ r.ids = ids
                    \/ Seen(u, ids)'
  BY DEF CallOut, OneSender, Calling, Seen, Settled, Pulling
<1>1. u \in User /\ ids \subseteq Saved(u) /\ u = logic[w].to /\ ids = logic[w].saved
  BY DealTo
<1>2. Seen(u, ids) => Seen(u, ids)'
  BY <1>1, SeenStays
<1>3. CASE \E r \in rpcs' : Calling(w, r)
  BY <1>1, <1>3 DEF Calling
<1>4. CASE logic'[w] = logic[w] /\ \A r \in rpcs : ~Calling(w, r)
  BY <1>1, <1>2, <1>4 DEF CallOut
<1>5. CASE Seen(u, ids)
  BY <1>2, <1>5
<1>6. ASSUME NEW r \in rpcs, Calling(w, r), OneSender(r.user) => Seen(r.user, r.ids)'
      PROVE  Seen(u, ids)'
  <2>1. r.user = u /\ r.ids = ids
    BY <1>1, <1>6 DEF Calling
  <2>2. Seen(r.user, r.ids)'
    BY <1>6, <2>1
  <2>. QED BY <2>1, <2>2 DEF Seen
<1>. QED BY <1>1, <1>3, <1>4, <1>5, <1>6

\* Steps that acknowledge nothing, and neither push nor call.
LEMMA SeenQuiet ==
    ASSUME StoreInv, SeenInv, \A u \in User : OneSender(u) => Steady(u),
           \A r \in messages' : r \in messages \/ r.id \notin acked, UNCHANGED <<acked, rpcs>>,
           \A w \in Server : logic'[w].pc \in {"push", "rpc"} => logic'[w] = logic[w]
    PROVE  SeenInv'
<1>0. AckedAll /\ PushNear /\ CallNear /\ CallOut
  BY DEF SeenInv
<1>1. AckedAll'
  BY <1>0, AckedStep
<1>2. PushNear'
  <2>1. \A w \in Server : logic'[w].pc = "push" =>
          logic'[w].to \in User /\ logic'[w].saved \subseteq Saved(logic'[w].to)
    BY DealTo DEF IsDeal
  <2>. QED BY <1>0, <2>1, PushStep
<1>3. CallNear'
  BY <1>0, CallTo, CallStep
<1>4. CallOut'
  <2>1. \A w \in Server : logic'[w].pc = "rpc" => IsDeal(logic[w]) /\ logic'[w] = logic[w]
    BY DEF IsDeal
  <2>. QED BY <1>0, <2>1, OutStep
<1>. QED BY <1>1, <1>2, <1>3, <1>4 DEF SeenInv

\* A request that ends after its addressee has seen what it saved.
LEMMA SeenEnd ==
    ASSUME StoreInv, RestTypes, SeenInv, \A u \in User : OneSender(u) => Steady(u),
           NEW v \in Server, IsDeal(logic[v]), DealEnd(v), UNCHANGED <<messages, rpcs>>,
           OneSender(logic[v].to) =>
             \A u \in User, ids \in SUBSET Msg :
               u = logic[v].to /\ ids \subseteq logic[v].saved => Seen(u, ids)'
    PROVE  SeenInv'
<1>0. /\ AckedAll /\ PushNear /\ CallNear /\ CallOut
      /\ logic'[v] = Idle /\ \A w \in Server : w # v => logic'[w] = logic[w]
      /\ acked' = acked \cup logic[v].saved
  BY EndEffect DEF SeenInv, DealEnd
<1>1. AckedAll'
  <2> SUFFICES ASSUME NEW r \in messages, r.id \in acked', r.id \notin acked, OneSender(r.to)
               PROVE  Seen(r.to, {r.id})'
    BY <1>0, AckedStep
  <2>1. r.id \in logic[v].saved /\ r.id \in Msg
    BY <1>0, RowTalk
  <2>2. r.to = logic[v].to /\ r.to \in User
    BY <2>1, DealTo, OneAddressee
  <2>. QED BY <2>1, <2>2
<1>2. \A w \in Server : logic'[w].pc \in {"push", "rpc"} => logic'[w] = logic[w] /\ IsDeal(logic[w])
  BY <1>0, IdleJob DEF IsDeal
<1>3. PushNear'
  BY <1>0, <1>2, DealTo, PushStep
<1>4. CallNear'
  BY <1>0, CallTo, CallStep
<1>5. CallOut'
  BY <1>0, <1>2, OutStep
<1>. QED BY <1>1, <1>3, <1>4, <1>5 DEF SeenInv

\* Where uip_<uid> says the addressee is, there is his session, if he has one.
LEMMA LookupSeen ==
    ASSUME StoreInv, RestTypes, SessionInv, SeenInv, \A u \in User : OneSender(u) => Steady(u),
           NEW v \in Server, DealLookup(v)
    PROVE  SeenInv'
<1> DEFINE x == logic[v].to
           s == logic[v].saved
           w == reg[x]
<1>0. /\ AckedAll /\ PushNear /\ CallNear /\ CallOut /\ UNCHANGED messages
      /\ IsDeal(logic[v]) /\ logic[v].pc = "save" /\ x \in User /\ s \subseteq Saved(x)
      /\ \A y \in Server : y # v => logic'[y] = logic[y]
      /\ s \in SUBSET Msg
  <2>1. IsDeal(logic[v]) /\ logic[v] \in Deal
    BY LookupEffect, DealJob
  <2>. QED BY <2>1, LookupEffect, DealTo DEF SeenInv, DealLookup, dbVars, Deal
<1>1. Settled(x) => bound[x] = w /\ w # None
  BY <1>0 DEF SessionInv, Registered, Settled
<1>2. \A y \in Server : y # v /\ logic'[y].pc \in {"push", "rpc"} =>
        /\ logic'[y] = logic[y] /\ IsDeal(logic[y]) /\ logic[y].to \in User
        /\ logic[y].saved \subseteq Saved(logic[y].to)
  BY <1>0, DealTo DEF IsDeal
<1>3. CASE w = None /\ DealEnd(v) /\ UNCHANGED rpcs
  <2>1. ASSUME NEW u \in User, u = x, OneSender(u), NEW ids \in SUBSET Msg, ids \subseteq s
        PROVE  Seen(u, ids)'
    <3>1. Seen(u, ids)
      BY <1>1, <1>3, <2>1 DEF Seen
    <3>. QED BY <1>0, <2>1, <3>1, SeenStays
  <2>. QED BY <1>0, <1>3, <2>1, SeenEnd
<1>4. CASE w = v /\ LogicGoto(v, "push") /\ UNCHANGED <<rpcs, acked>>
  <2>1. logic'[v].pc = "push" /\ logic'[v].to = x /\ logic'[v].saved = s
    BY <1>0, <1>4, DealGoto DEF DealPc
  <2>2. Near(x, s, v)
    BY <1>1, <1>4 DEF Near
  <2>. HIDE DEF x, s, w
  <2>3. AckedAll'
    BY <1>0, <1>4, AckedStep
  <2>4. PushNear'
    BY <1>0, <1>2, <2>1, <2>2, PushStep
  <2>5. CallNear'
    BY <1>0, <1>4, CallTo, CallStep
  <2>6. CallOut'
    <3>1. \A y \in Server : logic'[y].pc = "rpc" => logic'[y] = logic[y] /\ IsDeal(logic[y])
      BY <1>2, <2>1
    <3>. QED BY <1>0, <1>4, <3>1, OutStep
  <2>. QED BY <2>3, <2>4, <2>5, <2>6 DEF SeenInv
<1>5. ASSUME w \notin {None, v}, rpcs' = rpcs \cup {[from |-> v, to |-> w, user |-> x, ids |-> s]},
             LogicGoto(v, "rpc"), UNCHANGED acked
      PROVE  SeenInv'
  <2> DEFINE q == [from |-> v, to |-> w, user |-> x, ids |-> s]
  <2>0. q.from = v /\ q.to = w /\ q.user = x /\ q.ids = s /\ rpcs' = rpcs \cup {q}
    BY <1>5
  <2>1. logic'[v].pc = "rpc" /\ logic'[v].to = x /\ logic'[v].saved = s
    BY <1>0, <1>5, DealGoto DEF DealPc
  <2>2. Near(x, s, w)
    BY <1>1 DEF Near
  <2>3. Calling(v, q)
    BY <2>0 DEF Calling
  <2>. HIDE DEF x, s, w, q
  <2>4. AckedAll'
    BY <1>0, <1>5, AckedStep
  <2>5. PushNear'
    <3>1. \A y \in Server : logic'[y].pc = "push" => logic'[y] = logic[y] /\ logic[y].to \in User
            /\ logic[y].saved \subseteq Saved(logic[y].to)
      BY <1>2, <2>1
    <3>. QED BY <1>0, <3>1, PushStep
  <2>6. CallNear'
    BY <1>0, <2>0, <2>2, CallTo, CallStep
  <2>7. CallOut'
    <3>1. ASSUME NEW y \in Server, logic'[y].pc = "rpc"
          PROVE  /\ IsDeal(logic[y]) /\ logic'[y].to = logic[y].to /\ logic'[y].saved = logic[y].saved
                 /\ \/ \E r \in rpcs' : Calling(y, r)
                    \/ logic'[y] = logic[y] /\ \A r \in rpcs : ~Calling(y, r)
      <4>1. CASE y = v
        BY <1>0, <2>0, <2>1, <2>3, <4>1 DEF x, s
      <4>2. CASE y # v
        BY <1>2, <2>0, <3>1, <4>2
      <4>. QED BY <4>1, <4>2
    <3>. QED BY <1>0, <3>1, OutStep
  <2>. QED BY <2>4, <2>5, <2>6, <2>7 DEF SeenInv
<1>. QED BY <1>3, <1>4, <1>5 DEF DealLookup

LEMMA PushesSeen ==
    ASSUME StoreInv, RestTypes, SeenInv, \A u \in User : OneSender(u) => Steady(u),
           NEW v \in Server, DealPush(v)
    PROVE  SeenInv'
<1> DEFINE x == logic[v].to
           s == logic[v].saved
<1>1. /\ IsDeal(logic[v]) /\ DealEnd(v) /\ UNCHANGED <<messages, rpcs, left>> /\ Push(v, x, s)
      /\ x \in User /\ s \subseteq Saved(x)
  BY DealTo DEF DealPush, IsDeal, dbVars
<1>2. ASSUME NEW u \in User, u = x, OneSender(u), NEW ids \in SUBSET Msg, ids \subseteq s
      PROVE  Seen(u, ids)'
  <2>1. Near(u, s, v)
    BY <1>2 DEF SeenInv, PushNear, DealPush
  <2>2. s \subseteq Saved(u) /\ Push(v, u, s)
    BY <1>1, <1>2
  <2>3. ASSUME NEW t, t = s PROVE Seen(u, t)'
    BY <1>1, <1>2, <2>1, <2>2, <2>3, PushSeen
  <2>. QED BY <1>2, <2>3 DEF Seen
<1>. QED BY <1>1, <1>2, SeenEnd

LEMMA ReplySeen ==
    ASSUME StoreInv, RestTypes, SeenInv, \A u \in User : OneSender(u) => Steady(u),
           NEW v \in Server, DealReply(v)
    PROVE  SeenInv'
<1> DEFINE x == logic[v].to
           s == logic[v].saved
<1>1. /\ IsDeal(logic[v]) /\ DealEnd(v) /\ UNCHANGED <<messages, rpcs>>
      /\ x \in User /\ s \subseteq Saved(x)
  BY DealTo DEF DealReply, IsDeal, dbVars
<1>2. ASSUME NEW u \in User, u = x, OneSender(u), NEW ids \in SUBSET Msg, ids \subseteq s
      PROVE  Seen(u, ids)'
  <2>1. Seen(u, s)
    BY <1>2 DEF SeenInv, CallOut, Calling, DealReply
  <2>2. s \subseteq Saved(u)
    BY <1>1, <1>2
  <2>3. ASSUME NEW t, t = s PROVE Seen(u, t)'
    BY <1>1, <1>2, <2>1, <2>2, <2>3, SeenStays
  <2>. QED BY <1>2, <2>3 DEF Seen
<1>. QED BY <1>1, <1>2, SeenEnd

LEMMA ServeSeen ==
    ASSUME StoreInv, RestTypes, SeenInv, \A u \in User : OneSender(u) => Steady(u),
           NEW r \in rpcs, RpcServe(r)
    PROVE  SeenInv'
<1>0. /\ AckedAll /\ PushNear /\ CallNear /\ CallOut /\ UNCHANGED <<messages, acked, logic, left>>
      /\ rpcs' = rpcs \ {r} /\ Push(r.to, r.user, r.ids)
      /\ r.user \in User /\ r.ids \subseteq Saved(r.user)
  BY CallTo DEF SeenInv, RpcServe, dbVars
<1>1. OneSender(r.user) => Seen(r.user, r.ids)'
  BY <1>0, PushSeen DEF CallNear
<1>2. AckedAll'
  BY <1>0, AckedStep
<1>3. PushNear'
  BY <1>0, DealTo, PushStep DEF IsDeal
<1>4. CallNear'
  BY <1>0, CallTo, CallStep
<1>5. CallOut'
  <2> SUFFICES ASSUME NEW w \in Server, logic'[w].pc = "rpc"
               PROVE  /\ IsDeal(logic[w]) /\ logic'[w].to = logic[w].to
                      /\ logic'[w].saved = logic[w].saved
                      /\ \/ \E q \in rpcs' : Calling(w, q)
                         \/ logic'[w] = logic[w] /\ \A q \in rpcs : ~Calling(w, q)
                         \/ \E q \in rpcs : Calling(w, q) /\ (OneSender(q.user) => Seen(q.user, q.ids)')
    BY <1>0, OutStep
  <2>. QED BY <1>0, <1>1 DEF IsDeal
<1>. QED BY <1>2, <1>3, <1>4, <1>5 DEF SeenInv

\* A call to a process that ends was for a session that ends with it, or has been seen.
LEMMA CrashSeen ==
    ASSUME StoreInv, RestTypes, SeenInv, \A u \in User : OneSender(u) => Steady(u),
           NEW v \in Server, Crash(v)
    PROVE  SeenInv'
<1>0. /\ AckedAll /\ PushNear /\ CallNear /\ CallOut /\ UNCHANGED <<messages, acked, got, left>>
      /\ logic'[v] = Idle /\ \A w \in Server : w # v => logic'[w] = logic[w]
  BY EndEffect DEF SeenInv, Crash, dbVars, clientVars
<1>1. \A w \in Server : logic'[w].pc \in {"push", "rpc"} =>
        w # v /\ logic'[w] = logic[w] /\ IsDeal(logic[w])
  BY <1>0, IdleJob DEF IsDeal
<1>2. AckedAll'
  BY <1>0, AckedStep
<1>3. PushNear'
  BY <1>0, <1>1, DealTo, PushStep
<1>4. CallNear'
  <2> SUFFICES ASSUME NEW r \in rpcs'
               PROVE  /\ r.user \in User /\ r.ids \subseteq Saved(r.user)
                      /\ \E q \in rpcs : q.user = r.user /\ q.ids = r.ids /\ q.to = r.to
    BY <1>0, CallStep
  <2>1. PICK q \in rpcs : r = IF q.from = v THEN [q EXCEPT !.from = None] ELSE q
    BY DEF Crash
  <2>2. q \in [from: Server \cup {None}, to: Server, user: User, ids: SUBSET Msg]
    BY DEF StoreInv, Types
  <2>3. q.user = r.user /\ q.ids = r.ids /\ q.to = r.to
    BY <2>1, <2>2
  <2>. QED BY <2>3, CallTo
<1>5. CallOut'
  <2> SUFFICES ASSUME NEW w \in Server, logic'[w].pc = "rpc", NEW q \in rpcs, Calling(w, q)
               PROVE  q \in rpcs' \/ (OneSender(q.user) => Seen(q.user, q.ids)')
    BY <1>0, <1>1, OutStep
  <2>1. q.from = w /\ w # v
    BY <1>1 DEF Calling
  <2>2. CASE q.to # v
    BY <2>1, <2>2 DEF Crash
  <2>3. ASSUME q.to = v, OneSender(q.user) PROVE Seen(q.user, q.ids)'
    <3>1. q.user \in User /\ q.ids \subseteq Saved(q.user)
      BY CallTo
    <3>2. Near(q.user, q.ids, v)
      BY <1>0, <2>3 DEF CallNear
    <3>3. bound[q.user] = v => bound'[q.user] = None
      BY <3>1 DEF Crash
    <3> SUFFICES ASSUME Settled(q.user)' PROVE q.ids \subseteq got'[q.user] \cup left'[q.user]
      BY DEF Seen
    <3>4. bound'[q.user] # None
      BY DEF Settled
    <3>. QED BY <2>3, <3>1, <3>2, <3>3, <3>4 DEF Steady, Near
  <2>. QED BY <2>2, <2>3
<1>. QED BY <1>2, <1>3, <1>4, <1>5 DEF SeenInv

LEMMA SeenInit == Init => SeenInv
<1> SUFFICES ASSUME Init PROVE SeenInv
  OBVIOUS
<1>1. messages = {} /\ rpcs = {} /\ \A v \in Server : logic[v] = Idle
  BY DEF Init
<1>. QED BY <1>1, IdleJob DEF SeenInv, AckedAll, PushNear, CallNear, CallOut, Idle

LEMMA SeenNext ==
    ASSUME StoreInv, RestTypes, Bounded, SessionInv, OrderInv, SeenInv, faults \subseteq Handled,
           [Next]_vars
    PROVE  SeenInv'
<1>0. \A u \in User : OneSender(u) => Steady(u)
  BY SteadyNext
<1>1. ASSUME NEW v \in Server, UNCHANGED <<messages, acked, rpcs>>,
             logic'[v].pc \notin {"push", "rpc"}, \A w \in Server : w # v => logic'[w] = logic[w]
      PROVE  SeenInv'
  BY <1>0, <1>1, SeenQuiet
<1>2. ASSUME NEW v \in Server, LoginStep(v) PROVE SeenInv'
  <2>1. UNCHANGED <<messages, acked, rpcs>>
    BY <1>2 DEF LoginStep, LoginBegin, LoginKick, LoginSetIp, LoginBind, LoginPull, LoginCursor,
       dbVars, clientVars
  <2>2. \A w \in Server : w # v => logic'[w] = logic[w]
    <3>1. ASSUME NEW u \in User, LoginBegin(v, u) PROVE \A w \in Server : w # v => logic'[w] = logic[w]
      BY <3>1, LoginBeginEffect
    <3>2. CASE LoginKick(v) \/ LoginSetIp(v) \/ LoginBind(v)
      BY <3>2, LoginGoto DEF LoginKick, LoginSetIp, LoginBind
    <3>3. CASE LoginCursor(v)
      BY <3>3, EndEffect DEF LoginCursor
    <3>. QED BY <1>2, <3>1, <3>2, <3>3, PullEffect DEF LoginStep
  <2>3. logic'[v].pc \notin {"push", "rpc"}
    <3>1. ASSUME NEW u \in User, LoginBegin(v, u) PROVE logic'[v].pc = "kick"
      BY <3>1, LoginBeginEffect
    <3>2. CASE LoginKick(v) \/ LoginSetIp(v) \/ LoginBind(v)
      BY <3>2, LoginGoto DEF LoginKick, LoginSetIp, LoginBind
    <3>3. CASE LoginCursor(v)
      BY <3>3, EndEffect, IdleJob DEF LoginCursor
    <3>. QED BY <1>2, <3>1, <3>2, <3>3, PullEffect, IdleJob DEF LoginStep
  <2>. QED BY <1>1, <2>1, <2>2, <2>3
<1>3. ASSUME NEW v \in Server, DealStep(v) PROVE SeenInv'
  <2>1. ASSUME NEW p \in Talk, DealBegin(v, p[1], p[2]) PROVE SeenInv'
    <3>1. UNCHANGED <<messages, acked, rpcs>>
      BY <2>1 DEF DealBegin, dbVars
    <3>. QED BY <1>1, <2>1, <3>1, BeginEffect
  <2>2. CASE DealIncr(v)
    <3>1. UNCHANGED <<messages, acked, rpcs>>
      BY <2>2 DEF DealIncr, clientVars
    <3>. QED BY <1>1, <2>2, <3>1, IncrEffect
  <2>3. CASE DealSave(v)
    <3>1. /\ UNCHANGED <<acked, rpcs>> /\ \A w \in Server : w # v => logic'[w] = logic[w]
          /\ logic'[v].pc \notin {"push", "rpc"}
      BY <2>3, SaveEffect, IdleJob DEF DealSave, clientVars
    <3>2. \A r \in messages' : r \in messages \/ r.id \notin acked
      <4>1. acked \subseteq Ids(messages)
        BY DEF StoreInv, Durable
      <4>2. CASE messages' = messages
        BY <4>2
      <4>3. CASE messages' = Inserted(logic[v])
        BY <4>1, <4>3 DEF Inserted
      <4>. QED BY <2>3, <4>2, <4>3 DEF DealSave
    <3>. QED BY <1>0, <3>1, <3>2, SeenQuiet
  <2>. QED BY <1>0, <1>3, <2>1, <2>2, <2>3, LookupSeen, PushesSeen, ReplySeen DEF DealStep
<1>4. ASSUME UNCHANGED <<messages, acked, rpcs, logic>> PROVE SeenInv'
  BY <1>0, <1>4, SeenQuiet
<1>5. ASSUME NEW u \in User, SessionStep(u) PROVE UNCHANGED <<messages, acked, rpcs, logic>>
  BY <1>5 DEF SessionStep, Drop, Unregister, Unbind, RegLapse, dbVars, clientVars
<1>6. ASSUME NEW r \in rpcs PROVE ~RpcLost(r)
  BY DEF RpcLost, Handled
<1>7. CASE UNCHANGED vars
  BY <1>4, <1>7 DEF vars, dbVars, clientVars
<1>. QED BY <1>0, <1>2, <1>3, <1>4, <1>5, <1>6, <1>7, CrashSeen, ServeSeen DEF Next

-----------------------------------------------------------------------------
\* Sessions, whatever fails; order, while a failure leaves messages to the next login;
\* and sight, as long as only what the handlers allow for fails.
ArrivalInv ==
    /\ SessionInv
    /\ faults \subseteq Deferring => OrderInv
    /\ faults \subseteq Handled   => SeenInv

LEMMA ArrivalNext ==
    StoreInv /\ NumInv /\ Bounded /\ RestTypes /\ ArrivalInv /\ [Next]_vars => ArrivalInv'
<1> SUFFICES ASSUME StoreInv, NumInv, Bounded, RestTypes, ArrivalInv, [Next]_vars
             PROVE  ArrivalInv'
  OBVIOUS
<1>0. faults' = faults /\ SessionInv /\ Handled \subseteq Deferring
  BY DEF Next, vars, ArrivalInv, Deferring
<1>1. SessionInv'
  BY <1>0, SessionNext
<1>2. ASSUME faults \subseteq Deferring PROVE OrderInv'
  BY <1>0, <1>2, OrderNext DEF ArrivalInv
<1>3. ASSUME faults \subseteq Handled PROVE SeenInv'
  BY <1>0, <1>3, SeenNext DEF ArrivalInv
<1>. QED BY <1>0, <1>1, <1>2, <1>3 DEF ArrivalInv, Deferring, Handled

LEMMA ArrivalInit == Init => ArrivalInv
  BY SessionInit, OrderInit, SeenInit DEF ArrivalInv

\* For any servers, users, messages, LIMIT and batch sizes, no saved message to a user
\* whom one other writes to is behind his cursor without having been received: the
\* cursor is set to the greatest number of a batch that GetUnreadMessages took from the
\* front of the unread rows, and what is saved meanwhile has a greater number. A query
\* that fails moves no cursor, and a push that is lost none either.
THEOREM NeverSkippedCorrect == Spec => []NeverSkipped
<1>1. ArrivalInv => NeverSkipped
  BY DEF ArrivalInv, OrderInv, NeverSkipped
<1>. QED BY <1>1, ArrivalInit, StoreInit, StoreNext, NumInit, NumNext, BoundedInit, BoundedNext, RestInit,
            RestNext, ArrivalNext, PTL DEF Spec

\* A user whom one other writes to has, once online, every message its sender was told
\* is sent: uip_<uid> leads a push to the session the user has, and a session that
\* replaces it meanwhile has pulled after the message was saved. Servers may crash,
\* saves may fail and senders may repeat themselves.
THEOREM AckedSeenCorrect == Spec => []AckedSeen
<1>1. StoreInv /\ RestTypes /\ ArrivalInv => AckedSeen
  <2> SUFFICES ASSUME StoreInv, RestTypes, ArrivalInv, faults \subseteq Handled, NEW u \in User,
                      OneSender(u), Online(u), NEW r \in messages, r.to = u, r.id \in acked
               PROVE  r.id \in got[u] \cup left[u]
    BY DEF AckedSeen, HasAll
  <2>1. ASSUME NEW v \in Server PROVE ~Pulling(logic[v], u)
    BY DEF Online, InLogin, Pulling, IsLogin
  <2>2. Settled(u)
    BY <2>1 DEF Online, Settled
  <2>3. Seen(u, {r.id})
    BY DEF ArrivalInv, SeenInv, AckedAll
  <2>. QED BY <2>2, <2>3 DEF Seen
<1>. QED BY <1>1, ArrivalInit, StoreInit, StoreNext, NumInit, NumNext, BoundedInit, BoundedNext, RestInit,
            RestNext, ArrivalNext, PTL DEF Spec
-----------------------------------------------------------------------------
(* The reduced login implements Seat.                                       *)

\* Steps that bind nobody leave seats at most.
LEMMA SeatLeft ==
    ASSUME StoreInv, bound' \in [User -> Server \cup {None}],
           \A u \in User : bound'[u] \in {bound[u], None}
    PROVE  Seats!Leave({u \in User : bound'[u] = None})
<1> DEFINE gone == [u \in User |-> IF u \in {w \in User : bound'[w] = None} THEN None ELSE bound[u]]
<1>1. bound' = gone
  <2>1. \A u \in User : bound'[u] = gone[u]
    OBVIOUS
  <2>. QED BY <2>1
<1>. QED BY <1>1 DEF Seats!Leave

LEMMA SeatStep == ASSUME StoreInv, RestTypes, SessionInv, [Next]_vars PROVE [Seats!Next]_bound
<1>1. CASE UNCHANGED bound
  BY <1>1
<1>2. ASSUME bound' \in [User -> Server \cup {None}], \A u \in User : bound'[u] \in {bound[u], None}
      PROVE  Seats!Next
  BY <1>2, SeatLeft DEF Seats!Next
<1>3. ASSUME NEW v \in Server, LoginStep(v) PROVE [Seats!Next]_bound
  <2>1. CASE LoginKick(v)
    BY <1>2, <2>1 DEF LoginKick, StoreInv, Types
  <2>2. CASE LoginBind(v)
    <3>1. PICK u \in User : u = logic[v].user
      BY <2>2, LoginGoto DEF LoginBind
    <3>2. bound[u] = None
      BY <2>2, <3>1, LoginGoto DEF LoginBind, SessionInv, LoginPlace
    <3>3. Seats!Take(u, v)
      BY <2>2, <3>1, <3>2 DEF LoginBind, Seats!Take
    <3>. QED BY <3>3 DEF Seats!Next
  <2>. QED BY <1>1, <1>3, <2>1, <2>2 DEF LoginStep, LoginBegin, LoginSetIp, LoginPull, LoginCursor, onlineVars
<1>4. ASSUME NEW v \in Server, DealStep(v) PROVE UNCHANGED bound
  BY <1>4 DEF DealStep, DealBegin, DealIncr, DealSave, DealLookup, DealPush, DealReply, onlineVars
<1>5. ASSUME NEW v \in Server, Crash(v) PROVE [Seats!Next]_bound
  BY <1>2, <1>5 DEF Crash, StoreInv, Types
<1>6. ASSUME NEW u \in User, SessionStep(u) PROVE [Seats!Next]_bound
  BY <1>2, <1>6 DEF SessionStep, Drop, Unregister, Unbind, RegLapse, StoreInv, Types
<1>7. ASSUME NEW r \in rpcs, RpcServe(r) \/ RpcLost(r) PROVE UNCHANGED bound
  BY <1>7 DEF RpcServe, RpcLost, onlineVars
<1>8. CASE UNCHANGED vars
  BY <1>8 DEF vars, onlineVars
<1>. QED BY <1>1, <1>3, <1>4, <1>5, <1>6, <1>7, <1>8 DEF Next

\* What ChatDelivery takes from LoginSession holds of its reduced login, whatever fails:
\* LoginHandler clears the session that uip_<uid> leads to before it binds the new one,
\* and uip_<uid> leads to every session that is bound outside of a cleanup, so that no
\* user is bound at two servers or taken over from one that still binds him.
THEOREM ChatSeatCorrect == Spec => SeatSpec
<1>1. Init => Seats!Init
  BY DEF Init, Seats!Init
<1>2. ArrivalInv => SessionInv
  BY DEF ArrivalInv
<1>3. StoreInv /\ RestTypes /\ SessionInv /\ [Next]_vars => [Seats!Next]_bound
  BY SeatStep
<1>. QED BY <1>1, <1>2, <1>3, ArrivalInit, ArrivalNext, StoreInit, StoreNext, NumInit, NumNext,
            BoundedInit, BoundedNext, RestInit, RestNext, PTL DEF Spec, SeatSpec, Seats!Spec
=============================================================================
