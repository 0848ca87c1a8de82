------------------------- MODULE ChatDeliveryProofs -------------------------
(***************************************************************************)
(* Text messages for every number of servers, users and messages: Success  *)
(* means saved, nobody is shown what is not saved, and the numbers of a    *)
(* conversation are given out once, so that its history has no gap.        *)
(***************************************************************************)
EXTENDS ChatDelivery, FiniteSetTheorems, TLAPS

Saved(u) == Ids({r \in messages : r.to = u})

DealPc == {"save", "push", "rpc"}

Types ==
    /\ seq      \in [Conv -> Nat]
    /\ messages \in SUBSET Row
    /\ reg      \in [User -> Server \cup {None}]
    /\ bound    \in [User -> Server \cup {None}]
    /\ sent     \in [Msg -> Talk \cup {None}]
    /\ acked    \in SUBSET Msg
    /\ got      \in [User -> SUBSET Msg]
    /\ rpcs     \in SUBSET [from: Server \cup {None}, to: Server, user: User, ids: SUBSET Msg]
    /\ DOMAIN logic = Server

\* A message id belongs to one pair of users, whoever repeats it.
RowInv ==
    \A r \in messages : <<r.from, r.to>> \in Talk /\ sent[r.id] = <<r.from, r.to>>

\* A request is about one pair of users; it has saved what it says.
JobOK(l) ==
    /\ l \in Deal /\ <<l.from, l.to>> \in Talk
    /\ \A i \in 1 .. Len(l.todo) : sent[l.todo[i]] = <<l.from, l.to>>
    /\ l.saved \subseteq Saved(l.to)
    /\ l.num # None => l.todo # <<>>

LogicOK(l) ==
    \/ l = Idle
    \/ l \in [pc: {"kick", "setip", "bind", "pull"}, user: User]
    \/ l.pc = "cursor" /\ l.user \in User
    \/ JobOK(l)

LogicInv == \A v \in Server : LogicOK(logic[v])

RpcInv == \A r \in rpcs : r.ids \subseteq Saved(r.user)

StoreInv == Types /\ RowInv /\ LogicInv /\ RpcInv /\ Durable

\* The number that a request holds between Incr and SaveMessage.
Holds(l) == l.pc = "save" /\ l.num # None
Both(l)  == {l.from, l.to}

RowNumbers    == \A r \in messages : r.seq \in 1 .. seq[Both(r)]
HeldNumbers   == \A v \in Server : Holds(logic[v]) =>
                    /\ logic[v].num \in 1 .. seq[Both(logic[v])]
                    /\ \A r \in messages : Both(r) = Both(logic[v]) => r.seq # logic[v].num
RowsDiffer    == \A r, q \in messages : Both(r) = Both(q) /\ r.seq = q.seq => r = q
HeldDiffer    == \A v, w \in Server :
                    v # w /\ Holds(logic[v]) /\ Holds(logic[w]) /\ Both(logic[v]) = Both(logic[w])
                      => logic[v].num # logic[w].num

\* No number of a conversation is given out twice, as long as Incr does not fail.
NumInv == "incr_fail" \notin faults => RowNumbers /\ HeldNumbers /\ RowsDiffer /\ HeldDiffer

-----------------------------------------------------------------------------
(* Messages are only added, and a message sent keeps its two users.         *)

LEMMA TalkNone == None \notin Talk
  BY NoneAssumption

LEMMA SavedMember == \A u, m : m \in Saved(u) <=> \E r \in messages : r.id = m /\ r.to = u
  BY DEF Saved, Ids

LEMMA SavedGrows ==
    ASSUME messages \subseteq messages', NEW u PROVE Saved(u) \subseteq Saved(u)'
  BY DEF Saved, Ids

LEMMA LogicStays ==
    ASSUME StoreInv, messages \subseteq messages',
           \A m \in Msg : sent[m] # None => sent'[m] = sent[m],
           NEW v \in Server, logic'[v] = logic[v]
    PROVE  LogicOK(logic[v])'
<1> DEFINE l == logic[v]
<1>1. CASE JobOK(l)
  <2>1. \A i \in 1 .. Len(l.todo) : l.todo[i] \in Msg /\ sent[l.todo[i]] # None
    BY <1>1, TalkNone DEF JobOK, Deal
  <2>2. Saved(l.to) \subseteq Saved(l.to)'
    BY SavedGrows
  <2>. QED BY <1>1, <2>1, <2>2 DEF JobOK, LogicOK
<1>2. CASE ~JobOK(l)
  <2>1. LogicOK(l)
    BY DEF StoreInv, LogicInv
  <2>. QED BY <1>2, <2>1 DEF LogicOK
<1>. QED BY <1>1, <1>2

\* What a step must not do to the messages and to what is known of them.
LEMMA StoreStep ==
    ASSUME StoreInv, Types', RowInv', messages \subseteq messages',
           \A m \in Msg : sent[m] # None => sent'[m] = sent[m],
           \A v \in Server : logic'[v] = logic[v] \/ LogicOK(logic[v])',
           \A u \in User : got'[u] \subseteq got[u] \cup Saved(u)',
           acked' \subseteq acked \cup Ids(messages)',
           \A r \in rpcs' : \/ \E q \in rpcs : q.ids = r.ids /\ q.user = r.user
                            \/ r.ids \subseteq Saved(r.user)'
    PROVE  StoreInv'
<1>0. \A u : Saved(u) \subseteq Saved(u)'
  BY SavedGrows
<1>1. LogicInv'
  BY LogicStays DEF LogicInv
<1>2. RpcInv'
  BY <1>0 DEF StoreInv, RpcInv
<1>3. Durable'
  <2>1. Ids(messages) \subseteq Ids(messages)'
    BY DEF Ids
  <2>2. \A u \in User : got[u] \subseteq Saved(u)
    BY DEF StoreInv, Durable, Saved
  <2>3. \A u \in User : got'[u] \subseteq Saved(u)'
    BY <1>0, <2>2
  <2>. QED BY <2>1, <2>3 DEF StoreInv, Durable, Saved
<1>. QED BY <1>1, <1>2, <1>3 DEF StoreInv

\* Most steps leave the messages and what is written as they are.
LEMMA CalmStep ==
    ASSUME StoreInv, UNCHANGED <<seq, messages, sent>>, reg' \in [User -> Server \cup {None}],
           bound' \in [User -> Server \cup {None}], DOMAIN logic' = Server,
           \A v \in Server : logic'[v] = logic[v] \/ LogicOK(logic[v])',
           got' \in [User -> SUBSET Msg], \A u \in User : got'[u] \subseteq got[u] \cup Saved(u),
           acked' \subseteq acked \cup Ids(messages),
           rpcs' \in SUBSET [from: Server \cup {None}, to: Server, user: User, ids: SUBSET Msg],
           \A r \in rpcs' : \/ \E q \in rpcs : q.ids = r.ids /\ q.user = r.user
                            \/ r.ids \subseteq Saved(r.user)
    PROVE  StoreInv'
<1>1. \A u : Saved(u)' = Saved(u)
  BY DEF Saved, Ids
<1>2. Ids(messages)' = Ids(messages)
  BY DEF Ids
<1>3. Ids(messages) \subseteq Msg
  BY DEF StoreInv, Types, Ids, Row
<1>4. Types' /\ RowInv'
  BY <1>3 DEF StoreInv, Types, RowInv
<1>. QED BY <1>1, <1>2, <1>4, StoreStep

LEMMA SendEffect ==
    ASSUME StoreInv, NEW u \in User, NEW ids \in SUBSET Msg, Send(u, ids)
    PROVE  /\ got' \in [User -> SUBSET Msg]
           /\ \A w \in User : got'[w] \subseteq got[w] \cup (IF w = u THEN ids ELSE {})
  BY DEF Send, StoreInv, Types

LEMMA PushEffect ==
    ASSUME StoreInv, NEW v, NEW u \in User, NEW ids \in SUBSET Msg, Push(v, u, ids)
    PROVE  /\ got' \in [User -> SUBSET Msg]
           /\ \A w \in User : got'[w] \subseteq got[w] \cup (IF w = u THEN ids ELSE {})
<1>1. CASE bound[u] = v
  BY <1>1, SendEffect DEF Push
<1>2. CASE bound[u] # v
  BY <1>2 DEF Push, StoreInv, Types
<1>. QED BY <1>1, <1>2

LEMMA LogicSet ==
    ASSUME StoreInv, NEW v \in Server, NEW l, logic' = [logic EXCEPT ![v] = l]
    PROVE  DOMAIN logic' = Server /\ logic'[v] = l /\ \A w \in Server : w # v => logic'[w] = logic[w]
  BY DEF StoreInv, Types

-----------------------------------------------------------------------------
(* LoginHandler.                                                            *)

LEMMA LoginStore ==
    ASSUME StoreInv, NEW v \in Server, LoginStep(v) PROVE StoreInv'
<1>0. Types /\ LogicOK(logic[v])
  BY DEF StoreInv, LogicInv
<1>1. ASSUME NEW u \in User, LoginBegin(v, u) PROVE StoreInv'
  <2> DEFINE l == [pc |-> "kick", user |-> u]
  <2>1. logic' = [logic EXCEPT ![v] = l]
    BY <1>1 DEF LoginBegin
  <2>2. l \in [pc: {"kick", "setip", "bind", "pull"}, user: User]
    OBVIOUS
  <2>. HIDE DEF l
  <2>3. /\ DOMAIN logic' = Server /\ LogicOK(logic[v])'
        /\ \A w \in Server : w # v => logic'[w] = logic[w]
    BY <2>1, <2>2, LogicSet DEF LogicOK
  <2>4. UNCHANGED <<seq, messages, sent, reg, bound, got, acked, rpcs>>
    BY <1>1 DEF LoginBegin, dbVars, onlineVars, clientVars
  <2>. QED BY <1>0, <2>3, <2>4, CalmStep DEF Types
<1>2. CASE LoginKick(v) \/ LoginSetIp(v) \/ LoginBind(v)
  <2> DEFINE next == CASE logic[v].pc = "kick" -> "setip" [] logic[v].pc = "setip" -> "bind"
                       [] OTHER -> "pull"
             l == [logic[v] EXCEPT !.pc = next]
  <2>1. logic' = [logic EXCEPT ![v] = l] /\ logic[v].pc \in {"kick", "setip", "bind"}
    BY <1>0, <1>2 DEF LoginKick, LoginSetIp, LoginBind, LogicGoto, Types
  <2>2. logic[v] \in [pc: {"kick", "setip", "bind", "pull"}, user: User]
    BY <1>0, <2>1 DEF LogicOK, Idle, JobOK, Deal
  <2>3. l \in [pc: {"kick", "setip", "bind", "pull"}, user: User] /\ logic[v].user \in User
    BY <2>1, <2>2
  <2>. HIDE DEF l
  <2>4. /\ DOMAIN logic' = Server /\ LogicOK(logic[v])'
        /\ \A w \in Server : w # v => logic'[w] = logic[w]
    BY <2>1, <2>3, LogicSet DEF LogicOK
  <2>5. /\ UNCHANGED <<seq, messages, sent, got, acked, rpcs>>
        /\ reg' \in [User -> Server \cup {None}] /\ bound' \in [User -> Server \cup {None}]
    BY <1>0, <1>2, <2>3 DEF LoginKick, LoginSetIp, LoginBind, dbVars, clientVars, Types
  <2>. QED BY <1>0, <2>4, <2>5, CalmStep DEF Types
<1>3. CASE LoginPull(v)
  <2> DEFINE u == logic[v].user
  <2>1. u \in User
    BY <1>0, <1>3 DEF LoginPull, LogicOK, Idle, JobOK, Deal
  <2>2. UNCHANGED <<seq, messages, sent, reg, bound, acked, rpcs>>
    BY <1>3 DEF LoginPull, dbVars, onlineVars
  <2>3. CASE \E B \in FirstOf(Unread(u)) :
            /\ Send(u, Ids(B))
            /\ logic' = [logic EXCEPT ![v] = IF B = {} THEN Idle
                                ELSE [pc |-> "cursor", user |-> u, max |-> MaxSeq(B)]]
    <3>1. PICK B \in FirstOf(Unread(u)) :
            /\ Send(u, Ids(B))
            /\ logic' = [logic EXCEPT ![v] = IF B = {} THEN Idle
                                ELSE [pc |-> "cursor", user |-> u, max |-> MaxSeq(B)]]
      BY <2>3
    <3>2. B \subseteq Unread(u) /\ Ids(B) \subseteq Saved(u) /\ Ids(B) \in SUBSET Msg
      BY <1>0 DEF FirstOf, Unread, Ids, Saved, Types, Row
    <3>3. /\ got' \in [User -> SUBSET Msg] /\ \A w \in User : got'[w] \subseteq got[w] \cup Saved(w)
      BY <2>1, <3>1, <3>2, SendEffect
    <3>4. CASE B = {}
      <4>1. logic' = [logic EXCEPT ![v] = Idle]
        BY <3>1, <3>4
      <4>2. /\ DOMAIN logic' = Server /\ LogicOK(logic[v])'
            /\ \A w \in Server : w # v => logic'[w] = logic[w]
        BY <4>1, LogicSet DEF LogicOK
      <4>. QED BY <1>0, <2>2, <3>3, <4>2, CalmStep DEF Types
    <3>5. CASE B # {}
      <4> DEFINE l == [pc |-> "cursor", user |-> u, max |-> MaxSeq(B)]
      <4>1. logic' = [logic EXCEPT ![v] = l]
        BY <3>1, <3>5
      <4>2. l.pc = "cursor" /\ l.user \in User
        BY <2>1
      <4>. HIDE DEF l
      <4>3. /\ DOMAIN logic' = Server /\ LogicOK(logic[v])'
            /\ \A w \in Server : w # v => logic'[w] = logic[w]
        BY <4>1, <4>2, LogicSet DEF LogicOK
      <4>. QED BY <1>0, <2>2, <3>3, <4>3, CalmStep DEF Types
    <3>. QED BY <3>4, <3>5
  <2>4. CASE logic' = [logic EXCEPT ![v] = Idle] /\ got' = got
    <3>1. /\ DOMAIN logic' = Server /\ LogicOK(logic[v])'
          /\ \A w \in Server : w # v => logic'[w] = logic[w]
      BY <2>4, LogicSet DEF LogicOK
    <3>. QED BY <1>0, <2>2, <2>4, <3>1, CalmStep DEF Types
  <2>. QED BY <1>3, <2>3, <2>4 DEF LoginPull
<1>4. CASE LoginCursor(v)
  <2>1. logic' = [logic EXCEPT ![v] = Idle] /\ UNCHANGED <<seq, messages, sent, reg, bound, got, acked, rpcs>>
    BY <1>4 DEF LoginCursor, dbVars, onlineVars, clientVars
  <2>2. /\ DOMAIN logic' = Server /\ LogicOK(logic[v])'
        /\ \A w \in Server : w # v => logic'[w] = logic[w]
    BY <2>1, LogicSet DEF LogicOK
  <2>. QED BY <1>0, <2>1, <2>2, CalmStep DEF Types
<1>. QED BY <1>1, <1>2, <1>3, <1>4 DEF LoginStep

-----------------------------------------------------------------------------
(* The ends of sessions and of processes.                                   *)

LEMMA SessionStore ==
    ASSUME StoreInv, NEW u \in User, SessionStep(u) PROVE StoreInv'
<1>1. /\ UNCHANGED <<seq, messages, sent, got, acked, rpcs, logic>>
      /\ reg' \in [User -> Server \cup {None}] /\ bound' \in [User -> Server \cup {None}]
  BY DEF SessionStep, Drop, Unregister, Unbind, RegLapse, dbVars, clientVars, StoreInv, Types
<1>. QED BY <1>1, CalmStep DEF StoreInv, Types

LEMMA CrashStore ==
    ASSUME StoreInv, NEW v \in Server, Crash(v) PROVE StoreInv'
<1>1. /\ logic' = [logic EXCEPT ![v] = Idle] /\ UNCHANGED <<seq, messages, sent, reg, got, acked>>
      /\ bound' \in [User -> Server \cup {None}]
  BY DEF Crash, dbVars, clientVars, StoreInv, Types
<1>2. /\ DOMAIN logic' = Server /\ LogicOK(logic[v])'
      /\ \A w \in Server : w # v => logic'[w] = logic[w]
  BY <1>1, LogicSet DEF LogicOK
<1>3. ASSUME NEW r \in rpcs'
      PROVE  /\ r \in [from: Server \cup {None}, to: Server, user: User, ids: SUBSET Msg]
             /\ \E q \in rpcs : q.ids = r.ids /\ q.user = r.user
  <2>1. PICK q \in rpcs : r = IF q.from = v THEN [q EXCEPT !.from = None] ELSE q
    BY DEF Crash
  <2>2. q \in [from: Server \cup {None}, to: Server, user: User, ids: SUBSET Msg]
    BY DEF StoreInv, Types
  <2>. QED BY <2>1, <2>2
<1>. QED BY <1>1, <1>2, <1>3, CalmStep DEF StoreInv, Types

LEMMA RpcStore ==
    ASSUME StoreInv, NEW r \in rpcs, RpcServe(r) \/ RpcLost(r) PROVE StoreInv'
<1>0. /\ r \in [from: Server \cup {None}, to: Server, user: User, ids: SUBSET Msg]
      /\ r.ids \subseteq Saved(r.user)
  BY DEF StoreInv, Types, RpcInv
<1>1. UNCHANGED <<seq, messages, sent, reg, bound, acked, logic>> /\ rpcs' = rpcs \ {r}
  BY DEF RpcServe, RpcLost, dbVars, onlineVars, clientVars
<1>2. got' \in [User -> SUBSET Msg] /\ \A w \in User : got'[w] \subseteq got[w] \cup Saved(w)
  <2>1. CASE RpcServe(r)
    BY <1>0, <2>1, PushEffect DEF RpcServe
  <2>2. CASE RpcLost(r)
    BY <2>2 DEF RpcLost, clientVars, StoreInv, Types
  <2>. QED BY <2>1, <2>2
<1>. QED BY <1>1, <1>2, CalmStep DEF StoreInv, Types

\* A request that is in order stays in order while messages and senders stay.
LEMMA JobStays ==
    ASSUME NEW l, JobOK(l), NEW v, logic'[v] = l, UNCHANGED <<messages, sent>>
    PROVE  JobOK(logic[v])'
<1>1. \A u : Saved(u)' = Saved(u)
  BY DEF Saved, Ids
<1>. QED BY <1>1 DEF JobOK

-----------------------------------------------------------------------------
(* DealChatTextMsg.                                                         *)

LEMMA DealJob ==
    ASSUME StoreInv, NEW v \in Server, IsDeal(logic[v])
    PROVE  JobOK(logic[v]) /\ logic[v] \in Deal
<1>1. LogicOK(logic[v])
  BY DEF StoreInv, LogicInv
<1>. QED BY <1>1 DEF LogicOK, IsDeal, Idle, JobOK

LEMMA BeginStore ==
    ASSUME StoreInv, NEW v \in Server, NEW p \in Talk, DealBegin(v, p[1], p[2]) PROVE StoreInv'
<1> DEFINE f == p[1]
           t == p[2]
<1>0. Types /\ RowInv /\ f \in User /\ t \in User /\ p = <<f, t>>
  BY TalkAssumption DEF StoreInv
<1>1. PICK k \in 1 .. MaxBatch : \E todo \in [1 .. k -> Texts(f, t)] :
        /\ sent'  = [m \in Msg |-> IF m \in Range(todo) THEN <<f, t>> ELSE sent[m]]
        /\ logic' = [logic EXCEPT ![v] = [pc |-> "save", from |-> f, to |-> t,
                                          todo |-> todo, saved |-> {}, num |-> None]]
  BY DEF DealBegin
<1>2. PICK todo \in [1 .. k -> Texts(f, t)] :
        /\ sent'  = [m \in Msg |-> IF m \in Range(todo) THEN <<f, t>> ELSE sent[m]]
        /\ logic' = [logic EXCEPT ![v] = [pc |-> "save", from |-> f, to |-> t,
                                          todo |-> todo, saved |-> {}, num |-> None]]
  BY <1>1
<1> DEFINE l == [pc |-> "save", from |-> f, to |-> t, todo |-> todo, saved |-> {}, num |-> None]
<1>3. k \in Nat /\ todo \in [1 .. k -> Msg] /\ todo \in Seq(Msg) /\ Len(todo) = k
  BY BoundAssumption DEF Texts
<1>4. \A m \in Range(todo) : m \in Msg /\ (sent[m] = None \/ sent[m] = <<f, t>>)
  BY DEF Range, Texts
<1>5. \A i \in 1 .. Len(todo) : todo[i] \in Range(todo)
  BY <1>3 DEF Range
<1>6. l \in Deal /\ l.from = f /\ l.to = t /\ l.todo = todo /\ l.saved = {} /\ l.num = None
  BY <1>0, <1>3 DEF Deal
<1>. HIDE DEF l
<1>7. /\ DOMAIN logic' = Server /\ logic'[v] = l
      /\ \A w \in Server : w # v => logic'[w] = logic[w]
  BY <1>2, LogicSet DEF l
<1>8. /\ sent' \in [Msg -> Talk \cup {None}]
      /\ \A m \in Range(todo) : sent'[m] = <<f, t>>
      /\ \A m \in Msg : sent[m] # None => sent'[m] = sent[m]
  BY <1>0, <1>2, <1>4 DEF Types
<1>9. JobOK(logic[v])'
  BY <1>0, <1>3, <1>5, <1>6, <1>7, <1>8 DEF JobOK
<1>10. UNCHANGED <<seq, messages, reg, bound, got, acked, rpcs>>
  BY DEF DealBegin, dbVars, onlineVars
<1>11. Types'
  BY <1>0, <1>7, <1>8, <1>10 DEF Types
<1>12. RowInv'
  <2>1. \A r \in messages : r.id \in Msg /\ sent[r.id] # None
    BY <1>0, TalkNone DEF RowInv, Types, Row
  <2>. QED BY <1>0, <1>8, <1>10, <2>1 DEF RowInv
<1>. QED BY <1>7, <1>8, <1>9, <1>10, <1>11, <1>12, StoreStep DEF LogicOK

LEMMA IncrStore == ASSUME StoreInv, NEW v \in Server, DealIncr(v) PROVE StoreInv'
<1>0. Types /\ IsDeal(logic[v]) /\ logic[v].todo # <<>>
  BY DEF DealIncr, IsDeal, StoreInv
<1>1. JobOK(logic[v]) /\ logic[v] \in Deal /\ ConvOf(v) \in Conv
  BY <1>0, DealJob DEF JobOK, ConvOf, Conv
<1>2. \E n \in Int : logic' = [logic EXCEPT ![v].num = n]
  <2>1. CASE logic' = [logic EXCEPT ![v].num = seq[ConvOf(v)] + 1]
    <3>1. seq[ConvOf(v)] + 1 \in Int
      BY <1>0, <1>1 DEF Types
    <3>. QED BY <2>1, <3>1
  <2>2. CASE logic' = [logic EXCEPT ![v].num = -1]
    <3>1. -1 \in Int
      OBVIOUS
    <3>. QED BY <2>2, <3>1
  <2>. QED BY <2>1, <2>2 DEF DealIncr
<1>3. PICK n \in Int : logic' = [logic EXCEPT ![v].num = n]
  BY <1>2
<1> DEFINE l == [logic[v] EXCEPT !.num = n]
<1>4. /\ l \in Deal /\ l.from = logic[v].from /\ l.to = logic[v].to /\ l.todo = logic[v].todo
      /\ l.saved = logic[v].saved
  BY <1>1 DEF Deal
<1>5. logic' = [logic EXCEPT ![v] = l]
  BY <1>0, <1>3 DEF Types
<1>6. JobOK(l)
  <2>. HIDE DEF l
  <2>. QED BY <1>0, <1>1, <1>4 DEF JobOK
<1>. HIDE DEF l
<1>7. /\ DOMAIN logic' = Server /\ logic'[v] = l
      /\ \A w \in Server : w # v => logic'[w] = logic[w]
  BY <1>5, LogicSet
<1>8. /\ UNCHANGED <<messages, sent, reg, bound, got, acked, rpcs>> /\ seq' \in [Conv -> Nat]
  BY <1>0, <1>1 DEF DealIncr, onlineVars, clientVars, Types
<1>9. LogicOK(logic[v])'
  BY <1>6, <1>7, <1>8, JobStays DEF LogicOK
<1>10. Types' /\ RowInv'
  BY <1>0, <1>7, <1>8 DEF StoreInv, Types, RowInv
<1>. QED BY <1>7, <1>8, <1>9, <1>10, StoreStep

\* The row that SaveMessage inserts, or finds.
LEMMA InsertedRow ==
    ASSUME StoreInv, NEW v \in Server, logic[v].pc = "save", logic[v].num # None
    PROVE  LET l == logic[v]
           IN  /\ l \in Deal /\ l.todo # <<>> /\ Head(l.todo) \in Msg /\ l.num \in Int
               /\ sent[Head(l.todo)] = <<l.from, l.to>> /\ <<l.from, l.to>> \in Talk
               /\ messages \subseteq Inserted(l)
               /\ \A r \in Inserted(l) : r \in messages \/
                    r = [id |-> Head(l.todo), from |-> l.from, to |-> l.to, seq |-> l.num]
               /\ \E r \in Inserted(l) : r.id = Head(l.todo) /\ r.to = l.to
               /\ Inserted(l) \in SUBSET Row
<1> DEFINE l == logic[v]
           new == [id |-> Head(l.todo), from |-> l.from, to |-> l.to, seq |-> l.num]
<1>1. JobOK(l) /\ l \in Deal
  BY DealJob DEF IsDeal
<1>2. l.todo # <<>> /\ l.todo \in Seq(Msg) /\ l.from \in User /\ l.to \in User /\ l.num \in Int
  BY <1>1 DEF JobOK, Deal
<1>3. Head(l.todo) \in Msg /\ Head(l.todo) = l.todo[1] /\ 1 \in 1 .. Len(l.todo)
  BY <1>2
<1>4. sent[Head(l.todo)] = <<l.from, l.to>> /\ <<l.from, l.to>> \in Talk
  BY <1>1, <1>3 DEF JobOK
<1>5. new \in Row /\ new.id = Head(l.todo) /\ new.to = l.to
  BY <1>2, <1>3 DEF Row
<1>6. messages \in SUBSET Row
  BY DEF StoreInv, Types
<1>7. CASE Head(l.todo) \in Ids(messages)
  <2>1. PICK r \in messages : r.id = Head(l.todo)
    BY <1>7 DEF Ids
  <2>2. r.to = l.to
    <3>1. sent[r.id] = <<r.from, r.to>>
      BY <2>1 DEF StoreInv, RowInv
    <3>. HIDE DEF l
    <3>. QED BY <1>4, <2>1, <3>1
  <2>3. Inserted(l) = messages
    BY <1>7 DEF Inserted
  <2>. HIDE DEF l, new
  <2>. QED BY <1>1, <1>2, <1>3, <1>4, <1>6, <2>1, <2>2, <2>3 DEF l
<1>8. CASE Head(l.todo) \notin Ids(messages)
  <2>1. Inserted(l) = messages \cup {new}
    BY <1>8 DEF Inserted
  <2>. QED BY <1>1, <1>2, <1>3, <1>4, <1>5, <1>6, <2>1
<1>. QED BY <1>7, <1>8

LEMMA SaveStore == ASSUME StoreInv, NEW v \in Server, DealSave(v) PROVE StoreInv'
<1>0. /\ Types /\ RowInv /\ logic[v].pc = "save" /\ logic[v].num # None
      /\ UNCHANGED <<seq, sent, reg, bound, got, acked, rpcs>>
  BY DEF DealSave, StoreInv, onlineVars, clientVars
<1>1. CASE messages' = Inserted(logic[v]) /\ logic' = [logic EXCEPT ![v] = SavedOne(@)]
  <2> DEFINE l == logic[v]
             m == SavedOne(l)
  <2>1. /\ l \in Deal /\ l.todo # <<>> /\ Head(l.todo) \in Msg
        /\ messages \subseteq messages'
        /\ \A r \in messages' : r \in messages \/
             r = [id |-> Head(l.todo), from |-> l.from, to |-> l.to, seq |-> l.num]
        /\ \E r \in messages' : r.id = Head(l.todo) /\ r.to = l.to
        /\ messages' \in SUBSET Row
        /\ sent[Head(l.todo)] = <<l.from, l.to>> /\ <<l.from, l.to>> \in Talk
    BY <1>0, <1>1, InsertedRow
  <2>2. logic' = [logic EXCEPT ![v] = m]
    BY <1>0, <1>1 DEF Types
  <2>3. JobOK(l)
    BY <1>0, DealJob DEF IsDeal
  <2>4. l.todo \in Seq(Msg) /\ l.saved \in SUBSET Msg
    BY <2>1 DEF Deal
  <2>5. /\ Tail(l.todo) \in Seq(Msg)
        /\ \A i \in 1 .. Len(Tail(l.todo)) :
              i + 1 \in 1 .. Len(l.todo) /\ Tail(l.todo)[i] = l.todo[i + 1]
    BY <2>1, <2>4
  <2>6. /\ m \in Deal /\ m.from = l.from /\ m.to = l.to /\ m.todo = Tail(l.todo)
        /\ m.saved = l.saved \cup {Head(l.todo)} /\ m.num = None
    BY <2>1, <2>4, <2>5 DEF SavedOne, Deal
  <2>. HIDE DEF m
  <2>7. /\ DOMAIN logic' = Server /\ logic'[v] = m
        /\ \A w \in Server : w # v => logic'[w] = logic[w]
    BY <2>2, LogicSet
  <2>8. \A u : u = l.to => Head(l.todo) \in Saved(u)' /\ Saved(u) \subseteq Saved(u)'
    BY <2>1, SavedGrows DEF Saved, Ids
  <2>9. \A i \in 1 .. Len(m.todo) : sent[m.todo[i]] = <<m.from, m.to>>
    <3>1. \A i \in 1 .. Len(l.todo) : sent[l.todo[i]] = <<l.from, l.to>>
      BY <2>3 DEF JobOK
    <3>2. ASSUME NEW i \in 1 .. Len(m.todo) PROVE sent[m.todo[i]] = <<m.from, m.to>>
      <4>1. i + 1 \in 1 .. Len(l.todo) /\ m.todo[i] = l.todo[i + 1]
        BY <2>5, <2>6
      <4>2. m.from = l.from /\ m.to = l.to
        BY <2>6
      <4>3. sent[l.todo[i + 1]] = <<l.from, l.to>>
        BY <3>1, <4>1
      <4>. HIDE DEF l
      <4>. QED BY <4>1, <4>2, <4>3
    <3>. QED BY <3>2
  <2>10. JobOK(logic[v])'
    <3>1. \A u : u = l.to => m.saved \subseteq Saved(u)'
      BY <2>3, <2>6, <2>8 DEF JobOK
    <3>2. m \in Deal /\ <<m.from, m.to>> \in Talk /\ m.num = None /\ m.to = l.to
      BY <2>3, <2>6 DEF JobOK
    <3>. HIDE DEF l
    <3>. QED BY <1>0, <2>7, <2>9, <3>1, <3>2 DEF JobOK
  <2>11. Types'
    BY <1>0, <2>1, <2>7 DEF Types
  <2>12. RowInv'
    <3>1. ASSUME NEW r \in messages' PROVE <<r.from, r.to>> \in Talk /\ sent[r.id] = <<r.from, r.to>>
      <4>1. CASE r \in messages
        BY <1>0, <4>1 DEF RowInv
      <4>2. CASE r = [id |-> Head(l.todo), from |-> l.from, to |-> l.to, seq |-> l.num]
        BY <2>1, <4>2
      <4>. QED BY <2>1, <4>1, <4>2
    <3>. QED BY <1>0, <3>1 DEF RowInv
  <2>. QED BY <1>0, <2>1, <2>7, <2>10, <2>11, <2>12, StoreStep DEF LogicOK
<1>2. CASE logic' = [logic EXCEPT ![v] = Idle] /\ UNCHANGED messages
  <2>1. /\ DOMAIN logic' = Server /\ LogicOK(logic[v])'
        /\ \A w \in Server : w # v => logic'[w] = logic[w]
    BY <1>2, LogicSet DEF LogicOK
  <2>. QED BY <1>0, <1>2, <2>1, CalmStep DEF Types
<1>. QED BY <1>1, <1>2 DEF DealSave

\* The request goes on to its call, or it ends and what it has saved is acknowledged.
LEMMA GoStore ==
    ASSUME StoreInv, NEW v \in Server, IsDeal(logic[v]), NEW pc \in DealPc, LogicGoto(v, pc)
    PROVE  /\ DOMAIN logic' = Server /\ logic'[v] = [logic[v] EXCEPT !.pc = pc]
           /\ \A w \in Server : w # v => logic'[w] = logic[w]
           /\ UNCHANGED <<messages, sent>> => LogicOK(logic[v])'
<1> DEFINE l == logic[v]
           m == [l EXCEPT !.pc = pc]
<1>1. JobOK(l) /\ l \in Deal
  BY DealJob
<1>2. /\ m \in Deal /\ m.from = l.from /\ m.to = l.to /\ m.todo = l.todo /\ m.saved = l.saved
      /\ m.num = l.num
  BY <1>1 DEF Deal, DealPc
<1>3. logic' = [logic EXCEPT ![v] = m]
  BY DEF LogicGoto, StoreInv, Types
<1>4. /\ DOMAIN logic' = Server /\ logic'[v] = m
      /\ \A w \in Server : w # v => logic'[w] = logic[w]
  <2>. HIDE DEF m
  <2>. QED BY <1>3, LogicSet
<1>5. ASSUME UNCHANGED <<messages, sent>> PROVE JobOK(logic[v])'
  <2>. HIDE DEF m
  <2>1. JobOK(m)
    BY <1>1, <1>2 DEF JobOK
  <2>. QED BY <1>4, <1>5, <2>1, JobStays
<1>. QED BY <1>4, <1>5 DEF LogicOK

LEMMA EndStore ==
    ASSUME StoreInv, NEW v \in Server, IsDeal(logic[v]), DealEnd(v),
           UNCHANGED <<seq, messages, sent, reg, bound>>,
           got' \in [User -> SUBSET Msg], \A u \in User : got'[u] \subseteq got[u] \cup Saved(u),
           rpcs' = rpcs
    PROVE  StoreInv'
<1>1. JobOK(logic[v])
  BY DealJob
<1>2. acked' \subseteq acked \cup Ids(messages)
  <2>1. logic[v].saved \subseteq Ids(messages)
    BY <1>1 DEF JobOK, Saved, Ids
  <2>. QED BY <2>1 DEF DealEnd
<1>3. /\ DOMAIN logic' = Server /\ LogicOK(logic[v])'
      /\ \A w \in Server : w # v => logic'[w] = logic[w]
  BY LogicSet DEF LogicOK, DealEnd
<1>. QED BY <1>2, <1>3, CalmStep DEF StoreInv, Types

LEMMA LookupStore == ASSUME StoreInv, NEW v \in Server, DealLookup(v) PROVE StoreInv'
<1>0. IsDeal(logic[v]) /\ UNCHANGED <<seq, messages, sent, reg, bound, got>> /\ Types /\ RpcInv
  BY DEF DealLookup, IsDeal, dbVars, onlineVars, StoreInv
<1>1. JobOK(logic[v]) /\ logic[v] \in Deal
  BY <1>0, DealJob
<1> DEFINE w == reg[logic[v].to]
           call == [from |-> v, to |-> w, user |-> logic[v].to, ids |-> logic[v].saved]
<1>2. CASE DealEnd(v) /\ UNCHANGED rpcs
  BY <1>0, <1>2, EndStore DEF Types
<1>3. CASE LogicGoto(v, "push") /\ UNCHANGED <<rpcs, acked>>
  <2>1. /\ DOMAIN logic' = Server /\ LogicOK(logic[v])'
        /\ \A x \in Server : x # v => logic'[x] = logic[x]
    BY <1>0, <1>3, GoStore DEF DealPc
  <2>. QED BY <1>0, <1>3, <2>1, CalmStep DEF Types
<1>4. CASE /\ w \notin {None, v} /\ rpcs' = rpcs \cup {call}
           /\ LogicGoto(v, "rpc") /\ UNCHANGED acked
  <2>1. /\ DOMAIN logic' = Server /\ LogicOK(logic[v])'
        /\ \A x \in Server : x # v => logic'[x] = logic[x]
    BY <1>0, <1>4, GoStore DEF DealPc
  <2>2. logic[v].to \in User /\ logic[v].saved \in SUBSET Msg /\ logic[v].saved \subseteq Saved(logic[v].to)
    BY <1>1 DEF Deal, JobOK
  <2>3. w \in Server
    BY <1>0, <1>4, <2>2 DEF Types
  <2>4. call \in [from: Server \cup {None}, to: Server, user: User, ids: SUBSET Msg]
    BY <2>2, <2>3
  <2>5. call.ids \subseteq Saved(call.user)
    BY <2>2
  <2>. HIDE DEF call, w
  <2>. QED BY <1>0, <1>4, <2>1, <2>4, <2>5, CalmStep DEF Types
<1>. QED BY <1>2, <1>3, <1>4 DEF DealLookup

LEMMA PushStore == ASSUME StoreInv, NEW v \in Server, DealPush(v) PROVE StoreInv'
<1>1. IsDeal(logic[v]) /\ DealEnd(v) /\ UNCHANGED <<seq, messages, sent, reg, bound, rpcs>>
  BY DEF DealPush, IsDeal, dbVars, onlineVars
<1>2. /\ logic[v].to \in User /\ logic[v].saved \in SUBSET Msg
      /\ logic[v].saved \subseteq Saved(logic[v].to)
  BY <1>1, DealJob DEF JobOK, Deal
<1>3. got' \in [User -> SUBSET Msg] /\ \A u \in User : got'[u] \subseteq got[u] \cup Saved(u)
  <2> DEFINE u == logic[v].to
             ids == logic[v].saved
  <2>1. Push(v, u, ids) /\ u \in User /\ ids \in SUBSET Msg /\ ids \subseteq Saved(u)
    BY <1>2 DEF DealPush
  <2>. HIDE DEF u, ids
  <2>2. /\ got' \in [User -> SUBSET Msg]
        /\ \A w \in User : got'[w] \subseteq got[w] \cup (IF w = u THEN ids ELSE {})
    BY <2>1, PushEffect
  <2>. QED BY <2>1, <2>2
<1>. QED BY <1>1, <1>3, EndStore

LEMMA ReplyStore == ASSUME StoreInv, NEW v \in Server, DealReply(v) PROVE StoreInv'
<1>1. IsDeal(logic[v]) /\ DealEnd(v) /\ UNCHANGED <<seq, messages, sent, reg, bound, rpcs, got>>
  BY DEF DealReply, IsDeal, dbVars, onlineVars
<1>. QED BY <1>1, EndStore DEF StoreInv, Types

-----------------------------------------------------------------------------
LEMMA StoreInit == Init => StoreInv
<1> SUFFICES ASSUME Init PROVE StoreInv
  OBVIOUS
<1>1. Types
  BY DEF Init, Types
<1>2. LogicInv
  BY DEF Init, LogicInv, LogicOK
<1>. QED BY <1>1, <1>2 DEF Init, StoreInv, RowInv, RpcInv, Durable, Ids

LEMMA StoreNext == StoreInv /\ [Next]_vars => StoreInv'
<1> SUFFICES ASSUME StoreInv, [Next]_vars PROVE StoreInv'
  OBVIOUS
<1>1. ASSUME NEW v \in Server, LoginStep(v) PROVE StoreInv'
  BY <1>1, LoginStore
<1>2. ASSUME NEW v \in Server, DealStep(v) PROVE StoreInv'
  BY <1>2, BeginStore, IncrStore, SaveStore, LookupStore, PushStore, ReplyStore DEF DealStep
<1>3. ASSUME NEW v \in Server, Crash(v) PROVE StoreInv'
  BY <1>3, CrashStore
<1>4. ASSUME NEW u \in User, SessionStep(u) PROVE StoreInv'
  BY <1>4, SessionStore
<1>5. ASSUME NEW r \in rpcs, RpcServe(r) \/ RpcLost(r) PROVE StoreInv'
  BY <1>5, RpcStore
<1>6. CASE UNCHANGED vars
  BY <1>6 DEF vars, dbVars, onlineVars, clientVars, StoreInv, Types, RowInv, LogicInv, LogicOK,
       JobOK, RpcInv, Durable, Saved, Ids
<1>. QED BY <1>1, <1>2, <1>3, <1>4, <1>5, <1>6 DEF Next

\* What the server has told a sender is sent is in MySQL, and what a user has been
\* shown is a saved message to that user, whatever fails: SaveMessage comes before
\* both the push and the answer of DealChatTextMsg.
THEOREM DurableCorrect == Spec => []Durable
<1>1. StoreInv => Durable
  BY DEF StoreInv
<1>. QED BY <1>1, StoreInit, StoreNext, PTL DEF Spec

-----------------------------------------------------------------------------
(* The numbers.                                                             *)

LEMMA NumCalm ==
    ASSUME NumInv, UNCHANGED <<seq, messages, faults>>,
           \A v \in Server : Holds(logic'[v]) => logic'[v] = logic[v]
    PROVE  NumInv'
<1> SUFFICES ASSUME "incr_fail" \notin faults PROVE (RowNumbers /\ HeldNumbers /\ RowsDiffer /\ HeldDiffer)'
  BY DEF NumInv
<1>1. RowNumbers /\ HeldNumbers /\ RowsDiffer /\ HeldDiffer
  BY DEF NumInv
<1>2. RowNumbers' /\ RowsDiffer'
  BY <1>1 DEF RowNumbers, RowsDiffer, Both
<1>3. HeldNumbers'
  <2>. SUFFICES ASSUME NEW v \in Server, Holds(logic'[v]) PROVE
         /\ logic'[v].num \in 1 .. seq'[Both(logic'[v])]
         /\ \A r \in messages' : Both(r) = Both(logic'[v]) => r.seq # logic'[v].num
    BY DEF HeldNumbers, Holds, Both
  <2>. QED BY <1>1 DEF HeldNumbers
<1>4. HeldDiffer'
  <2>. SUFFICES ASSUME NEW v \in Server, NEW w \in Server, v # w, Holds(logic'[v]),
                       Holds(logic'[w]), Both(logic'[v]) = Both(logic'[w])
                PROVE  logic'[v].num # logic'[w].num
    BY DEF HeldDiffer, Holds, Both
  <2>. QED BY <1>1 DEF HeldDiffer
<1>. QED BY <1>2, <1>3, <1>4

\* What a server turns to holds no number: one step of its logic thread.
LEMMA NumTurns ==
    ASSUME StoreInv, NumInv, UNCHANGED <<seq, messages, faults>>, NEW v \in Server,
           NEW l, logic' = [logic EXCEPT ![v] = l], ~Holds(l)
    PROVE  NumInv'
  BY LogicSet, NumCalm

LEMMA IdleHolds == ~Holds(Idle)
  BY DEF Holds, Idle

LEMMA LoginNumbers ==
    ASSUME StoreInv, NumInv, faults' = faults, NEW v \in Server, LoginStep(v) PROVE NumInv'
<1>0. UNCHANGED <<seq, messages>>
  BY DEF LoginStep, LoginBegin, LoginKick, LoginSetIp, LoginBind, LoginPull, LoginCursor, dbVars
<1>1. ASSUME NEW u \in User, LoginBegin(v, u) PROVE NumInv'
  <2> DEFINE l == [pc |-> "kick", user |-> u]
  <2>1. logic' = [logic EXCEPT ![v] = l] /\ ~Holds(l)
    BY <1>1 DEF LoginBegin, Holds
  <2>. HIDE DEF l
  <2>. QED BY <1>0, <2>1, NumTurns
<1>2. ASSUME NEW pc \in {"setip", "bind", "pull"}, LogicGoto(v, pc), logic[v].pc \in {"kick", "setip", "bind"}
      PROVE  NumInv'
  <2> DEFINE l == [logic[v] EXCEPT !.pc = pc]
  <2>1. logic' = [logic EXCEPT ![v] = l]
    BY <1>2 DEF LogicGoto, StoreInv, Types
  <2>2. logic[v] \in [pc: {"kick", "setip", "bind", "pull"}, user: User]
    <3>1. LogicOK(logic[v])
      BY DEF StoreInv, LogicInv
    <3>. QED BY <1>2, <3>1 DEF LogicOK, Idle, JobOK, Deal
  <2>3. l.pc # "save"
    BY <1>2, <2>2
  <2>. HIDE DEF l
  <2>. QED BY <1>0, <2>1, <2>3, NumTurns DEF Holds
<1>3. CASE LoginPull(v)
  <2>1. PICK l \in {Idle} \cup [pc: {"cursor"}, user: {logic[v].user}, max: {MaxSeq(B) : B \in FirstOf(Unread(logic[v].user))}] :
          logic' = [logic EXCEPT ![v] = l]
    BY <1>3 DEF LoginPull
  <2>2. ~Holds(l)
    BY <2>1, IdleHolds DEF Holds
  <2>. QED BY <1>0, <2>1, <2>2, NumTurns
<1>4. CASE LoginCursor(v)
  BY <1>0, <1>4, IdleHolds, NumTurns DEF LoginCursor
<1>. QED BY <1>1, <1>2, <1>3, <1>4 DEF LoginStep, LoginKick, LoginSetIp, LoginBind

LEMMA BeginNumbers ==
    ASSUME StoreInv, NumInv, faults' = faults, NEW v \in Server, NEW p \in Talk,
           DealBegin(v, p[1], p[2])
    PROVE  NumInv'
<1>1. PICK todo : logic' = [logic EXCEPT ![v] = [pc |-> "save", from |-> p[1], to |-> p[2],
                                          todo |-> todo, saved |-> {}, num |-> None]]
  BY DEF DealBegin
<1> DEFINE l == [pc |-> "save", from |-> p[1], to |-> p[2], todo |-> todo, saved |-> {}, num |-> None]
<1>2. ~Holds(l)
  BY DEF Holds
<1>3. UNCHANGED <<seq, messages>> /\ logic' = [logic EXCEPT ![v] = l]
  BY <1>1 DEF DealBegin, dbVars
<1>. HIDE DEF l
<1>. QED BY <1>2, <1>3, NumTurns

\* Without a failure Incr gives out the number behind all that were given out before.
LEMMA IncrNumbers ==
    ASSUME StoreInv, NumInv, faults' = faults, NEW v \in Server, DealIncr(v) PROVE NumInv'
<1> SUFFICES ASSUME "incr_fail" \notin faults PROVE NumInv'
  BY DEF NumInv
<1>0. Types /\ RowNumbers /\ HeldNumbers /\ RowsDiffer /\ HeldDiffer
  BY DEF NumInv, StoreInv
<1>1. JobOK(logic[v]) /\ logic[v] \in Deal
  BY DealJob DEF DealIncr, IsDeal
<1> DEFINE c == Both(logic[v])
           n == seq[c] + 1
           l == [logic[v] EXCEPT !.num = n]
<1>2. c \in Conv /\ seq[c] \in Nat /\ n \in Nat
  <2>1. c \in Conv
    BY <1>1 DEF JobOK, Conv, Both
  <2>. HIDE DEF c
  <2>. QED BY <1>0, <2>1 DEF Types
<1>3. /\ seq' = [seq EXCEPT ![c] = @ + 1] /\ logic' = [logic EXCEPT ![v].num = n]
      /\ UNCHANGED messages
  BY DEF DealIncr, ConvOf, Both
<1>4. Both(l) = c /\ l.num = n
  BY <1>1 DEF Deal, Both
<1>5. /\ DOMAIN logic' = Server /\ logic'[v] = l
      /\ \A w \in Server : w # v => logic'[w] = logic[w]
  <2>1. logic' = [logic EXCEPT ![v] = l]
    BY <1>0, <1>3 DEF Types
  <2>. HIDE DEF l
  <2>. QED BY <2>1, LogicSet
<1>6. seq'[c] = n /\ \A d \in Conv : d # c => seq'[d] = seq[d]
  <2>. HIDE DEF c
  <2>. QED BY <1>0, <1>2, <1>3 DEF Types
<1>7. \A r \in messages : Both(r) \in Conv /\ r.seq \in Int
  <2> SUFFICES ASSUME NEW r \in messages PROVE Both(r) \in Conv /\ r.seq \in Int
    OBVIOUS
  <2>1. r \in Row /\ <<r.from, r.to>> \in Talk
    BY DEF StoreInv, RowInv, Types
  <2>2. \E p \in Talk : p[1] = r.from /\ p[2] = r.to
    <3> DEFINE p == <<r.from, r.to>>
    <3>1. p \in Talk /\ p[1] = r.from /\ p[2] = r.to
      BY <2>1
    <3>. HIDE DEF p
    <3>. QED BY <3>1
  <2>. QED BY <2>1, <2>2 DEF Row, Both, Conv
<1>8. \A r \in messages : r.seq \in 1 .. seq'[Both(r)] /\ (Both(r) = c => r.seq # n)
  <2>. HIDE DEF l, c
  <2>. QED BY <1>0, <1>2, <1>6, <1>7 DEF RowNumbers
<1>9. ASSUME NEW w \in Server, w # v, Holds(logic[w])
      PROVE  /\ logic[w].num \in 1 .. seq'[Both(logic[w])]
             /\ Both(logic[w]) = c => logic[w].num # n
  <2>1. Both(logic[w]) \in Conv
    <3>1. JobOK(logic[w])
      BY <1>9, DealJob DEF Holds, IsDeal
    <3>. QED BY <3>1 DEF JobOK, Conv, Both
  <2>2. logic[w].num \in 1 .. seq[Both(logic[w])] /\ seq[Both(logic[w])] \in Nat
    BY <1>0, <1>9, <2>1 DEF HeldNumbers, Types
  <2>. HIDE DEF l, c
  <2>. QED BY <1>2, <1>6, <2>1, <2>2
<1>. HIDE DEF l, n, c
<1>10. RowNumbers' /\ RowsDiffer'
  BY <1>0, <1>3, <1>8 DEF RowNumbers, RowsDiffer, Both
<1>11. HeldNumbers'
  <2>. SUFFICES ASSUME NEW w \in Server, Holds(logic'[w]) PROVE
         /\ logic'[w].num \in 1 .. seq'[Both(logic'[w])]
         /\ \A r \in messages' : Both(r) = Both(logic'[w]) => r.seq # logic'[w].num
    BY DEF HeldNumbers, Holds, Both
  <2>1. CASE w = v
    <3>1. n \in 1 .. n
      BY <1>2, <1>6 DEF n
    <3>. QED BY <1>3, <1>4, <1>5, <1>6, <1>8, <2>1, <3>1
  <2>2. CASE w # v
    BY <1>0, <1>3, <1>5, <1>9, <2>2 DEF HeldNumbers
  <2>. QED BY <2>1, <2>2
<1>12. HeldDiffer'
  <2>. SUFFICES ASSUME NEW w \in Server, NEW x \in Server, w # x, Holds(logic'[w]),
                       Holds(logic'[x]), Both(logic'[w]) = Both(logic'[x])
                PROVE  logic'[w].num # logic'[x].num
    BY DEF HeldDiffer, Holds, Both
  <2>1. CASE w = v
    BY <1>4, <1>5, <1>9, <2>1
  <2>2. CASE x = v
    BY <1>4, <1>5, <1>9, <2>2
  <2>3. CASE w # v /\ x # v
    BY <1>0, <1>5, <2>3 DEF HeldDiffer
  <2>. QED BY <2>1, <2>2, <2>3
<1>. QED BY <1>10, <1>11, <1>12 DEF NumInv

\* The row saved takes the number its request held.
LEMMA SaveNumbers ==
    ASSUME StoreInv, NumInv, faults' = faults, NEW v \in Server, DealSave(v) PROVE NumInv'
<1> SUFFICES ASSUME "incr_fail" \notin faults PROVE NumInv'
  BY DEF NumInv
<1>0. /\ Types /\ RowNumbers /\ HeldNumbers /\ RowsDiffer /\ HeldDiffer
      /\ Holds(logic[v]) /\ UNCHANGED seq
  BY DEF NumInv, StoreInv, DealSave, Holds
<1>1. CASE messages' = Inserted(logic[v]) /\ logic' = [logic EXCEPT ![v] = SavedOne(@)]
  <2> DEFINE l == logic[v]
             m == SavedOne(l)
             new == [id |-> Head(l.todo), from |-> l.from, to |-> l.to, seq |-> l.num]
  <2>1. \A r \in messages' : r \in messages \/ r = new
    BY <1>0, <1>1, InsertedRow DEF Holds
  <2>2. Both(new) = Both(l) /\ new.seq = l.num
    BY DEF Both
  <2>3. ~Holds(m)
    <3>1. l \in Deal
      BY <1>0, DealJob DEF Holds, IsDeal
    <3>. QED BY <3>1 DEF SavedOne, Deal, Holds
  <2>4. logic' = [logic EXCEPT ![v] = m]
    BY <1>0, <1>1 DEF Types
  <2>. HIDE DEF m, new
  <2>5. ~Holds(logic'[v]) /\ \A w \in Server : w # v => logic'[w] = logic[w]
    BY <2>3, <2>4, LogicSet
  <2>6. /\ l.num \in 1 .. seq[Both(l)] /\ \A r \in messages : Both(r) = Both(l) => r.seq # l.num
    BY <1>0 DEF HeldNumbers
  <2>7. RowNumbers'
    <3>1. \A r \in messages' : r.seq \in 1 .. seq'[Both(r)]
      BY <1>0, <2>1, <2>2, <2>6 DEF RowNumbers
    <3>. QED BY <3>1 DEF RowNumbers, Both
  <2>8. RowsDiffer'
    <3>1. \A r, q \in messages' : Both(r) = Both(q) /\ r.seq = q.seq => r = q
      BY <1>0, <2>1, <2>2, <2>6 DEF RowsDiffer
    <3>. QED BY <3>1 DEF RowsDiffer, Both
  <2>9. HeldNumbers'
    <3>. SUFFICES ASSUME NEW w \in Server, Holds(logic'[w]) PROVE
           /\ logic'[w].num \in 1 .. seq'[Both(logic'[w])]
           /\ \A r \in messages' : Both(r) = Both(logic'[w]) => r.seq # logic'[w].num
      BY DEF HeldNumbers, Holds, Both
    <3>1. w # v /\ logic'[w] = logic[w]
      BY <2>5
    <3>. QED BY <1>0, <2>1, <2>2, <3>1 DEF HeldNumbers, HeldDiffer
  <2>10. HeldDiffer'
    <3>. SUFFICES ASSUME NEW w \in Server, NEW x \in Server, w # x, Holds(logic'[w]),
                         Holds(logic'[x]), Both(logic'[w]) = Both(logic'[x])
                  PROVE  logic'[w].num # logic'[x].num
      BY DEF HeldDiffer, Holds, Both
    <3>. QED BY <1>0, <2>5 DEF HeldDiffer
  <2>. QED BY <2>7, <2>8, <2>9, <2>10 DEF NumInv
<1>2. CASE logic' = [logic EXCEPT ![v] = Idle] /\ UNCHANGED messages
  BY <1>0, <1>2, IdleHolds, NumTurns
<1>. QED BY <1>1, <1>2 DEF DealSave

LEMMA EndNumbers ==
    ASSUME StoreInv, NumInv, faults' = faults, NEW v \in Server,
           DealLookup(v) \/ DealPush(v) \/ DealReply(v) \/ Crash(v)
    PROVE  NumInv'
<1>1. UNCHANGED <<seq, messages>>
  BY DEF DealLookup, DealPush, DealReply, Crash, dbVars
<1>2. CASE logic' = [logic EXCEPT ![v] = Idle]
  BY <1>1, <1>2, IdleHolds, NumTurns
<1>3. ASSUME NEW pc \in {"push", "rpc"}, LogicGoto(v, pc), IsDeal(logic[v]) PROVE NumInv'
  <2>1. pc \in DealPc /\ logic[v] \in Deal
    BY <1>3, DealJob DEF DealPc
  <2>2. /\ logic'[v] = [logic[v] EXCEPT !.pc = pc] /\ \A w \in Server : w # v => logic'[w] = logic[w]
    BY <1>3, <2>1, GoStore
  <2>3. logic'[v].pc = pc
    BY <2>1, <2>2 DEF Deal
  <2>. QED BY <1>1, <1>3, <2>2, <2>3, NumCalm DEF Holds
<1>. QED BY <1>2, <1>3 DEF DealLookup, DealPush, DealReply, DealEnd, Crash, IsDeal

LEMMA NumInit == Init => NumInv
<1> SUFFICES ASSUME Init PROVE NumInv
  OBVIOUS
<1>1. \A v \in Server : ~Holds(logic[v])
  BY IdleHolds DEF Init
<1>2. messages = {}
  BY DEF Init
<1>. QED BY <1>1, <1>2 DEF NumInv, RowNumbers, HeldNumbers, RowsDiffer, HeldDiffer

LEMMA NumNext == StoreInv /\ NumInv /\ [Next]_vars => NumInv'
<1> SUFFICES ASSUME StoreInv, NumInv, [Next]_vars PROVE NumInv'
  OBVIOUS
<1>0. faults' = faults
  BY DEF Next, vars
<1>1. ASSUME NEW v \in Server, LoginStep(v) PROVE NumInv'
  BY <1>0, <1>1, LoginNumbers
<1>2. ASSUME NEW v \in Server, DealStep(v) PROVE NumInv'
  BY <1>0, <1>2, BeginNumbers, IncrNumbers, SaveNumbers, EndNumbers DEF DealStep
<1>3. ASSUME NEW v \in Server, Crash(v) PROVE NumInv'
  BY <1>0, <1>3, EndNumbers
<1>4. CASE UNCHANGED <<seq, messages, logic>>
  BY <1>0, <1>4, NumCalm
<1>5. ASSUME NEW u \in User, SessionStep(u) PROVE UNCHANGED <<seq, messages, logic>>
  BY <1>5 DEF SessionStep, Drop, Unregister, Unbind, RegLapse, dbVars
<1>6. ASSUME NEW r \in rpcs, RpcServe(r) \/ RpcLost(r) PROVE UNCHANGED <<seq, messages, logic>>
  BY <1>6 DEF RpcServe, RpcLost, dbVars
<1>7. CASE UNCHANGED vars
  BY <1>4, <1>7 DEF vars, dbVars
<1>. QED BY <1>1, <1>2, <1>3, <1>4, <1>5, <1>6, <1>7 DEF Next

\* The table grows by a row at a time, so that a page of it can be counted.
FiniteTable == IsFiniteSet(messages)

LEMMA FiniteInit == Init => FiniteTable
  BY FS_EmptySet DEF Init, FiniteTable

LEMMA FiniteNext == FiniteTable /\ [Next]_vars => FiniteTable'
<1> SUFFICES ASSUME FiniteTable, [Next]_vars PROVE FiniteTable'
  OBVIOUS
<1>1. CASE UNCHANGED messages
  BY <1>1 DEF FiniteTable
<1>2. ASSUME NEW v \in Server, DealSave(v) PROVE FiniteTable'
  <2>1. CASE messages' = Inserted(logic[v])
    <3>1. PICK row : messages' = messages \/ messages' = messages \cup {row}
      BY <2>1 DEF Inserted
    <3>. QED BY <3>1, FS_AddElement DEF FiniteTable
  <2>. QED BY <1>2, <1>1, <2>1 DEF DealSave
<1>3. ASSUME NEW v \in Server, LoginStep(v) \/ Crash(v) PROVE UNCHANGED messages
  BY <1>3 DEF LoginStep, LoginBegin, LoginKick, LoginSetIp, LoginBind, LoginPull, LoginCursor,
              Crash, dbVars
<1>4. ASSUME NEW v \in Server, DealStep(v) PROVE DealSave(v) \/ UNCHANGED messages
  BY <1>4 DEF DealStep, DealBegin, DealIncr, DealLookup, DealPush, DealReply, dbVars
<1>5. ASSUME NEW u \in User, SessionStep(u) PROVE UNCHANGED messages
  BY <1>5 DEF SessionStep, Drop, Unregister, Unbind, RegLapse, dbVars
<1>6. ASSUME NEW r \in rpcs, RpcServe(r) \/ RpcLost(r) PROVE UNCHANGED messages
  BY <1>6 DEF RpcServe, RpcLost, dbVars
<1>7. CASE UNCHANGED vars
  BY <1>1, <1>7 DEF vars, dbVars
<1>. QED BY <1>1, <1>2, <1>3, <1>4, <1>5, <1>6, <1>7 DEF Next

\* A page is not empty while there is a row in front of its number.
LEMMA PageNotEmpty ==
    ASSUME StoreInv, FiniteTable, NEW c, NEW before, NEW lim \in Nat \ {0},
           NEW B \in History(c, before, lim), NEW r \in Rows(c), r.seq < before
    PROVE  B # {}
<1> DEFINE R == {x \in Rows(c) : x.seq < before}
<1>1. IsFiniteSet(R) /\ Cardinality(R) \in Nat
  BY FS_Subset, FS_CardinalityType DEF Rows, FiniteTable
<1>2. Cardinality(R) # 0
  BY <1>1, FS_EmptySet
<1>3. Cardinality(B) = IF Cardinality(R) < lim THEN Cardinality(R) ELSE lim
  BY DEF History
<1>. HIDE DEF R
<1>4. Cardinality(B) # 0
  BY <1>1, <1>2, <1>3
<1>. QED BY <1>4, FS_EmptySet

\* Pages of GetHistoryMessages of any length show everything: there is a message on the
\* page while one is in front of it, and none falls between the page and the one before,
\* for the rows of a conversation have different numbers. Incr counts on whatever the
\* requests of the other servers do, whoever crashes or repeats; only when it fails itself
\* do two messages get the same number.
THEOREM HistoryCompleteCorrect == Spec => []HistoryComplete
<1>1. ASSUME StoreInv, NumInv, FiniteTable PROVE HistoryComplete
  <2> SUFFICES ASSUME "incr_fail" \notin faults, NEW c \in Conv, NEW lim \in 1 .. MaxPage,
                      NEW before \in {r.seq + 1 : r \in Rows(c)}, NEW B \in History(c, before, lim)
               PROVE  /\ B # {}
                      /\ \A r \in Rows(c) :
                            r.seq < before => r \in B \/ \A s \in B : r.seq < s.seq
    BY DEF HistoryComplete
  <2>1. B # {}
    <3>1. PICK r \in Rows(c) : before = r.seq + 1
      OBVIOUS
    <3>2. r.seq \in Int
      BY <1>1 DEF Rows, StoreInv, Types, Row
    <3>3. lim \in Nat \ {0}
      BY BoundAssumption
    <3>. QED BY <1>1, <3>1, <3>2, <3>3, PageNotEmpty
  <2>2. ASSUME NEW r \in Rows(c), r.seq < before, r \notin B, NEW q \in B PROVE r.seq < q.seq
    <3>1. B \subseteq {x \in Rows(c) : x.seq < before} /\ r.seq <= q.seq
      BY <2>2 DEF History
    <3>2. q \in messages /\ r \in messages /\ Both(q) = c /\ Both(r) = c
      BY <2>2, <3>1 DEF Rows, Both
    <3>3. q.seq \in Int /\ r.seq \in Int
      BY <1>1, <3>2 DEF StoreInv, Types, Row
    <3>4. q.seq # r.seq
      BY <1>1, <2>2, <3>2 DEF NumInv, RowsDiffer
    <3>. QED BY <3>1, <3>3, <3>4
  <2>. QED BY <2>1, <2>2
<1>. QED BY <1>1, StoreInit, StoreNext, NumInit, NumNext, FiniteInit, FiniteNext, PTL DEF Spec

-----------------------------------------------------------------------------
(* ChatDelivery implements Mailbox.                                         *)

LEMMA SavedFor == ASSUME StoreInv, NEW u PROVE Saved(u) \subseteq Mail!For(u)
<1>1. \A r \in messages : sent[r.id] = <<r.from, r.to>> /\ <<r.from, r.to>> # None
  BY TalkNone DEF StoreInv, RowInv
<1>2. ASSUME NEW m \in Saved(u) PROVE m \in Ids(messages) /\ sent[m] # None /\ sent[m][2] = u
  <2>1. PICK r \in messages : r.id = m /\ r.to = u
    BY SavedMember
  <2>2. m \in Ids(messages)
    BY <2>1 DEF Ids
  <2>. QED BY <1>1, <2>1, <2>2
<1>. QED BY <1>2 DEF Mail!For

\* Steps that leave the messages alone hand saved ones to one user at most.
LEMMA MailDeliver ==
    ASSUME StoreInv, UNCHANGED <<messages, sent>>, NEW u \in User, NEW S \in SUBSET Saved(u),
           got' = got \/ got' = [got EXCEPT ![u] = @ \cup S],
           NEW C \in SUBSET Ids(messages), acked' = acked \cup C
    PROVE  [Mail!Next]_(Mail!vars)
<1>0. Ids(messages)' = Ids(messages)
  BY DEF Ids
<1>1. S \subseteq Mail!For(u)
  BY SavedFor
<1>2. CASE got' = [got EXCEPT ![u] = @ \cup S]
  <2>1. Mail!Deliver(u, S, C)
    BY <1>0, <1>1, <1>2 DEF Mail!Deliver
  <2>. QED BY <1>1, <2>1 DEF Mail!Next
<1>3. CASE got' = got
  <2>1. got' = [got EXCEPT ![u] = @ \cup {}]
    BY <1>3 DEF StoreInv, Types
  <2>2. Mail!Deliver(u, {}, C)
    BY <1>0, <2>1 DEF Mail!Deliver
  <2>3. {} \in SUBSET Mail!For(u)
    OBVIOUS
  <2>. QED BY <2>2, <2>3 DEF Mail!Next
<1>. QED BY <1>2, <1>3

LEMMA MailCalm ==
    ASSUME UNCHANGED <<messages, clientVars>> PROVE [Mail!Next]_(Mail!vars)
  BY DEF clientVars, Mail!vars, Ids

LEMMA MailLogin ==
    ASSUME StoreInv, NEW v \in Server, LoginStep(v) PROVE [Mail!Next]_(Mail!vars)
<1>1. CASE \/ \E u \in User : LoginBegin(v, u)
           \/ LoginKick(v) \/ LoginSetIp(v) \/ LoginBind(v) \/ LoginCursor(v)
  BY <1>1, MailCalm DEF LoginBegin, LoginKick, LoginSetIp, LoginBind, LoginCursor, dbVars
<1>2. CASE LoginPull(v)
  <2> DEFINE u == logic[v].user
  <2>1. u \in User
    <3>1. LogicOK(logic[v]) /\ logic[v].pc = "pull"
      BY <1>2 DEF LoginPull, StoreInv, LogicInv
    <3>. QED BY <3>1 DEF LogicOK, Idle, JobOK, Deal
  <2>2. UNCHANGED <<messages, sent, acked>>
    BY <1>2 DEF LoginPull, dbVars
  <2>3. got' = got \/ \E B \in FirstOf(Unread(u)) : Send(u, Ids(B))
    BY <1>2 DEF LoginPull
  <2>4. \A B \in FirstOf(Unread(u)) : Ids(B) \subseteq Saved(u)
    BY DEF FirstOf, Unread, Ids, Saved
  <2>5. PICK S \in SUBSET Saved(u) : got' = got \/ got' = [got EXCEPT ![u] = @ \cup S]
    BY <2>1, <2>3, <2>4 DEF Send, StoreInv, Types
  <2>6. acked' = acked \cup {} /\ {} \in SUBSET Ids(messages)
    BY <2>2
  <2>7. PICK w \in User : w = u
    BY <2>1
  <2>. HIDE DEF u
  <2>. QED BY <2>2, <2>5, <2>6, <2>7, MailDeliver
<1>. QED BY <1>1, <1>2 DEF LoginStep

LEMMA MailWrite ==
    ASSUME StoreInv, NEW v \in Server, NEW p \in Talk, DealBegin(v, p[1], p[2])
    PROVE  [Mail!Next]_(Mail!vars)
<1>0. p = <<p[1], p[2]>>
  BY TalkAssumption
<1>1. PICK k \in 1 .. MaxBatch : \E todo \in [1 .. k -> Texts(p[1], p[2])] :
        sent' = [m \in Msg |-> IF m \in Range(todo) THEN <<p[1], p[2]>> ELSE sent[m]]
  BY DEF DealBegin
<1>2. PICK todo \in [1 .. k -> Texts(p[1], p[2])] :
        sent' = [m \in Msg |-> IF m \in Range(todo) THEN p ELSE sent[m]]
  BY <1>0, <1>1
<1>3. \A m \in Range(todo) : m \in Msg /\ sent[m] \in {None, p}
  BY <1>0 DEF Range, Texts
<1>4. UNCHANGED <<messages, acked, got>> /\ Ids(messages)' = Ids(messages)
  BY DEF DealBegin, dbVars, Ids
<1>5. PICK M \in SUBSET Msg : M = Range(todo)
  BY <1>3
<1>6. Mail!Write(p, M)
  BY <1>2, <1>3, <1>4, <1>5 DEF Mail!Write
<1>. QED BY <1>6 DEF Mail!Next

LEMMA MailStore ==
    ASSUME StoreInv, NEW v \in Server, DealSave(v) PROVE [Mail!Next]_(Mail!vars)
<1>0. UNCHANGED <<sent, acked, got>>
  BY DEF DealSave, clientVars
<1>1. CASE UNCHANGED messages
  BY <1>0, <1>1 DEF Mail!vars, Ids
<1>2. CASE messages' = Inserted(logic[v])
  <2> DEFINE l == logic[v]
             m == Head(l.todo)
  <2>1. /\ m \in Msg /\ sent[m] = <<l.from, l.to>> /\ <<l.from, l.to>> \in Talk
        /\ messages \subseteq Inserted(l)
        /\ \A r \in Inserted(l) : r \in messages \/
             r = [id |-> m, from |-> l.from, to |-> l.to, seq |-> l.num]
        /\ \E r \in Inserted(l) : r.id = m
    BY InsertedRow DEF DealSave
  <2>2. sent[m] # None
    BY <2>1, TalkNone
  <2>3. Ids(messages)' = Ids(messages) \cup {m}
    BY <1>2, <2>1 DEF Ids
  <2>4. Mail!Store(m)
    BY <1>0, <2>2, <2>3 DEF Mail!Store
  <2>. QED BY <2>1, <2>4 DEF Mail!Next
<1>. QED BY <1>1, <1>2 DEF DealSave

\* What a request answers with Success is saved.
LEMMA MailEnd ==
    ASSUME StoreInv, NEW v \in Server, IsDeal(logic[v]), UNCHANGED <<messages, sent>>,
           acked' = acked \cup logic[v].saved,
           got' = got \/ got' = [got EXCEPT ![logic[v].to] = @ \cup logic[v].saved]
    PROVE  [Mail!Next]_(Mail!vars)
<1>1. JobOK(logic[v]) /\ logic[v] \in Deal
  BY DealJob
<1>2. PICK u \in User : u = logic[v].to
  BY <1>1 DEF Deal
<1>3. PICK S \in SUBSET Saved(u) : S = logic[v].saved
  BY <1>1, <1>2 DEF JobOK
<1>4. S \in SUBSET Ids(messages)
  BY <1>3 DEF Saved, Ids
<1>. QED BY <1>2, <1>3, <1>4, MailDeliver

LEMMA MailDeal ==
    ASSUME StoreInv, NEW v \in Server, DealStep(v) PROVE [Mail!Next]_(Mail!vars)
<1>1. CASE \E p \in Talk : DealBegin(v, p[1], p[2])
  BY <1>1, MailWrite
<1>2. CASE DealIncr(v)
  BY <1>2, MailCalm DEF DealIncr
<1>3. CASE DealSave(v)
  BY <1>3, MailStore
<1>4. CASE DealLookup(v)
  <2>1. UNCHANGED <<messages, sent, got>> /\ IsDeal(logic[v])
    BY <1>4 DEF DealLookup, dbVars, IsDeal
  <2>2. CASE DealEnd(v)
    BY <2>1, <2>2, MailEnd DEF DealEnd
  <2>3. CASE UNCHANGED acked
    BY <2>1, <2>3 DEF Mail!vars, Ids
  <2>. QED BY <1>4, <2>2, <2>3 DEF DealLookup
<1>5. CASE DealPush(v)
  <2>1. UNCHANGED <<messages, sent>> /\ IsDeal(logic[v]) /\ acked' = acked \cup logic[v].saved
    BY <1>5 DEF DealPush, DealEnd, dbVars, IsDeal
  <2>2. got' = got \/ got' = [got EXCEPT ![logic[v].to] = @ \cup logic[v].saved]
    BY <1>5 DEF DealPush, Push, Send, StoreInv, Types
  <2>. QED BY <2>1, <2>2, MailEnd
<1>6. CASE DealReply(v)
  <2>1. UNCHANGED <<messages, sent, got>> /\ IsDeal(logic[v]) /\ acked' = acked \cup logic[v].saved
    BY <1>6 DEF DealReply, DealEnd, dbVars, IsDeal
  <2>. QED BY <2>1, MailEnd
<1>. QED BY <1>1, <1>2, <1>3, <1>4, <1>5, <1>6 DEF DealStep

LEMMA MailRpc ==
    ASSUME StoreInv, NEW r \in rpcs, RpcServe(r) \/ RpcLost(r) PROVE [Mail!Next]_(Mail!vars)
<1>1. CASE RpcLost(r)
  BY <1>1, MailCalm DEF RpcLost, dbVars
<1>2. CASE RpcServe(r)
  <2>1. r.user \in User /\ r.ids \subseteq Saved(r.user)
    BY DEF StoreInv, Types, RpcInv
  <2>2. PICK u \in User : u = r.user
    BY <2>1
  <2>3. PICK S \in SUBSET Saved(u) : S = r.ids
    BY <2>1, <2>2
  <2>4. UNCHANGED <<messages, sent>> /\ acked' = acked \cup {} /\ {} \in SUBSET Ids(messages)
    BY <1>2 DEF RpcServe, dbVars
  <2>5. got' = got \/ got' = [got EXCEPT ![u] = @ \cup S]
    BY <1>2, <2>2, <2>3 DEF RpcServe, Push, Send, StoreInv, Types
  <2>. QED BY <2>4, <2>5, MailDeliver
<1>. QED BY <1>1, <1>2

LEMMA MailStep == ASSUME StoreInv, [Next]_vars PROVE [Mail!Next]_(Mail!vars)
<1>1. ASSUME NEW v \in Server, Crash(v) PROVE [Mail!Next]_(Mail!vars)
  BY <1>1, MailCalm DEF Crash, dbVars
<1>2. ASSUME NEW u \in User, SessionStep(u) PROVE [Mail!Next]_(Mail!vars)
  BY <1>2, MailCalm DEF SessionStep, Drop, Unregister, Unbind, RegLapse, dbVars
<1>3. CASE UNCHANGED vars
  BY <1>3, MailCalm DEF vars, dbVars
<1>. QED BY <1>1, <1>2, <1>3, MailLogin, MailDeal, MailRpc DEF Next

\* Whatever fails, repeats, crashes or races, DealChatTextMsg, NotifyTextChatMsg and the
\* pull of LoginHandler behave as one mailbox: SaveMessage comes before the answer and
\* before every way to the addressee, and a repeated id changes no row.
THEOREM MailCorrect == Spec => MailSpec
<1>1. Init => Mail!Init
  BY DEF Init, Mail!Init, Ids
<1>2. StoreInv /\ [Next]_vars => [Mail!Next]_(Mail!vars)
  BY MailStep
<1>. QED BY <1>1, <1>2, StoreInit, StoreNext, PTL DEF Spec, MailSpec, Mail!Spec
=============================================================================
