----------------------------- MODULE PoolProofs -----------------------------
(***************************************************************************)
(* The connection pools for every number of connections and threads:       *)
(* nobody shares a connection and none is lost for good, in RedisConPool   *)
(* and in MySqlPool, and RedisConPool loses no wake-up.                    *)
(***************************************************************************)
EXTENDS MySqlPool, FiniteSetTheorems, TLAPS

\* Who has a connection in its hands can be read off the program counters, and a thread
\* about to sleep has seen an empty queue, which stays empty while it holds the mutex.
HandsInv ==
    /\ \A t \in Thread : pc[t] = "hold" <=> has[t] # None
    /\ chk.pc = "ping" <=> chk.probe # None
    /\ \A t \in Thread : pc[t] = "check" => connections = {}

PcState  == {"idle", "check", "wait", "woken", "hold"}
ChkState == {"sleep", "loop", "ping", "reconnect", "ended"}

PoolInv == TypeOK /\ HandsInv /\ NoSharing /\ SizeKept /\ NoLostWakeup

-----------------------------------------------------------------------------
(* Sizes, and what a push does.                                             *)

LEMMA Sizes ==
    ASSUME TypeOK
    PROVE  /\ IsFiniteSet(connections) /\ Cardinality(connections) \in Nat
           /\ IsFiniteSet(Woken) /\ Cardinality(Woken) \in Nat
           /\ IsFiniteSet(Conn \ Used) /\ Cardinality(Conn \ Used) \in Nat
<1>1. connections \in SUBSET Conn /\ Woken \in SUBSET Thread /\ Conn \ Used \in SUBSET Conn
  BY DEF TypeOK, Woken
<1>2. IsFiniteSet(Conn) /\ IsFiniteSet(Thread)
  BY FiniteAssumption
<1>3. IsFiniteSet(connections) /\ IsFiniteSet(Woken) /\ IsFiniteSet(Conn \ Used)
  BY <1>1, <1>2, FS_Subset
<1>. QED BY <1>3, FS_CardinalityType

LEMMA Notify ==
    ASSUME TypeOK, NEW p \in [Thread -> PcState],
           \A w \in Waiting : p[w] = "wait",
           NEW q, q \in Notified(p)
    PROVE  /\ q \in [Thread -> PcState]
           /\ \A t \in Thread : q[t] = p[t] \/ (p[t] = "wait" /\ q[t] = "woken")
           /\ Waiting # {} => \E w \in Waiting : q = [p EXCEPT ![w] = "woken"]
<1>1. CASE Waiting = {}
  BY <1>1 DEF Notified
<1>2. CASE Waiting # {}
  <2>1. PICK w \in Waiting : q = [p EXCEPT ![w] = "woken"]
    BY <1>2 DEF Notified
  <2>2. w \in Thread /\ p[w] = "wait"
    BY <2>1 DEF Waiting
  <2>. QED BY <2>1, <2>2 DEF PcState
<1>. QED BY <1>1, <1>2

LEMMA Pushed ==
    ASSUME TypeOK, NEW c \in Conn, NEW p \in [Thread -> PcState],
           \A w \in Waiting : p[w] = "wait",
           Push(c, p)
    PROVE  /\ connections' = IF b_stop THEN connections ELSE connections \cup {c}
           /\ connections' \subseteq Conn
           /\ pc' \in [Thread -> PcState]
           /\ \A t \in Thread : pc'[t] = p[t] \/ (p[t] = "wait" /\ pc'[t] = "woken")
<1>1. CASE b_stop
  BY <1>1 DEF Push, TypeOK
<1>2. CASE ~b_stop
  <2>1. connections' = connections \cup {c} /\ pc' \in Notified(p)
    BY <1>2 DEF Push
  <2>. QED BY <2>1, <1>2, Notify DEF TypeOK
<1>. QED BY <1>1, <1>2

\* A push is the end of a Return or of a step of the check thread.
LEMMA ReturnPush ==
    ASSUME TypeOK, HandsInv, NEW t \in Thread, Return(t)
    PROVE  /\ has[t] \in Conn
           /\ [pc EXCEPT ![t] = "idle"] \in [Thread -> PcState]
           /\ \A w \in Waiting : [pc EXCEPT ![t] = "idle"][w] = "wait"
BY DEF TypeOK, HandsInv, Return, Waiting, PcState

LEMMA CheckPush ==
    ASSUME TypeOK
    PROVE  /\ pc \in [Thread -> PcState]
           /\ \A w \in Waiting : pc[w] = "wait"
           /\ HandsInv /\ CheckAlive => chk.probe \in Conn
BY DEF TypeOK, HandsInv, CheckAlive, Waiting, PcState

-----------------------------------------------------------------------------
(* Types.                                                                   *)

LEMMA TypeUser ==
    ASSUME TypeOK, HandsInv, NEW t \in Thread, UserStep(t) PROVE TypeOK'
<1>1. CASE Get(t)
  BY <1>1 DEF Get, TypeOK
<1>2. CASE Sleep(t)
  BY <1>2 DEF Sleep, TypeOK
<1>3. CASE Return(t)
  <2>1. connections' \subseteq Conn /\ pc' \in [Thread -> PcState]
    BY <1>3, ReturnPush, Pushed DEF Return
  <2>. QED BY <1>3, <2>1 DEF Return, TypeOK, PcState
<1>. QED BY <1>1, <1>2, <1>3 DEF UserStep

LEMMA TypeCheck ==
    ASSUME TypeOK, HandsInv, CheckStep PROVE TypeOK'
<1>0. chk = [pc |-> chk.pc, n |-> chk.n, probe |-> chk.probe]
      /\ chk.pc \in ChkState /\ chk.n \in Nat /\ chk.probe \in Conn \cup {None}
  BY DEF TypeOK, ChkState
<1>1. CASE CheckStart
  <2>1. Cardinality(connections) \in Nat
    BY Sizes
  <2>2. chk' = [pc |-> "loop", n |-> Cardinality(connections), probe |-> chk.probe]
    BY <1>0, <1>1 DEF CheckStart
  <2>. QED BY <1>0, <1>1, <2>1, <2>2 DEF CheckStart, TypeOK
<1>2. CASE CheckTake
  BY <1>0, <1>2 DEF CheckTake, TypeOK
<1>3. CASE CheckAlive
  <2>1. connections' \subseteq Conn /\ pc' \in [Thread -> PcState]
    BY <1>3, CheckPush, Pushed DEF CheckAlive
  <2>. QED BY <1>0, <1>3, <2>1 DEF CheckAlive, Probed, TypeOK, PcState
<1>4. CASE CheckDead
  <2>1. chk' = [pc |-> "loop", n |-> chk.n, probe |-> None]
    BY <1>0, <1>4 DEF CheckDead, Probed
  <2>2. fail_count' \in Nat
    BY <1>4 DEF CheckDead, TypeOK
  <2>. QED BY <1>0, <1>4, <2>1, <2>2 DEF CheckDead, TypeOK
<1>5. CASE Reconnect
  <2>1. PICK c \in Conn \ Used : Push(c, pc) /\ broken' = broken \ {c}
    BY <1>5 DEF Reconnect
  <2>2. connections' \subseteq Conn /\ pc' \in [Thread -> PcState]
    BY <2>1, CheckPush, Pushed
  <2>. QED BY <1>0, <1>5, <2>1, <2>2 DEF Reconnect, TypeOK, PcState
<1>6. CASE CheckEnd
  BY <1>0, <1>6 DEF CheckEnd, TypeOK
<1>7. CASE CheckStop
  BY <1>0, <1>7 DEF CheckStop, TypeOK
<1>. QED BY <1>1, <1>2, <1>3, <1>4, <1>5, <1>6, <1>7 DEF CheckStep

LEMMA TypeRest ==
    ASSUME TypeOK, (\E c \in Conn : Break(c)) \/ CloseStep \/ UNCHANGED vars PROVE TypeOK'
<1>1. CASE \E c \in Conn : Break(c)
  BY <1>1 DEF Break, TypeOK
<1>2. CASE CloseStep
  BY <1>2 DEF CloseStep, CloseStop, CloseNotify, CloseClear, TypeOK
<1>3. CASE UNCHANGED vars
  BY <1>3 DEF vars, TypeOK
<1>. QED BY <1>1, <1>2, <1>3

-----------------------------------------------------------------------------
(* Hands: the program counters tell who has a connection, and no two have   *)
(* the same one.                                                            *)

LEMMA HandsUser ==
    ASSUME TypeOK, HandsInv, NoSharing, NEW t \in Thread, UserStep(t)
    PROVE  HandsInv' /\ NoSharing'
<1>1. CASE Get(t)
  BY <1>1, NoneAssumption DEF Get, TypeOK, HandsInv, NoSharing, MutexFree
<1>2. CASE Sleep(t)
  BY <1>2 DEF Sleep, TypeOK, HandsInv, NoSharing
<1>3. CASE Return(t)
  <2>. DEFINE p == [pc EXCEPT ![t] = "idle"]
  <2>0. /\ has[t] \in Conn /\ p \in [Thread -> PcState]
        /\ \A w \in Waiting : p[w] = "wait"
        /\ Push(has[t], p)
    BY <1>3, ReturnPush DEF Return
  <2>p. p[t] = "idle" /\ \A u \in Thread : u # t => p[u] = pc[u]
    BY DEF TypeOK
  <2>. HIDE DEF p
  <2>1. /\ connections' = IF b_stop THEN connections ELSE connections \cup {has[t]}
        /\ \A u \in Thread : pc'[u] = p[u] \/ (p[u] = "wait" /\ pc'[u] = "woken")
    BY <2>0, Pushed
  <2>2. /\ pc'[t] = "idle" /\ has'[t] = None
        /\ \A u \in Thread : u # t => has'[u] = has[u]
        /\ \A u \in Thread : u # t => pc'[u] = pc[u] \/ (pc[u] = "wait" /\ pc'[u] = "woken")
    BY <1>3, <2>1, <2>p DEF Return, TypeOK
  <2>3. has[t] \in Conn /\ has[t] # None /\ chk' = chk /\ \A u \in Thread : pc[u] # "check"
    BY <1>3, ReturnPush, NoneAssumption DEF Return, MutexFree
  <2>4. HandsInv'
    BY <2>2, <2>3 DEF HandsInv
  <2>5. NoSharing'
    BY <2>1, <2>2, <2>3 DEF NoSharing
  <2>. QED BY <2>4, <2>5
<1>. QED BY <1>1, <1>2, <1>3 DEF UserStep

LEMMA HandsCheck ==
    ASSUME TypeOK, HandsInv, NoSharing, CheckStep
    PROVE  HandsInv' /\ NoSharing'
<1>0. chk = [pc |-> chk.pc, n |-> chk.n, probe |-> chk.probe]
  BY DEF TypeOK
<1>1. CASE CheckStart \/ CheckEnd \/ CheckStop
  BY <1>0, <1>1 DEF CheckStart, CheckEnd, CheckStop, HandsInv, NoSharing
<1>2. CASE CheckTake
  <2>1. CASE \E c \in connections : connections' = connections \ {c}
                                   /\ chk' = [pc |-> "ping", n |-> chk.n - 1, probe |-> c]
    BY <1>2, <2>1, NoneAssumption DEF CheckTake, TypeOK, HandsInv, NoSharing, MutexFree
  <2>2. CASE chk' = [chk EXCEPT !.pc = "reconnect"] /\ UNCHANGED connections
    BY <1>0, <1>2, <2>2 DEF CheckTake, HandsInv, NoSharing
  <2>. QED BY <1>2, <2>1, <2>2 DEF CheckTake
<1>3. CASE CheckAlive
  <2>1. /\ connections' = IF b_stop THEN connections ELSE connections \cup {chk.probe}
        /\ \A u \in Thread : pc'[u] = pc[u] \/ (pc[u] = "wait" /\ pc'[u] = "woken")
    BY <1>3, CheckPush, Pushed DEF CheckAlive
  <2>2. chk' = [pc |-> "loop", n |-> chk.n, probe |-> None]
    BY <1>0, <1>3 DEF CheckAlive, Probed
  <2>3. HandsInv'
    BY <1>3, <2>1, <2>2 DEF CheckAlive, HandsInv, MutexFree
  <2>4. NoSharing'
    <3>1. None \notin connections' /\ has' = has /\ chk'.probe = None
      BY <1>3, <2>1, <2>2, CheckPush, NoneAssumption DEF CheckAlive, TypeOK
    <3>. QED BY <2>1, <3>1 DEF NoSharing
  <2>. QED BY <2>3, <2>4
<1>4. CASE CheckDead
  <2>1. chk' = [pc |-> "loop", n |-> chk.n, probe |-> None] /\ None \notin connections
    BY <1>0, <1>4, NoneAssumption DEF CheckDead, Probed, TypeOK
  <2>. QED BY <1>4, <2>1 DEF CheckDead, HandsInv, NoSharing
<1>5. CASE Reconnect
  <2>1. PICK c \in Conn \ Used : Push(c, pc) /\ broken' = broken \ {c}
    BY <1>5 DEF Reconnect
  <2>2. /\ connections' = IF b_stop THEN connections ELSE connections \cup {c}
        /\ \A u \in Thread : pc'[u] = pc[u] \/ (pc[u] = "wait" /\ pc'[u] = "woken")
    BY <2>1, CheckPush, Pushed
  <2>3. c # None /\ c # chk.probe /\ \A u \in Thread : has[u] # c
    BY <2>1, NoneAssumption DEF Used, Held
  <2>. QED BY <1>5, <2>2, <2>3 DEF Reconnect, HandsInv, NoSharing, MutexFree
<1>. QED BY <1>1, <1>2, <1>3, <1>4, <1>5 DEF CheckStep

LEMMA HandsRest ==
    ASSUME TypeOK, HandsInv, NoSharing,
           (\E c \in Conn : Break(c)) \/ CloseStep \/ UNCHANGED vars
    PROVE  HandsInv' /\ NoSharing'
<1>1. CASE (\E c \in Conn : Break(c)) \/ UNCHANGED vars
  BY <1>1 DEF Break, vars, HandsInv, NoSharing
<1>2. CASE CloseStep
  BY <1>2 DEF CloseStep, CloseStop, CloseNotify, CloseClear, TypeOK, HandsInv, NoSharing
<1>. QED BY <1>1, <1>2

-----------------------------------------------------------------------------
(* SizeKept: a step of an open pool leaves the set of used connections as   *)
(* it is, except the freeing and the replacing of one, which are counted.   *)

LEMMA UsedBy ==
    /\ \A c : c \in Used <=> \/ c \in connections
                             \/ c # None /\ (\E t \in Thread : has[t] = c)
                             \/ c # None /\ chk.probe = c
    /\ \A c : c \in Used' <=> \/ c \in connections'
                              \/ c # None /\ (\E t \in Thread : has'[t] = c)
                              \/ c # None /\ chk'.probe = c
<1>1. \A c : c \in Held <=> c # None /\ \E t \in Thread : has[t] = c
  BY DEF Held
<1>2. \A c : c \in Held' <=> c # None /\ \E t \in Thread : has'[t] = c
  BY DEF Held
<1>3. \A c : c \in Used <=> c \in connections \/ c \in Held \/ (c = chk.probe /\ c # None)
  BY DEF Used
<1>4. \A c : c \in Used' <=> c \in connections' \/ c \in Held' \/ (c = chk'.probe /\ c # None)
  BY DEF Used
<1>. QED BY <1>1, <1>2, <1>3, <1>4

LEMMA SameUsed ==
    ASSUME SizeKept, Used' = Used, fail_count' = fail_count, b_stop \/ UNCHANGED closing,
           b_stop => closing' # "open"
    PROVE  SizeKept'
BY DEF SizeKept, b_stop

LEMMA SizeUser ==
    ASSUME TypeOK, HandsInv, NoSharing, SizeKept, NEW t \in Thread, UserStep(t)
    PROVE  SizeKept'
<1>. SUFFICES ASSUME ~b_stop PROVE Used' = Used
  BY SameUsed DEF SizeKept, b_stop, UserStep, Get, Sleep, Return
<1>1. CASE Get(t)
  <2>1. CASE \E c \in connections : has' = [has EXCEPT ![t] = c] /\ connections' = connections \ {c}
    <3>1. PICK c \in connections : has' = [has EXCEPT ![t] = c] /\ connections' = connections \ {c}
      BY <2>1
    <3>2. /\ has[t] = None /\ c # None /\ has'[t] = c
          /\ \A u \in Thread : u # t => has'[u] = has[u]
      BY <1>1, <3>1, NoneAssumption DEF Get, TypeOK, HandsInv
    <3>3. chk' = chk
      BY <1>1 DEF Get
    <3>4. \A x : x \in Used' <=> x \in Used
      BY <3>1, <3>2, <3>3, UsedBy
    <3>. QED BY <3>4
  <2>2. CASE UNCHANGED <<connections, has>>
    BY <1>1, <2>2 DEF Get, Used, Held
  <2>. QED BY <1>1, <2>1, <2>2 DEF Get
<1>2. CASE Sleep(t)
  BY <1>2 DEF Sleep, Used, Held
<1>3. CASE Return(t)
  <2>1. has[t] \in Conn /\ has[t] # None
    BY <1>3, ReturnPush, NoneAssumption
  <2>2. connections' = connections \cup {has[t]} /\ chk' = chk
    BY <1>3 DEF Return, Push
  <2>3. has'[t] = None /\ \A u \in Thread : u # t => has'[u] = has[u]
    BY <1>3 DEF Return, TypeOK
  <2>4. \A x : x \in Used' <=> x \in Used
    BY <2>1, <2>2, <2>3, UsedBy
  <2>. QED BY <2>4
<1>. QED BY <1>1, <1>2, <1>3 DEF UserStep

LEMMA SizeCheck ==
    ASSUME TypeOK, HandsInv, NoSharing, SizeKept, CheckStep
    PROVE  SizeKept'
<1>0. chk = [pc |-> chk.pc, n |-> chk.n, probe |-> chk.probe] /\ closing' = closing
  BY DEF TypeOK, CheckStep, CheckStart, CheckTake, CheckAlive, CheckDead, Reconnect,
         CheckEnd, CheckStop
<1>. SUFFICES ASSUME ~b_stop PROVE fail_count' = Cardinality(Conn \ Used')
  BY <1>0 DEF SizeKept, b_stop
<1>s. fail_count = Cardinality(Conn \ Used) /\ fail_count \in Nat /\ IsFiniteSet(Conn \ Used)
  BY Sizes DEF SizeKept, TypeOK
<1>1. CASE CheckStart \/ CheckEnd \/ CheckStop
  <2>1. chk'.probe = chk.probe
    BY <1>0, <1>1 DEF CheckStart, CheckEnd, CheckStop
  <2>. QED BY <1>1, <1>s, <2>1 DEF CheckStart, CheckEnd, CheckStop, Used, Held
<1>2. CASE CheckTake
  <2>1. CASE \E c \in connections : connections' = connections \ {c}
                                   /\ chk' = [pc |-> "ping", n |-> chk.n - 1, probe |-> c]
    <3>1. PICK c \in connections : connections' = connections \ {c} /\ chk'.probe = c
      BY <2>1
    <3>2. chk.probe = None /\ c # None /\ has' = has /\ fail_count' = fail_count
      BY <1>2, NoneAssumption DEF CheckTake, HandsInv, TypeOK
    <3>3. \A x : x \in Used' <=> x \in Used
      BY <3>1, <3>2, UsedBy
    <3>4. Used' = Used
      BY <3>3
    <3>. QED BY <1>s, <3>2, <3>4
  <2>2. CASE chk' = [chk EXCEPT !.pc = "reconnect"] /\ UNCHANGED connections
    <3>1. chk'.probe = chk.probe
      BY <1>0, <2>2
    <3>. QED BY <1>2, <1>s, <2>2, <3>1 DEF CheckTake, Used, Held
  <2>. QED BY <1>2, <2>1, <2>2 DEF CheckTake
<1>3. CASE CheckAlive
  <2>1. connections' = connections \cup {chk.probe} /\ chk'.probe = None
    BY <1>0, <1>3 DEF CheckAlive, Push, Probed
  <2>2. chk.probe # None /\ has' = has /\ fail_count' = fail_count
    BY <1>3 DEF CheckAlive, HandsInv
  <2>3. \A x : x \in Used' <=> x \in Used
    BY <2>1, <2>2, UsedBy
  <2>4. Used' = Used
    BY <2>3
  <2>. QED BY <1>s, <2>2, <2>4
<1>4. CASE CheckDead
  <2>1. chk.probe \in Conn /\ chk.probe # None /\ chk'.probe = None
    BY <1>0, <1>4, NoneAssumption DEF CheckDead, Probed, HandsInv, TypeOK
  <2>2. connections' = connections /\ has' = has /\ fail_count' = fail_count + 1
    BY <1>4 DEF CheckDead
  <2>3. chk.probe \in Used /\ \A x : x \in Used' <=> x \in Used /\ x # chk.probe
    BY <2>1, <2>2, UsedBy DEF NoSharing
  <2>4. Conn \ Used' = (Conn \ Used) \cup {chk.probe}
    BY <2>1, <2>3
  <2>. QED BY <1>s, <2>2, <2>3, <2>4, FS_AddElement
<1>5. CASE Reconnect
  <2>1. PICK c \in Conn \ Used : connections' = connections \cup {c}
    BY <1>5 DEF Reconnect, Push
  <2>2. has' = has /\ chk' = chk /\ fail_count' = fail_count - 1
    BY <1>5 DEF Reconnect
  <2>3. \A x : x \in Used' <=> x \in Used \/ x = c
    BY <2>1, <2>2, UsedBy
  <2>4. Conn \ Used' = (Conn \ Used) \ {c}
    BY <2>3
  <2>. QED BY <1>s, <2>1, <2>2, <2>4, FS_RemoveElement
<1>. QED BY <1>1, <1>2, <1>3, <1>4, <1>5 DEF CheckStep

LEMMA SizeRest ==
    ASSUME SizeKept, (\E c \in Conn : Break(c)) \/ CloseStep \/ UNCHANGED vars
    PROVE  SizeKept'
<1>1. CASE (\E c \in Conn : Break(c)) \/ UNCHANGED vars
  BY <1>1 DEF Break, vars, SizeKept, b_stop, Used, Held
<1>2. CASE CloseStep
  BY <1>2 DEF CloseStep, CloseStop, CloseNotify, CloseClear, SizeKept, b_stop
<1>. QED BY <1>1, <1>2

-----------------------------------------------------------------------------
(* NoLostWakeup: a push wakes a sleeper if there is one, and a woken thread *)
(* takes one connection at most.                                            *)

\* An empty queue has nothing for a sleeper.
LEMMA EmptyWakes ==
    ASSUME connections' = {} PROVE NoLostWakeup'
<1>1. Woken' \in SUBSET Thread
  BY DEF Woken
<1>2. IsFiniteSet(Woken') /\ Cardinality(Woken') \in Nat
  BY <1>1, FiniteAssumption, FS_Subset, FS_CardinalityType
<1>3. Cardinality(connections') = 0
  BY FS_EmptySet
<1>. QED BY <1>2, <1>3 DEF NoLostWakeup

\* Neither a connection nor a sleeper more, and no woken thread less.
LEMMA SameWakes ==
    ASSUME TypeOK, NoLostWakeup, connections' \subseteq connections, pc' = pc,
           closing' = closing
    PROVE  NoLostWakeup'
<1>1. Cardinality(connections') <= Cardinality(connections)
  BY Sizes, FS_Subset
<1>2. Cardinality(connections') \in Nat
  BY Sizes, FS_Subset, FS_CardinalityType
<1>3. Waiting' = Waiting /\ Woken' = Woken /\ b_stop' = b_stop
  BY DEF Waiting, Woken, b_stop
<1>. QED BY <1>1, <1>2, <1>3, Sizes DEF NoLostWakeup

LEMMA PushWakes ==
    ASSUME TypeOK, NoLostWakeup, ~b_stop, closing' = closing,
           NEW c \in Conn, NEW p \in [Thread -> PcState],
           \A u \in Thread : /\ p[u] = "wait" <=> pc[u] = "wait"
                             /\ p[u] = "woken" <=> pc[u] = "woken",
           Push(c, p)
    PROVE  NoLostWakeup'
<1>1. connections' = connections \cup {c} /\ pc' \in Notified(p)
  BY DEF Push
<1>2. CASE Waiting = {}
  <2>1. pc' = p
    BY <1>1, <1>2 DEF Notified
  <2>2. Waiting' = {}
    BY <1>2, <2>1 DEF Waiting
  <2>. QED BY <2>2 DEF NoLostWakeup
<1>3. CASE Waiting # {}
  <2>1. PICK w \in Waiting : pc' = [p EXCEPT ![w] = "woken"]
    BY <1>1, <1>3 DEF Notified
  <2>2. w \in Thread /\ w \notin Woken
    BY <2>1 DEF Waiting, Woken
  <2>3. \A u \in Thread : pc'[u] = "woken" <=> pc[u] = "woken" \/ u = w
    BY <2>1, <2>2
  <2>4. Woken' = Woken \cup {w}
    BY <2>2, <2>3 DEF Woken
  <2>5. Cardinality(Woken') = Cardinality(Woken) + 1
    BY <2>2, <2>4, Sizes, FS_AddElement
  <2>6. /\ Cardinality(connections') \in Nat
        /\ Cardinality(connections') <= Cardinality(connections) + 1
    <3>1. \/ Cardinality(connections') = Cardinality(connections)
          \/ Cardinality(connections') = Cardinality(connections) + 1
      BY <1>1, Sizes, FS_AddElement
    <3>. QED BY <3>1, Sizes
  <2>7. Cardinality(connections) <= Cardinality(Woken)
    BY <1>3 DEF NoLostWakeup
  <2>. QED BY <2>5, <2>6, <2>7, Sizes DEF NoLostWakeup
<1>. QED BY <1>2, <1>3

LEMMA WakeUser ==
    ASSUME TypeOK, HandsInv, NoLostWakeup, NEW t \in Thread, UserStep(t)
    PROVE  NoLostWakeup'
<1>0. closing' = closing
  BY DEF UserStep, Get, Sleep, Return
<1>. SUFFICES ASSUME ~b_stop PROVE NoLostWakeup'
  BY <1>0 DEF NoLostWakeup, b_stop
<1>1. CASE Get(t)
  <2>1. CASE \E c \in connections : connections' = connections \ {c} /\ pc' = [pc EXCEPT ![t] = "hold"]
    <3>1. PICK c \in connections : connections' = connections \ {c} /\ pc' = [pc EXCEPT ![t] = "hold"]
      BY <2>1
    <3>2. Cardinality(connections') = Cardinality(connections) - 1
      BY <3>1, Sizes, FS_RemoveElement
    <3>3. pc[t] \in {"idle", "woken"} /\ Woken' = Woken \ {t} /\ Waiting' = Waiting
      BY <1>1, <3>1 DEF Get, TypeOK, Woken, Waiting
    <3>4. \/ Cardinality(Woken') = Cardinality(Woken)
          \/ Cardinality(Woken') = Cardinality(Woken) - 1
      BY <3>3, Sizes, FS_RemoveElement
    <3>5. Cardinality(Woken') \in Nat
      BY <3>3, Sizes, FS_RemoveElement, FS_CardinalityType
    <3>. QED BY <3>2, <3>3, <3>4, <3>5, Sizes DEF NoLostWakeup
  <2>2. CASE connections = {} /\ UNCHANGED connections
    BY <2>2, EmptyWakes
  <2>. QED BY <1>1, <2>1, <2>2 DEF Get
<1>2. CASE Sleep(t)
  <2>1. connections' = {}
    BY <1>2 DEF Sleep, HandsInv
  <2>. QED BY <2>1, EmptyWakes
<1>3. CASE Return(t)
  <2>. DEFINE p == [pc EXCEPT ![t] = "idle"]
  <2>1. has[t] \in Conn /\ p \in [Thread -> PcState] /\ Push(has[t], p)
    BY <1>3, ReturnPush DEF Return
  <2>2. \A u \in Thread : /\ p[u] = "wait" <=> pc[u] = "wait"
                          /\ p[u] = "woken" <=> pc[u] = "woken"
    BY <1>3 DEF Return, TypeOK
  <2>. HIDE DEF p
  <2>. QED BY <1>0, <2>1, <2>2, PushWakes
<1>. QED BY <1>1, <1>2, <1>3 DEF UserStep

LEMMA WakeCheck ==
    ASSUME TypeOK, HandsInv, NoLostWakeup, CheckStep
    PROVE  NoLostWakeup'
<1>0. closing' = closing
  BY DEF CheckStep, CheckStart, CheckTake, CheckAlive, CheckDead, Reconnect, CheckEnd,
         CheckStop
<1>. SUFFICES ASSUME ~b_stop PROVE NoLostWakeup'
  BY <1>0 DEF NoLostWakeup, b_stop
<1>1. CASE CheckStart \/ CheckTake \/ CheckDead \/ CheckEnd \/ CheckStop
  <2>1. connections' \subseteq connections /\ pc' = pc
    BY <1>1 DEF CheckStart, CheckTake, CheckDead, CheckEnd, CheckStop
  <2>. QED BY <1>0, <2>1, SameWakes
<1>2. CASE CheckAlive
  <2>1. chk.probe \in Conn /\ Push(chk.probe, pc)
    BY <1>2, CheckPush DEF CheckAlive
  <2>. QED BY <1>0, <2>1, CheckPush, PushWakes
<1>3. CASE Reconnect
  <2>1. PICK c \in Conn \ Used : Push(c, pc) /\ broken' = broken \ {c}
    BY <1>3 DEF Reconnect
  <2>. QED BY <1>0, <2>1, CheckPush, PushWakes
<1>. QED BY <1>1, <1>2, <1>3 DEF CheckStep

LEMMA WakeRest ==
    ASSUME TypeOK, NoLostWakeup, (\E c \in Conn : Break(c)) \/ CloseStep \/ UNCHANGED vars
    PROVE  NoLostWakeup'
<1>1. CASE (\E c \in Conn : Break(c)) \/ UNCHANGED vars
  BY <1>1, SameWakes DEF Break, vars
<1>2. CASE CloseStep
  BY <1>2 DEF CloseStep, CloseStop, CloseNotify, CloseClear, NoLostWakeup, b_stop
<1>. QED BY <1>1, <1>2

-----------------------------------------------------------------------------
(* The invariant and its parts.                                             *)

LEMMA PoolInit == Init => PoolInv
<1>. SUFFICES ASSUME Init PROVE PoolInv
  OBVIOUS
<1>1. TypeOK
  BY DEF Init, TypeOK
<1>2. HandsInv /\ NoSharing
  BY NoneAssumption DEF Init, HandsInv, NoSharing
<1>3. Conn \ Used = {}
  BY DEF Init, Used
<1>4. SizeKept
  BY <1>3, FS_EmptySet DEF Init, SizeKept
<1>5. Waiting = {}
  BY DEF Init, Waiting
<1>. QED BY <1>1, <1>2, <1>4, <1>5 DEF PoolInv, NoLostWakeup

LEMMA PoolNext == PoolInv /\ [Next]_vars => PoolInv'
<1>. SUFFICES ASSUME PoolInv, [Next]_vars PROVE PoolInv'
  OBVIOUS
<1>. USE DEF PoolInv
<1>1. CASE \E t \in Thread : UserStep(t)
  BY <1>1, TypeUser, HandsUser, SizeUser, WakeUser
<1>2. CASE CheckStep
  BY <1>2, TypeCheck, HandsCheck, SizeCheck, WakeCheck
<1>3. CASE (\E c \in Conn : Break(c)) \/ CloseStep \/ UNCHANGED vars
  BY <1>3, TypeRest, HandsRest, SizeRest, WakeRest
<1>. QED BY <1>1, <1>2, <1>3 DEF Next

\* The types, the hands, the size and the wake-ups at once: what each step relies on.
THEOREM PoolInvCorrect == Spec => []PoolInv
<1>. QED BY PoolInit, PoolNext, PTL DEF Spec

\* Every variable keeps its type.
THEOREM PoolTypeCorrect == Spec => []TypeOK
<1>1. PoolInv => TypeOK
  BY DEF PoolInv
<1>. QED BY <1>1, PoolInvCorrect, PTL

\* getConnection, returnConnection and the check thread never put one connection into
\* two hands.
THEOREM NoSharingCorrect == Spec => []NoSharing
<1>1. PoolInv => NoSharing
  BY DEF PoolInv
<1>. QED BY <1>1, PoolInvCorrect, PTL

\* fail_count_ always tells how many connections are to be replaced.
THEOREM SizeKeptCorrect == Spec => []SizeKept
<1>1. PoolInv => SizeKept
  BY DEF PoolInv
<1>. QED BY <1>1, PoolInvCorrect, PTL

\* One notification per push is enough for any number of sleepers.
THEOREM NoLostWakeupCorrect == Spec => []NoLostWakeup
<1>1. PoolInv => NoLostWakeup
  BY DEF PoolInv
<1>. QED BY <1>1, PoolInvCorrect, PTL

-----------------------------------------------------------------------------
(* MySqlPool: three steps of its check thread differ.                       *)

SqlInv == TypeOK /\ HandsInv /\ NoSharing /\ SizeKept

LEMMA SqlTakeStep == ASSUME SqlInv, SqlCheckTake PROVE SqlInv'
<1>0. chk = [pc |-> chk.pc, n |-> chk.n, probe |-> chk.probe] /\ chk.n \in Nat
      /\ chk.pc \in ChkState /\ chk.probe \in Conn \cup {None}
  BY DEF SqlInv, TypeOK, ChkState
<1>1. CASE \E c \in connections : connections' = connections \ {c}
              /\ chk' = [pc |-> "ping", n |-> chk.n - 1, probe |-> c] /\ chk.n > 0
  <2>1. PICK c \in connections : connections' = connections \ {c}
              /\ chk' = [pc |-> "ping", n |-> chk.n - 1, probe |-> c] /\ chk.n > 0
    BY <1>1
  <2>2. /\ chk.probe = None /\ c # None /\ c \in Conn /\ chk.n - 1 \in Nat
        /\ UNCHANGED <<pc, has, broken, fail_count, closing>>
        /\ \A t \in Thread : pc[t] # "check"
    BY <1>0, <2>1, NoneAssumption DEF SqlCheckTake, SqlInv, HandsInv, TypeOK, MutexFree
  <2>3. TypeOK'
    BY <2>1, <2>2 DEF SqlInv, TypeOK
  <2>4. HandsInv' /\ NoSharing'
    BY <2>1, <2>2 DEF SqlInv, HandsInv, NoSharing
  <2>5. \A x : x \in Used' <=> x \in Used
    BY <2>1, <2>2, UsedBy
  <2>6. Used' = Used
    BY <2>5
  <2>. QED BY <2>2, <2>3, <2>4, <2>6, SameUsed DEF SqlInv, b_stop
<1>2. CASE chk' = [chk EXCEPT !.pc = "reconnect"] /\ UNCHANGED connections
  <2>1. /\ chk' = [pc |-> "reconnect", n |-> chk.n, probe |-> chk.probe]
        /\ UNCHANGED <<connections, pc, has, broken, fail_count, closing>>
    BY <1>0, <1>2 DEF SqlCheckTake
  <2>2. TypeOK'
    BY <1>0, <2>1 DEF SqlInv, TypeOK
  <2>3. HandsInv' /\ NoSharing'
    BY <2>1 DEF SqlInv, HandsInv, NoSharing, SqlCheckTake
  <2>4. Used' = Used
    BY <2>1 DEF Used, Held
  <2>. QED BY <2>1, <2>2, <2>3, <2>4, SameUsed DEF SqlInv, b_stop
<1>. QED BY <1>1, <1>2 DEF SqlCheckTake

LEMMA SqlAliveStep == ASSUME SqlInv, SqlCheckAlive PROVE SqlInv'
<1>1. /\ chk = [pc |-> chk.pc, n |-> chk.n, probe |-> chk.probe] /\ chk.n \in Nat
      /\ chk.pc = "ping" /\ chk.probe \in Conn
  BY DEF SqlInv, TypeOK, HandsInv, SqlCheckAlive
<1>2. chk' = [pc |-> "loop", n |-> chk.n, probe |-> None]
  BY <1>1 DEF SqlCheckAlive, Probed
<1>3. /\ connections' = connections \cup {chk.probe}
      /\ UNCHANGED <<has, broken, fail_count, closing>>
      /\ \A t \in Thread : pc[t] # "check"
  BY DEF SqlCheckAlive, MutexFree
<1>4. /\ pc' \in [Thread -> PcState]
      /\ \A t \in Thread : pc'[t] = pc[t] \/ (pc[t] = "wait" /\ pc'[t] = "woken")
  BY CheckPush, Notify DEF SqlCheckAlive, SqlInv
<1>5. TypeOK'
  BY <1>1, <1>2, <1>3, <1>4 DEF SqlInv, TypeOK, PcState
<1>6. HandsInv'
  BY <1>2, <1>3, <1>4 DEF SqlInv, HandsInv
<1>7. NoSharing'
  <2>1. None \notin connections' /\ chk'.probe = None
    BY <1>1, <1>2, <1>3, NoneAssumption DEF SqlInv, TypeOK
  <2>. QED BY <1>3, <2>1 DEF SqlInv, NoSharing
<1>8. Used' = Used
  <2>1. \A x : x \in Used' <=> x \in Used
    BY <1>1, <1>2, <1>3, NoneAssumption, UsedBy
  <2>. QED BY <2>1
<1>. QED BY <1>3, <1>5, <1>6, <1>7, <1>8, SameUsed DEF SqlInv, b_stop

LEMMA SqlReconnectStep == ASSUME SqlInv, SqlReconnect PROVE SqlInv'
<1>1. PICK c \in Conn \ Used : connections' = connections \cup {c} /\ broken' = broken \ {c}
  BY DEF SqlReconnect
<1>2. /\ UNCHANGED <<pc, has, chk, closing>> /\ fail_count' = fail_count - 1 /\ fail_count > 0
      /\ \A t \in Thread : pc[t] # "check"
  BY DEF SqlReconnect, MutexFree
<1>3. c # None /\ c # chk.probe /\ \A t \in Thread : has[t] # c
  BY <1>1, NoneAssumption DEF Used, Held
<1>4. TypeOK'
  BY <1>1, <1>2 DEF SqlInv, TypeOK
<1>5. HandsInv' /\ NoSharing'
  BY <1>1, <1>2, <1>3 DEF SqlInv, HandsInv, NoSharing
<1>6. \A x : x \in Used' <=> x \in Used \/ x = c
  BY <1>1, <1>2, <1>3, UsedBy
<1>7. Conn \ Used' = (Conn \ Used) \ {c}
  BY <1>6
<1>8. IsFiniteSet(Conn \ Used) /\ Cardinality(Conn \ Used) \in Nat
  BY Sizes DEF SqlInv
<1>9. Cardinality(Conn \ Used') = Cardinality(Conn \ Used) - 1
  BY <1>1, <1>7, <1>8, FS_RemoveElement
<1>10. SizeKept'
  BY <1>2, <1>9 DEF SqlInv, SizeKept, b_stop
<1>. QED BY <1>4, <1>5, <1>10 DEF SqlInv

LEMMA SqlInit == Init => SqlInv
  BY PoolInit DEF PoolInv, SqlInv

LEMMA SqlStep == SqlInv /\ [SqlNext]_vars => SqlInv'
<1>. SUFFICES ASSUME SqlInv, [SqlNext]_vars PROVE SqlInv'
  OBVIOUS
<1>. USE DEF SqlInv
<1>1. CASE \E t \in Thread : UserStep(t)
  BY <1>1, TypeUser, HandsUser, SizeUser
<1>2. CASE CheckStart \/ CheckDead \/ CheckEnd \/ CheckStop
  <2>1. CheckStep
    BY <1>2 DEF CheckStep
  <2>. QED BY <2>1, TypeCheck, HandsCheck, SizeCheck
<1>3. CASE (\E c \in Conn : Break(c)) \/ SqlCloseStep \/ UNCHANGED vars
  <2>1. (\E c \in Conn : Break(c)) \/ CloseStep \/ UNCHANGED vars
    BY <1>3 DEF SqlCloseStep, CloseStep
  <2>. QED BY <2>1, TypeRest, HandsRest, SizeRest
<1>4. CASE SqlCheckTake \/ SqlCheckAlive \/ SqlReconnect
  BY <1>4, SqlTakeStep, SqlAliveStep, SqlReconnectStep
<1>. QED BY <1>1, <1>2, <1>3, <1>4 DEF SqlNext, SqlCheckStep

\* The types, the hands and the size at once: what each step of MySqlPool relies on.
THEOREM SqlInvCorrect == SqlSpec => []SqlInv
  BY SqlInit, SqlStep, PTL DEF SqlSpec

\* getConnection, returnConnection and the check thread of MySqlPool, which works on a
\* connection without the mutex, never put one connection into two hands.
THEOREM SqlNoSharingCorrect == SqlSpec => []NoSharing
<1>1. SqlInv => NoSharing
  BY DEF SqlInv
<1>. QED BY <1>1, SqlInvCorrect, PTL

\* Whatever breaks, _fail_count of MySqlPool counts what is to be replaced.
THEOREM SqlSizeKeptCorrect == SqlSpec => []SizeKept
<1>1. SqlInv => SizeKept
  BY DEF SqlInv
<1>. QED BY <1>1, SqlInvCorrect, PTL
=============================================================================
