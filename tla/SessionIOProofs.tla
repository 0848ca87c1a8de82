--------------------------- MODULE SessionIOProofs ---------------------------
(***************************************************************************)
(* The send queues and the logic queue for every number of sessions and    *)
(* messages and every limit: one write at a time, no message left lying,   *)
(* and both queues implement Fifo.                                         *)
(***************************************************************************)
EXTENDS SessionIO, SequenceTheorems, TLAPS

\* What the send queue q, the writes w under way, a completed write d and the socket k of
\* one session have to do with each other.
SendOK(q, w, d, k) ==
    /\ q = <<>> => w = <<>> /\ ~d
    /\ d => w = <<>>
    /\ w # <<>> => w = <<Head(q)>>
    /\ q # <<>> /\ k = "open" => w # <<>> \/ d

SendInv == \A s \in Session : SendOK(sendq[s], writes[s], written[s], sock[s])

\* The logic thread has the front message in its hands.
FrontInv == worker \in {"handle", "pop"} => queue # <<>>

SioInv == TypeOK /\ SendInv /\ FrontInv

-----------------------------------------------------------------------------
(* One session's queue.                                                     *)

LEMMA SendKeeps ==
    ASSUME NEW q \in Seq(Frame), NEW w \in Seq(Frame), NEW d \in BOOLEAN, NEW k,
           NEW f \in Frame, SendOK(q, w, d, k)
    PROVE  LET x == IF q = <<>> THEN Append(w, f) ELSE w
           IN  x \in Seq(Frame) /\ SendOK(Append(q, f), x, d, k)
<1>1. Append(q, f) \in Seq(Frame) /\ Append(q, f) # <<>> /\ Append(w, f) \in Seq(Frame)
  BY AppendProperties
<1>2. Head(Append(q, f)) = IF q = <<>> THEN f ELSE Head(q)
  BY HeadTailAppend
<1>3. CASE q = <<>>
  <2>1. w = <<>> /\ ~d
    BY <1>3 DEF SendOK
  <2>2. Append(w, f) = <<f>>
    BY <2>1
  <2>. QED BY <1>1, <1>2, <1>3, <2>1, <2>2 DEF SendOK
<1>4. CASE q # <<>>
  BY <1>1, <1>2, <1>4 DEF SendOK
<1>. QED BY <1>3, <1>4

LEMMA WrittenKeeps ==
    ASSUME NEW q \in Seq(Frame), NEW w \in Seq(Frame), NEW d \in BOOLEAN,
           w # <<>>, SendOK(q, w, d, "open")
    PROVE  /\ ~d /\ q # <<>> /\ Head(w) = Head(q) /\ Tail(w) = <<>>
           /\ SendOK(q, Tail(w), TRUE, "open")
<1>1. w = <<Head(q)>> /\ q # <<>> /\ ~d
  BY DEF SendOK
<1>2. Head(w) = Head(q) /\ Tail(w) = <<>>
  BY <1>1
<1>. QED BY <1>1, <1>2 DEF SendOK

LEMMA HandleKeeps ==
    ASSUME NEW q \in Seq(Frame), NEW w \in Seq(Frame), NEW k, SendOK(q, w, TRUE, k)
    PROVE  LET x == IF Len(q) > 1 THEN Append(w, q[2]) ELSE w
           IN  /\ q # <<>> /\ Tail(q) \in Seq(Frame) /\ x \in Seq(Frame)
               /\ SendOK(Tail(q), x, FALSE, k)
<1>1. q # <<>> /\ w = <<>>
  BY DEF SendOK
<1>2. Tail(q) \in Seq(Frame) /\ Len(Tail(q)) = Len(q) - 1 /\ Len(q) \in Nat \ {0}
  BY <1>1, HeadTailProperties, EmptySeq
<1>3. CASE Len(q) > 1
  <2>1. q[2] \in Frame /\ Head(Tail(q)) = q[2] /\ Tail(q) # <<>>
    BY <1>2, <1>3, <1>1, HeadTailProperties, ElementOfSeq
  <2>2. Append(w, q[2]) = <<q[2]>> /\ Append(w, q[2]) \in Seq(Frame)
    BY <1>1, <2>1, AppendProperties
  <2>. QED BY <1>1, <1>2, <1>3, <2>1, <2>2 DEF SendOK
<1>4. CASE ~(Len(q) > 1)
  <2>1. Tail(q) = <<>>
    BY <1>2, <1>4, EmptySeq
  <2>. QED BY <1>1, <1>2, <1>4, <2>1 DEF SendOK
<1>. QED BY <1>3, <1>4

LEMMA FrameMade ==
    ASSUME NEW id \in Id, NEW n \in Length
    PROVE  SendNode(id, n) \in Frame
<1>1. n \in Nat
  BY BoundAssumption
<1>2. Short(n) \in Int
  BY <1>1 DEF Short
<1>. QED BY <1>2 DEF SendNode, Frame

-----------------------------------------------------------------------------
(* The steps.                                                               *)

\* What every step keeps of the types of the queues of outgoing messages.
OutOK ==
    /\ sendq   \in [Session -> Seq(Frame)]
    /\ \A s \in Session : Len(sendq[s]) <= MaxSend + 1
    /\ writes  \in [Session -> Seq(Frame)]
    /\ written \in [Session -> BOOLEAN]
    /\ got     \in [Session -> Seq(Frame)]

\* The rest of the types.
RestOK ==
    /\ reader  \in [Session -> {"read", "post", "off"}]
    /\ sock    \in [Session -> {"open", "closed"}]
    /\ valid   \subseteq Session
    /\ frames  \in [Session -> Nat]
    /\ queue   \in Seq(Session \X Nat)
    /\ worker  \in {"top", "check", "wait", "handle", "pop", "ended"}
    /\ handled \in Seq(Session \X Nat)
    /\ pushes  \in [Session -> Nat]
    /\ phase   \in {"run", "stopping", "joined", "stopped", "dead"}

LEMMA Types == TypeOK <=> OutOK /\ RestOK
BY DEF TypeOK, OutOK, RestOK

LEMMA SendStep ==
    ASSUME OutOK, SendInv, NEW s \in Session, NEW f \in Frame, Send(s, f),
           UNCHANGED <<sock, written, got>>
    PROVE  OutOK' /\ SendInv'
<1>. USE DEF OutOK, SendInv
<1>1. CASE Len(sendq[s]) > MaxSend
  BY <1>1 DEF Send
<1>2. CASE ~(Len(sendq[s]) > MaxSend)
  <2>. DEFINE q == sendq[s]
              x == IF q = <<>> THEN Append(writes[s], f) ELSE writes[s]
  <2>1. q \in Seq(Frame) /\ writes[s] \in Seq(Frame) /\ written[s] \in BOOLEAN
    OBVIOUS
  <2>2. x \in Seq(Frame) /\ SendOK(Append(q, f), x, written[s], sock[s])
    BY <2>1, SendKeeps
  <2>3. Append(q, f) \in Seq(Frame) /\ Len(Append(q, f)) = Len(q) + 1 /\ Len(q) \in Nat
    BY <2>1, AppendProperties, LenProperties
  <2>4. Len(q) + 1 <= MaxSend + 1
    BY <1>2, <2>3, BoundAssumption
  <2>5. /\ sendq' = [sendq EXCEPT ![s] = Append(q, f)]
        /\ writes' = [writes EXCEPT ![s] = x]
    BY <1>2, <2>1 DEF Send
  <2>. HIDE DEF x
  <2>6. OutOK'
    BY <2>2, <2>3, <2>4, <2>5
  <2>7. ASSUME NEW r \in Session
        PROVE  SendOK(sendq[r], writes[r], written[r], sock[r])'
    <3>1. CASE r = s
      BY <3>1, <2>1, <2>2, <2>5
    <3>2. CASE r # s
      <4>1. sendq'[r] = sendq[r] /\ writes'[r] = writes[r]
        BY <3>2, <2>5
      <4>. QED BY <4>1
    <3>. QED BY <3>1, <3>2
  <2>. QED BY <2>6, <2>7
<1>. QED BY <1>1, <1>2

\* A step that leaves the queues alone, and may close sockets.
LEMMA QuietStep ==
    ASSUME OutOK, SendInv, UNCHANGED outVars,
           \A s \in Session : sock'[s] = sock[s] \/ sock'[s] = "closed"
    PROVE  OutOK' /\ SendInv'
BY DEF OutOK, SendInv, SendOK, outVars

LEMMA WriteSteps ==
    ASSUME OutOK, sock \in [Session -> {"open", "closed"}], SendInv,
           NEW s \in Session, Written(s) \/ HandleWrite(s) \/ WriteError(s)
    PROVE  OutOK' /\ SendInv'
<1>. USE DEF OutOK, SendInv
<1>. DEFINE q == sendq[s]  w == writes[s]
<1>0. /\ q \in Seq(Frame) /\ w \in Seq(Frame) /\ written[s] \in BOOLEAN
      /\ SendOK(q, w, written[s], sock[s])
  OBVIOUS
<1>1. CASE Written(s)
  <2>1. w # <<>> /\ sock[s] = "open"
    BY <1>1 DEF Written
  <2>2. SendOK(q, Tail(w), TRUE, "open") /\ Head(w) \in Frame /\ Tail(w) \in Seq(Frame)
    BY <1>0, <2>1, WrittenKeeps, HeadTailProperties
  <2>3. Append(got[s], Head(w)) \in Seq(Frame)
    BY <2>2, AppendProperties
  <2>4. OutOK'
    BY <1>1, <2>2, <2>3 DEF Written
  <2>5. ASSUME NEW r \in Session PROVE SendOK(sendq[r], writes[r], written[r], sock[r])'
    BY <1>1, <2>1, <2>2 DEF Written
  <2>. QED BY <2>4, <2>5
<1>2. CASE HandleWrite(s)
  <2>. DEFINE x == IF Len(q) > 1 THEN Append(w, q[2]) ELSE w
  <2>1. written[s]
    BY <1>2 DEF HandleWrite
  <2>2. /\ q # <<>> /\ Tail(q) \in Seq(Frame) /\ x \in Seq(Frame)
        /\ SendOK(Tail(q), x, FALSE, sock[s])
    BY <1>0, <2>1, HandleKeeps
  <2>3. Len(Tail(q)) = Len(q) - 1 /\ Len(q) \in Nat
    BY <1>0, <2>2, HeadTailProperties, LenProperties
  <2>4. Len(Tail(q)) <= MaxSend + 1
    BY <2>3, BoundAssumption
  <2>5. /\ sendq' = [sendq EXCEPT ![s] = Tail(q)] /\ writes' = [writes EXCEPT ![s] = x]
        /\ written' = [written EXCEPT ![s] = FALSE] /\ UNCHANGED <<sock, got>>
    BY <1>2 DEF HandleWrite
  <2>. HIDE DEF x
  <2>6. OutOK'
    BY <2>2, <2>4, <2>5
  <2>7. ASSUME NEW r \in Session PROVE SendOK(sendq[r], writes[r], written[r], sock[r])'
    BY <2>2, <2>5
  <2>. QED BY <2>6, <2>7
<1>3. CASE WriteError(s)
  <2>1. w # <<>> /\ SendOK(q, <<>>, written[s], "closed")
    BY <1>0, <1>3 DEF WriteError, SendOK
  <2>2. /\ writes' = [writes EXCEPT ![s] = <<>>] /\ sock' = [sock EXCEPT ![s] = "closed"]
        /\ UNCHANGED <<sendq, written, got>>
    BY <1>3 DEF WriteError
  <2>3. <<>> \in Seq(Frame)
    BY EmptySeq
  <2>4. OutOK'
    BY <2>2, <2>3
  <2>5. ASSUME NEW r \in Session PROVE SendOK(sendq[r], writes[r], written[r], sock[r])'
    BY <2>1, <2>2
  <2>. QED BY <2>4, <2>5
<1>. QED BY <1>1, <1>2, <1>3

LEMMA Appended ==
    ASSUME NEW T, NEW q \in Seq(T), NEW e \in T
    PROVE  Append(q, e) \in Seq(T) /\ Append(q, e) # <<>>
BY AppendProperties

LEMMA RestRead ==
    ASSUME RestOK, FrontInv, NEW s \in Session, ReadStep(s)
    PROVE  /\ RestOK' /\ FrontInv'
           /\ UNCHANGED outVars
           /\ \A r \in Session : sock'[r] = sock[r] \/ sock'[r] = "closed"
<1>. USE DEF RestOK, FrontInv
<1>1. CASE ReadError(s)
  BY <1>1 DEF ReadError, ReadOff, Cleared
<1>2. CASE ReadInvalid(s)
  BY <1>2 DEF ReadInvalid, ReadOff
<1>3. CASE ReadBadHead(s)
  BY <1>3 DEF ReadBadHead, ReadOff, Cleared
<1>4. CASE ReadFrame(s)
  BY <1>4 DEF ReadFrame
<1>5. CASE PostMsgToQue(s)
  <2>1. <<s, frames[s]>> \in Session \X Nat /\ queue \in Seq(Session \X Nat)
    OBVIOUS
  <2>2. /\ Append(queue, <<s, frames[s]>>) \in Seq(Session \X Nat)
        /\ Append(queue, <<s, frames[s]>>) # <<>>
    BY ONLY <2>1, Appended
  <2>3. queue' = Append(queue, <<s, frames[s]>>)
    BY <1>5 DEF PostMsgToQue
  <2>4. queue' \in Seq(Session \X Nat) /\ queue' # <<>>
    BY <2>2, <2>3
  <2>5. worker' \in {"top", "check", "wait", "handle", "pop", "ended"}
    BY <1>5 DEF PostMsgToQue, Notified
  <2>6. reader' \in [Session -> {"read", "post", "off"}]
    BY <1>5 DEF PostMsgToQue
  <2>7. UNCHANGED <<valid, frames, sock, handled, outVars, pushes, phase>>
    BY <1>5 DEF PostMsgToQue
  <2>. QED BY <2>4, <2>5, <2>6, <2>7
<1>6. CASE Kick(s)
  BY <1>6 DEF Kick, Cleared
<1>. QED BY <1>1, <1>2, <1>3, <1>4, <1>5, <1>6 DEF ReadStep

LEMMA RestWrite ==
    ASSUME RestOK, FrontInv, NEW s \in Session, WriteStep(s)
    PROVE  RestOK' /\ FrontInv'
<1>. USE DEF RestOK, FrontInv
<1>1. CASE Written(s)
  BY <1>1 DEF Written, inVars
<1>2. CASE HandleWrite(s)
  BY <1>2 DEF HandleWrite, inVars
<1>3. CASE WriteError(s)
  BY <1>3 DEF WriteError, Cleared
<1>4. ASSUME NEW n \in Length, Push(s, n) PROVE RestOK' /\ FrontInv'
  BY <1>4 DEF Push, inVars
<1>. QED BY <1>1, <1>2, <1>3, <1>4 DEF WriteStep

LEMMA FrontTyped ==
    ASSUME RestOK, FrontInv, worker \in {"handle", "pop"}
    PROVE  /\ queue # <<>> /\ Head(queue) \in Session \X Nat
           /\ Head(queue)[1] \in Session /\ Head(queue) \in Id
           /\ Tail(queue) \in Seq(Session \X Nat)
           /\ Append(handled, Head(queue)) \in Seq(Session \X Nat)
           /\ Len(queue) > 1 => Tail(queue) # <<>>
<1>1. queue # <<>> /\ queue \in Seq(Session \X Nat) /\ handled \in Seq(Session \X Nat)
  BY DEF RestOK, FrontInv
<1>2. /\ Head(queue) \in Session \X Nat /\ Tail(queue) \in Seq(Session \X Nat)
      /\ Len(Tail(queue)) = Len(queue) - 1 /\ Len(queue) \in Nat
  BY <1>1, HeadTailProperties, LenProperties
<1>3. Append(handled, Head(queue)) \in Seq(Session \X Nat)
  BY <1>1, <1>2, AppendProperties
<1>4. Len(queue) > 1 => Tail(queue) # <<>>
  <2>. DEFINE S == Session \X Nat  t == Tail(queue)
  <2>1. t \in Seq(S) /\ Len(t) = Len(queue) - 1 /\ Len(queue) \in Nat
    BY <1>2
  <2>. HIDE DEF S, t
  <2>2. Len(queue) > 1 => t # <<>>
    BY <2>1, EmptySeq
  <2>. QED BY <2>2 DEF t
<1>5. Head(queue)[1] \in Session /\ Head(queue) \in Id
  BY <1>2, SMT DEF Id
<1>. QED BY <1>1, <1>2, <1>3, <1>4, <1>5

LEMMA RestDeal ==
    ASSUME RestOK, FrontInv, DealMsg
    PROVE  RestOK' /\ FrontInv'
<1>. USE DEF RestOK, FrontInv
<1>1. CASE DealLook
  BY <1>1 DEF DealLook, WorkerTo, inVars
<1>2. CASE DealWait
  BY <1>2 DEF DealWait, WorkerTo, inVars
<1>3. ASSUME NEW n \in Length, DealHandle(n) PROVE RestOK' /\ FrontInv'
  BY <1>3, FrontTyped DEF DealHandle, inVars
<1>4. CASE DealUnknown
  BY <1>4, FrontTyped DEF DealUnknown, WorkerTo, inVars
<1>5. CASE DealPop
  BY <1>5, FrontTyped DEF DealPop, WorkerTo, inVars
<1>. QED BY <1>1, <1>2, <1>3, <1>4, <1>5 DEF DealMsg

LEMMA RestStop ==
    ASSUME RestOK, FrontInv, StopStep \/ UNCHANGED vars
    PROVE  RestOK' /\ FrontInv' /\ UNCHANGED <<outVars, sock>>
<1>. USE DEF RestOK, FrontInv
<1>1. CASE StopIo \/ JoinIo \/ StopLogic
  BY <1>1 DEF StopIo, JoinIo, StopLogic, Notified, inVars
<1>2. CASE UNCHANGED vars
  BY <1>2 DEF vars, inVars, outVars
<1>. QED BY <1>1, <1>2 DEF StopStep

\* What DealMsg does to the queues of outgoing messages: at most one Send.
LEMMA DealSends ==
    ASSUME RestOK, FrontInv, DealMsg
    PROVE  /\ UNCHANGED <<sock, written, got>>
           /\ \/ UNCHANGED outVars
              \/ \E s \in Session, f \in Frame : Send(s, f)
<1>1. CASE DealLook \/ DealWait \/ DealUnknown \/ DealPop
  BY <1>1 DEF DealLook, DealWait, DealUnknown, DealPop, WorkerTo, outVars
<1>2. ASSUME NEW n \in Length, DealHandle(n)
      PROVE  /\ UNCHANGED <<sock, written, got>>
             /\ \/ UNCHANGED outVars
                \/ \E s \in Session, f \in Frame : Send(s, f)
  <2>1. CASE Fits(n)
    <3>1. Send(Head(queue)[1], SendNode(Head(queue), n))
      BY <1>2, <2>1 DEF DealHandle
    <3>2. Head(queue)[1] \in Session /\ SendNode(Head(queue), n) \in Frame
      BY <1>2, FrontTyped, FrameMade DEF DealHandle
    <3>. QED BY <1>2, <3>1, <3>2 DEF DealHandle
  <2>2. CASE ~Fits(n)
    BY <1>2, <2>2 DEF DealHandle, outVars
  <2>. QED BY <2>1, <2>2
<1>. QED BY <1>1, <1>2 DEF DealMsg

LEMMA PushSends ==
    ASSUME RestOK, NEW s \in Session, NEW n \in Length, Push(s, n)
    PROVE  /\ UNCHANGED <<sock, written, got>>
           /\ \E f \in Frame : Send(s, f)
<1>1. <<"push", pushes[s]>> \in Id
  BY DEF RestOK, Id
<1>2. SendNode(<<"push", pushes[s]>>, n) \in Frame
  BY <1>1, FrameMade
<1>. QED BY <1>2 DEF Push

-----------------------------------------------------------------------------
(* The invariant.                                                           *)

LEMMA SioInit == Init => SioInv
<1>. SUFFICES ASSUME Init PROVE SioInv
  OBVIOUS
<1>1. /\ <<>> \in Seq(Frame) /\ <<>> \in Seq(Session \X Nat)
      /\ Len(<<>>) = 0 /\ 0 <= MaxSend + 1
  BY EmptySeq, BoundAssumption
<1>2. OutOK
  BY <1>1 DEF Init, OutOK
<1>3. RestOK
  BY <1>1 DEF Init, RestOK
<1>4. SendInv /\ FrontInv
  BY DEF Init, SendInv, SendOK, FrontInv
<1>. QED BY <1>2, <1>3, <1>4, Types DEF SioInv

LEMMA SioNext == SioInv /\ [Next]_vars => SioInv'
<1>. SUFFICES ASSUME SioInv, [Next]_vars PROVE (OutOK /\ RestOK /\ SendInv /\ FrontInv)'
  BY Types DEF SioInv, TypeOK, OutOK, RestOK
<1>0. OutOK /\ RestOK /\ SendInv /\ FrontInv /\ sock \in [Session -> {"open", "closed"}]
  BY Types DEF SioInv, RestOK
<1>1. ASSUME NEW s \in Session, ReadStep(s)
      PROVE  (OutOK /\ RestOK /\ SendInv /\ FrontInv)'
  BY <1>0, <1>1, RestRead, QuietStep
<1>2. ASSUME NEW s \in Session, WriteStep(s)
      PROVE  (OutOK /\ RestOK /\ SendInv /\ FrontInv)'
  <2>1. RestOK' /\ FrontInv'
    BY <1>0, <1>2, RestWrite
  <2>2. OutOK' /\ SendInv'
    <3>1. CASE Written(s) \/ HandleWrite(s) \/ WriteError(s)
      BY <1>0, <3>1, WriteSteps
    <3>2. ASSUME NEW n \in Length, Push(s, n) PROVE OutOK' /\ SendInv'
      BY <1>0, <3>2, PushSends, SendStep
    <3>. QED BY <1>2, <3>1, <3>2 DEF WriteStep
  <2>. QED BY <2>1, <2>2
<1>3. CASE DealMsg
  <2>1. RestOK' /\ FrontInv'
    BY <1>0, <1>3, RestDeal
  <2>2. UNCHANGED <<sock, written, got>>
    BY <1>0, <1>3, DealSends
  <2>3. CASE UNCHANGED outVars
    BY <1>0, <2>1, <2>2, <2>3, QuietStep
  <2>4. CASE \E s \in Session, f \in Frame : Send(s, f)
    BY <1>0, <2>1, <2>2, <2>4, SendStep
  <2>. QED BY <1>0, <1>3, <2>3, <2>4, DealSends
<1>4. CASE StopStep \/ UNCHANGED vars
  BY <1>0, <1>4, RestStop, QuietStep
<1>. QED BY <1>1, <1>2, <1>3, <1>4 DEF Next

\* The invariant that the types, OneWrite and WriteGoesOn follow from.
THEOREM SioInvCorrect == Spec => []SioInv
<1>. QED BY SioInit, SioNext, PTL DEF Spec

\* Every variable keeps its type and no send queue its limit.
THEOREM SioTypeCorrect == Spec => []TypeOK
<1>1. SioInv => TypeOK
  BY DEF SioInv
<1>. QED BY <1>1, SioInvCorrect, PTL

\* Send and HandleWrite never have two async_writes of one session under way.
THEOREM OneWriteCorrect == Spec => []OneWrite
<1>1. SioInv => OneWrite
  <2>. SUFFICES ASSUME SioInv, NEW s \in Session
                PROVE  /\ Len(writes[s]) <= 1
                       /\ writes[s] # <<>> => /\ ~written[s] /\ sendq[s] # <<>>
                                              /\ Head(writes[s]) = Head(sendq[s])
    BY DEF OneWrite
  <2>1. SendOK(sendq[s], writes[s], written[s], sock[s])
    BY DEF SioInv, SendInv
  <2>2. CASE writes[s] = <<>>
    BY <2>2
  <2>3. CASE writes[s] # <<>>
    <3>1. /\ writes[s] = <<Head(sendq[s])>> /\ ~written[s] /\ sendq[s] # <<>>
      BY <2>1, <2>3 DEF SendOK
    <3>2. Len(writes[s]) = 1 /\ Head(writes[s]) = Head(sendq[s])
      BY <3>1
    <3>. QED BY <3>1, <3>2
  <2>. QED BY <2>2, <2>3
<1>. QED BY <1>1, SioInvCorrect, PTL

\* A send queue that holds something is being written while the socket is open.
THEOREM WriteGoesOnCorrect == Spec => []WriteGoesOn
<1>1. SioInv => WriteGoesOn
  BY DEF SioInv, SendInv, SendOK, WriteGoesOn
<1>. QED BY <1>1, SioInvCorrect, PTL

-----------------------------------------------------------------------------
(* The queues implement Fifo.                                               *)

LEMMA PutIsAppend ==
    ASSUME NEW T, NEW p \in Seq(T), NEW e \in T
    PROVE  Len(Append(p, e)) = Len(p) + 1 /\ SubSeq(Append(p, e), 1, Len(p)) = p
<1>. DEFINE a == Append(p, e)  z == SubSeq(a, 1, Len(p))
<1>1. /\ a \in Seq(T) /\ Len(a) = Len(p) + 1 /\ Len(p) \in Nat
      /\ \A i \in 1..Len(p) : a[i] = p[i] /\ p[i] \in T
  BY AppendProperties, LenProperties, ElementOfSeq
<1>. HIDE DEF a
<1>2. /\ z \in Seq(T) /\ Len(z) = IF 1 <= Len(p) THEN Len(p) - 1 + 1 ELSE 0
      /\ \A i \in 1..(Len(p) - 1 + 1) : z[i] = a[1 + i - 1]
  BY <1>1, SubSeqProperties
<1>. HIDE DEF z
<1>3. Len(z) = Len(p) /\ \A i \in 1..Len(p) : z[i] = p[i]
  BY <1>1, <1>2
<1>4. z = p
  BY <1>2, <1>3, SeqEqual
<1>. QED BY <1>1, <1>4 DEF a, z

\* What of a queue has not come out: its front has where d says so.
Left(q, d) == IF d THEN Tail(q) ELSE q

LEMMA LeftPut ==
    ASSUME NEW T, NEW q \in Seq(T), NEW d \in BOOLEAN, NEW e \in T, q = <<>> => ~d
    PROVE  /\ Len(Left(Append(q, e), d)) = Len(Left(q, d)) + 1
           /\ SubSeq(Left(Append(q, e), d), 1, Len(Left(q, d))) = Left(q, d)
<1>1. Left(Append(q, e), d) = Append(Left(q, d), e)
  BY HeadTailAppend DEF Left
<1>2. Left(q, d) \in Seq(T)
  BY HeadTailProperties DEF Left
<1>. QED BY <1>1, <1>2, PutIsAppend

LEMMA UnwrittenIs ==
    \A s \in Session : Unwritten[s] = Left(sendq[s], written[s])
BY DEF Unwritten, Left

LEMMA SendImplements ==
    ASSUME SioInv, [Next]_vars
    PROVE  \A s \in Session : Sending!Put(s) \/ Sending!Get(s) \/ Sending!Rest(s)
<1>. SUFFICES ASSUME NEW s \in Session
              PROVE  Sending!Put(s) \/ Sending!Get(s) \/ Sending!Rest(s)
  OBVIOUS
<1>0. /\ OutOK /\ RestOK /\ SendInv /\ FrontInv
      /\ sock \in [Session -> {"open", "closed"}]
      /\ SendOK(sendq[s], writes[s], written[s], sock[s])
      /\ sendq[s] \in Seq(Frame) /\ writes[s] \in Seq(Frame) /\ written[s] \in BOOLEAN
      /\ Unwritten[s] = Left(sendq[s], written[s])
      /\ Unwritten'[s] = Left(sendq'[s], written'[s])
  BY Types DEF SioInv, RestOK, OutOK, SendInv, Unwritten, Left
<1>1. CASE UNCHANGED <<sendq, written, got>>
  BY <1>0, <1>1 DEF Sending!Rest
<1>2. ASSUME NEW r \in Session, NEW f \in Frame, Send(r, f), UNCHANGED <<written, got>>
      PROVE  Sending!Put(s) \/ Sending!Rest(s)
  <2>1. CASE sendq'[s] = sendq[s]
    BY <1>0, <1>2, <2>1 DEF Sending!Rest
  <2>2. CASE sendq'[s] # sendq[s]
    <3>1. sendq'[s] = Append(sendq[s], f)
      BY <1>0, <1>2, <2>2 DEF Send, OutOK
    <3>2. sendq[s] = <<>> => ~written[s]
      BY <1>0 DEF SendOK
    <3>. QED BY <1>0, <1>2, <3>1, <3>2, LeftPut DEF Sending!Put
  <2>. QED BY <2>1, <2>2
<1>3. ASSUME NEW r \in Session, Written(r)
      PROVE  Sending!Get(s) \/ Sending!Rest(s)
  <2>1. CASE s = r
    <3>1. writes[s] # <<>> /\ sock[s] = "open"
      BY <1>3, <2>1 DEF Written
    <3>2. ~written[s] /\ sendq[s] # <<>> /\ Head(writes[s]) = Head(sendq[s])
      <4>1. SendOK(sendq[s], writes[s], written[s], "open")
        BY <1>0, <3>1
      <4>2. ~written[s] /\ sendq[s] # <<>> /\ writes[s] = <<Head(sendq[s])>>
        BY <3>1, <4>1 DEF SendOK
      <4>. QED BY <4>2
    <3>3. /\ got'[s] = Append(got[s], Head(sendq[s])) /\ written'[s] = TRUE
          /\ sendq'[s] = sendq[s]
      BY <1>0, <1>3, <2>1, <3>2 DEF Written, OutOK
    <3>. QED BY <1>0, <3>2, <3>3 DEF Sending!Get, Left
  <2>2. CASE s # r
    BY <1>0, <1>3, <2>2 DEF Written, Sending!Rest, OutOK
  <2>. QED BY <2>1, <2>2
<1>4. ASSUME NEW r \in Session, HandleWrite(r)
      PROVE  Sending!Rest(s)
  <2>1. CASE s = r
    <3>1. written[s] /\ sendq'[s] = Tail(sendq[s]) /\ written'[s] = FALSE /\ got' = got
      BY <1>0, <1>4, <2>1 DEF HandleWrite, OutOK
    <3>. QED BY <1>0, <3>1 DEF Sending!Rest, Left
  <2>2. CASE s # r
    BY <1>0, <1>4, <2>2 DEF HandleWrite, Sending!Rest, OutOK
  <2>. QED BY <2>1, <2>2
<1>5. CASE \E r \in Session : ReadStep(r)
  BY <1>0, <1>5, <1>1, RestRead DEF outVars
<1>6. CASE \E r \in Session : WriteStep(r)
  <2>1. ASSUME NEW r \in Session, NEW n \in Length, Push(r, n)
        PROVE  Sending!Put(s) \/ Sending!Rest(s)
    BY <1>0, <1>2, <2>1, PushSends
  <2>2. ASSUME NEW r \in Session, WriteError(r) PROVE Sending!Rest(s)
    BY <1>0, <2>2 DEF WriteError, Sending!Rest
  <2>. QED BY <1>3, <1>4, <1>6, <2>1, <2>2 DEF WriteStep
<1>7. CASE DealMsg
  BY <1>0, <1>1, <1>2, <1>7, DealSends DEF outVars
<1>8. CASE StopStep \/ UNCHANGED vars
  BY <1>0, <1>1, <1>8, RestStop DEF outVars
<1>. QED BY <1>5, <1>6, <1>7, <1>8 DEF Next

\* What Send takes in is written whole, once and in that order, however io threads, gRPC
\* threads and the logic thread interleave.
THEOREM SendCorrect == Spec => SendSpec
<1>1. Init => Sending!Init
  BY DEF Init, Sending!Init, Unwritten
<1>2. SioInv /\ [Next]_vars => [Sending!Next]_<<Unwritten, got>>
  BY SendImplements DEF Sending!Next
<1>. QED BY <1>1, <1>2, SioInvCorrect, PTL DEF Spec, SendSpec, Sending!Spec

\* The requests of all sessions go through one lane.
LEMMA RequestImplements ==
    ASSUME SioInv, [Next]_vars
    PROVE  Requests!Put(1) \/ Requests!Get(1) \/ Requests!Rest(1)
<1>. DEFINE d == worker = "pop"
<1>0. /\ OutOK /\ RestOK /\ FrontInv /\ d \in BOOLEAN
      /\ d => queue # <<>>
      /\ <<Unhandled>>[1] = Left(queue, d) /\ <<Unhandled>>'[1] = Left(queue, d)'
      /\ <<handled>>[1] = handled /\ <<handled>>'[1] = handled'
  BY Types DEF SioInv, RestOK, FrontInv, Unhandled, Left
<1>1. CASE UNCHANGED <<queue, handled>> /\ d' = d
  BY <1>0, <1>1 DEF Requests!Rest, Left
<1>2. ASSUME NEW s \in Session, PostMsgToQue(s)
      PROVE  Requests!Put(1)
  <2>1. /\ queue' = Append(queue, <<s, frames[s]>>) /\ handled' = handled
        /\ d = FALSE /\ d' = FALSE
    BY <1>2 DEF PostMsgToQue, MutexFree, Notified
  <2>2. queue \in Seq(Session \X Nat) /\ <<s, frames[s]>> \in Session \X Nat
    BY <1>0 DEF RestOK
  <2>3. /\ Len(Append(queue, <<s, frames[s]>>)) = Len(queue) + 1
        /\ SubSeq(Append(queue, <<s, frames[s]>>), 1, Len(queue)) = queue
    BY ONLY <2>2, PutIsAppend
  <2>. QED BY <1>0, <2>1, <2>3 DEF Requests!Put, Left
<1>3. ASSUME handled' = Append(handled, Head(queue)), queue' = queue, d = FALSE, d' = TRUE,
             queue # <<>>
      PROVE  Requests!Get(1)
  BY <1>0, <1>3 DEF Requests!Get, Left
<1>4. CASE \E s \in Session : ReadStep(s)
  <2>1. CASE \E s \in Session : PostMsgToQue(s)
    BY <1>2, <2>1
  <2>2. CASE ~ \E s \in Session : PostMsgToQue(s)
    <3>1. UNCHANGED <<queue, handled, worker>>
      BY <1>4, <2>2 DEF ReadStep, ReadError, ReadInvalid, ReadBadHead, ReadFrame, Kick
    <3>. QED BY <1>1, <3>1
  <2>. QED BY <2>1, <2>2
<1>5. CASE \E s \in Session : WriteStep(s)
  <2>1. UNCHANGED <<queue, handled, worker>>
    BY <1>5 DEF WriteStep, Written, HandleWrite, WriteError, Push
  <2>. QED BY <1>1, <2>1
<1>6. CASE DealMsg
  <2>1. CASE DealLook \/ DealWait
    BY <1>1, <2>1 DEF DealLook, DealWait, WorkerTo
  <2>2. CASE DealUnknown \/ \E n \in Length : DealHandle(n)
    <3>1. /\ worker = "handle" /\ worker' = "pop" /\ queue' = queue
          /\ handled' = Append(handled, Head(queue))
      BY <2>2 DEF DealUnknown, DealHandle, WorkerTo
    <3>2. queue # <<>>
      BY <1>0, <3>1 DEF FrontInv
    <3>. QED BY <1>3, <3>1, <3>2
  <2>3. CASE DealPop
    <3>1. /\ worker = "pop" /\ worker' # "pop" /\ queue' = Tail(queue) /\ handled' = handled
      BY <2>3 DEF DealPop, WorkerTo
    <3>. QED BY <1>0, <3>1 DEF Requests!Rest, Left
  <2>. QED BY <1>6, <2>1, <2>2, <2>3 DEF DealMsg
<1>7. CASE StopStep
  <2>1. queue' = queue /\ handled' = handled /\ d' = d
    BY <1>7 DEF StopStep, StopIo, JoinIo, StopLogic, Notified
  <2>. QED BY <1>1, <2>1
<1>8. CASE UNCHANGED vars
  BY <1>1, <1>8 DEF vars
<1>. QED BY <1>4, <1>5, <1>6, <1>7, <1>8 DEF Next

\* Requests reach their handlers in the order in which they were posted, each once.
THEOREM RequestCorrect == Spec => RequestSpec
<1>1. Init => Requests!Init
  BY DEF Init, Requests!Init, Unhandled
<1>2. SioInv /\ [Next]_vars => [Requests!Next]_<<<<Unhandled>>, <<handled>>>>
  BY RequestImplements DEF Requests!Next
<1>. QED BY <1>1, <1>2, SioInvCorrect, PTL DEF Spec, RequestSpec, Requests!Spec
=============================================================================
