----------------------------- MODULE SessionIO -----------------------------
(***************************************************************************)
(* The way of a message through a ChatServer: CSession reads frames on an  *)
(* io thread and posts them to the logic queue, DealMsg hands them to the  *)
(* handlers on the logic thread, and what the handlers and the gRPC        *)
(* threads send goes through the send queue of a session, one async_write  *)
(* at a time.  At the end the io threads are joined and the destructor of  *)
(* LogicSystem stops the logic thread.                                     *)
(*                                                                         *)
(* A step is what happens under one hold of a mutex or in one callback.    *)
(* DealMsg keeps the mutex of the queue while a handler runs.              *)
(***************************************************************************)
EXTENDS Integers, Sequences

CONSTANTS
    Session,
    MaxSend,    \* MAX_SENDQUE (1000 in the code)
    MaxFrames,  \* bound on the frames each client sends
    MaxPushes,  \* bound on the messages of gRPC threads to each client
    Length      \* lengths of the messages that are sent

ASSUME BoundAssumption ==
    /\ MaxSend \in Nat /\ MaxFrames \in [Session -> Nat] /\ MaxPushes \in [Session -> Nat]
    /\ Length \subseteq Nat

VARIABLES
    reader,     \* reader[s]: the frame being read: pc and, once posted, its number
    sock,       \* sock[s]: "open", or "closed" by Close
    valid,      \* sessions in CServer's _sessions
    frames,     \* frames[s]: how many requests of s were read
    queue,      \* _msg_que: <<session, number>>
    worker,     \* the logic thread in DealMsg: "top", "check", "wait", "handle", "pop", "ended"
    handled,    \* history: the requests that were given to a handler, in that order
    sendq,      \* _send_que
    writes,     \* writes[s]: messages given to async_write, not yet on the wire
    written,    \* written[s]: is a completed write waiting for HandleWrite?
    got,        \* client side: what has arrived
    pushes,     \* pushes[s]: how many messages gRPC threads have sent
    phase       \* "run", "stopping" (io threads), "joined", "stopped" (_b_stop), "dead"

inVars  == <<reader, valid, frames>>
outVars == <<sendq, writes, written, got>>
vars    == <<inVars, sock, queue, worker, handled, outVars, pushes, phase>>

Init ==
    /\ reader  = [s \in Session |-> "read"]
    /\ sock    = [s \in Session |-> "open"]
    /\ valid   = Session
    /\ frames  = [s \in Session |-> 0]
    /\ queue   = <<>>
    /\ worker  = "top"
    /\ handled = <<>>
    /\ sendq   = [s \in Session |-> <<>>]
    /\ writes  = [s \in Session |-> <<>>]
    /\ written = [s \in Session |-> FALSE]
    /\ got     = [s \in Session |-> <<>>]
    /\ pushes  = [s \in Session |-> 0]
    /\ phase   = "run"

b_stop == phase = "stopped"

\* The mutex of the queue is with the logic thread from its look at the queue on.
MutexFree == worker \notin {"check", "handle", "pop"}

-----------------------------------------------------------------------------
(* Reading: io threads.                                                     *)

Running(s) == phase = "run" /\ sock[s] = "open"

\* ClearSession: the session leaves _sessions, its socket stays as it is.
Cleared(s) == valid' = valid \ {s}

ReadOff(s) == reader' = [reader EXCEPT ![s] = "off"]

\* Close and DealExceptionSession (module LoginSession has its steps) or, for a short
\* read, Close and ClearSession.
ReadError(s) ==
    /\ Running(s) /\ reader[s] = "read"
    /\ ReadOff(s) /\ Cleared(s)
    /\ sock' = [sock EXCEPT ![s] = "closed"]
    /\ UNCHANGED <<frames, queue, worker, handled, outVars, pushes, phase>>

\* A session that was cleared meanwhile, by a kick, is closed by its next frame.
ReadInvalid(s) ==
    /\ Running(s) /\ reader[s] = "read" /\ s \notin valid
    /\ ReadOff(s)
    /\ sock' = [sock EXCEPT ![s] = "closed"]
    /\ UNCHANGED <<valid, frames, queue, worker, handled, outVars, pushes, phase>>

\* A header with an id or a length above MAX_LENGTH clears the session; a negative length
\* passes this test and the allocation of the body throws.  Nobody reads on.
ReadBadHead(s) ==
    /\ Running(s) /\ reader[s] = "read" /\ s \in valid
    /\ ReadOff(s)
    /\ Cleared(s) \/ UNCHANGED valid
    /\ UNCHANGED <<frames, sock, queue, worker, handled, outVars, pushes, phase>>

\* AsyncReadHead and AsyncReadBody up to the post: a whole frame has come in.
ReadFrame(s) ==
    /\ Running(s) /\ reader[s] = "read" /\ s \in valid /\ frames[s] < MaxFrames[s]
    /\ reader' = [reader EXCEPT ![s] = "post"]
    /\ frames' = [frames EXCEPT ![s] = @ + 1]
    /\ UNCHANGED <<valid, sock, queue, worker, handled, outVars, pushes, phase>>

\* notify_one of the queue's condition variable.
Notified == IF worker = "wait" THEN "top" ELSE worker

\* Mutant: the notification comes with the second message.
PostMsgLateNotify(s) ==
    /\ reader[s] = "post" /\ MutexFree
    /\ queue' = Append(queue, <<s, frames[s]>>)
    /\ worker' = IF Len(queue) = 1 THEN Notified ELSE worker
    /\ reader' = [reader EXCEPT ![s] = "read"]
    /\ UNCHANGED <<valid, frames, sock, handled, outVars, pushes, phase>>

\* PostMsgToQue: waits for the mutex, and notifies when the queue was empty.
PostMsgToQue(s) ==
    /\ reader[s] = "post" /\ MutexFree
    /\ queue' = Append(queue, <<s, frames[s]>>)
    /\ worker' = IF queue = <<>> THEN Notified ELSE worker
    /\ reader' = [reader EXCEPT ![s] = "read"]
    /\ UNCHANGED <<valid, frames, sock, handled, outVars, pushes, phase>>

\* NotifyKickUser or a login elsewhere, on another thread.
Kick(s) ==
    /\ phase = "run" /\ s \in valid
    /\ Cleared(s)
    /\ UNCHANGED <<reader, frames, sock, queue, worker, handled, outVars, pushes, phase>>

-----------------------------------------------------------------------------
(* Sending.                                                                 *)

\* short: 16 bits with a sign.
Short(n) == LET w == n % 65536 IN IF w < 32768 THEN w ELSE w - 65536

HEAD_TOTAL_LEN == 4

\* SendNode takes the length as a short, and MsgNode the sum with the header: where
\* one of them is negative there is no buffer for the frame (bad_array_new_length).
Fits(n) == Short(n) >= 0 /\ Short(Short(n) + HEAD_TOTAL_LEN) >= 0

\* The frame that carries message id of n bytes: its header says len.
SendNode(id, n) == [id |-> id, size |-> n, len |-> Short(n)]

\* Mutant: the queue has no limit.
SendUnlimited(s, f) ==
    /\ sendq' = [sendq EXCEPT ![s] = Append(@, f)]
    /\ writes' = IF sendq[s] = <<>> THEN [writes EXCEPT ![s] = Append(@, f)] ELSE writes

\* Mutant: every Send writes by itself.
SendAtOnce(s, f) ==
    /\ sendq' = [sendq EXCEPT ![s] = Append(@, f)]
    /\ writes' = [writes EXCEPT ![s] = Append(@, f)]

\* CSession::Send of a frame that fits.  A full queue drops it without a word.
Send(s, f) ==
    IF Len(sendq[s]) > MaxSend
    THEN UNCHANGED <<sendq, writes>>
    ELSE /\ sendq' = [sendq EXCEPT ![s] = Append(@, f)]
         /\ writes' = IF sendq[s] = <<>>
                      THEN [writes EXCEPT ![s] = Append(@, f)] ELSE writes

\* async_write completes: the client has the frame; HandleWrite is still to run.
Written(s) ==
    /\ writes[s] # <<>> /\ sock[s] = "open"
    /\ got' = [got EXCEPT ![s] = Append(@, Head(writes[s]))]
    /\ writes' = [writes EXCEPT ![s] = Tail(@)]
    /\ written' = [written EXCEPT ![s] = TRUE]
    /\ UNCHANGED <<inVars, sock, queue, worker, handled, sendq, pushes, phase>>

\* Mutant: the message that was written stays at the front.
HandleWriteNoPop(s) ==
    /\ phase = "run" /\ written[s]
    /\ written' = [written EXCEPT ![s] = FALSE]
    /\ writes' = [writes EXCEPT ![s] = Append(@, sendq[s][1])]
    /\ UNCHANGED <<inVars, sock, queue, worker, handled, sendq, got, pushes, phase>>

\* Mutant: the next message waits for the next Send.
HandleWriteStops(s) ==
    /\ phase = "run" /\ written[s]
    /\ written' = [written EXCEPT ![s] = FALSE]
    /\ sendq' = [sendq EXCEPT ![s] = Tail(@)]
    /\ UNCHANGED <<inVars, sock, queue, worker, handled, writes, got, pushes, phase>>

\* HandleWrite without an error: the message leaves the queue and the next is written.
HandleWrite(s) ==
    /\ phase = "run" /\ written[s]
    /\ written' = [written EXCEPT ![s] = FALSE]
    /\ sendq' = [sendq EXCEPT ![s] = Tail(@)]
    /\ writes' = IF Len(sendq[s]) > 1
                 THEN [writes EXCEPT ![s] = Append(@, sendq[s][2])] ELSE writes
    /\ UNCHANGED <<inVars, sock, queue, worker, handled, got, pushes, phase>>

\* HandleWrite with an error: Close and DealExceptionSession; the queue is left alone.
WriteError(s) ==
    /\ phase = "run" /\ writes[s] # <<>>
    /\ writes' = [writes EXCEPT ![s] = <<>>]
    /\ sock' = [sock EXCEPT ![s] = "closed"]
    /\ Cleared(s)
    /\ UNCHANGED <<reader, frames, queue, worker, handled, sendq, written, got, pushes, phase>>

\* A gRPC thread sends a notification to a session it has looked up.
Push(s, n) ==
    /\ phase \in {"run", "stopping"} /\ pushes[s] < MaxPushes[s]
    /\ pushes' = [pushes EXCEPT ![s] = @ + 1]
    /\ Fits(n)
    /\ Send(s, SendNode(<<"push", pushes[s]>>, n))
    /\ UNCHANGED <<inVars, sock, queue, worker, handled, written, got, phase>>

-----------------------------------------------------------------------------
(* DealMsg: the logic thread.                                               *)

WorkerTo(w) == worker' = w /\ UNCHANGED <<inVars, sock, outVars, pushes, phase>>

\* The mutex is taken and the predicate of the wait evaluated.
DealLook ==
    /\ worker = "top"
    /\ \/ queue # <<>> /\ WorkerTo("handle")
       \/ queue = <<>> /\ b_stop /\ WorkerTo("ended")
       \/ queue = <<>> /\ ~b_stop /\ WorkerTo("check")
    /\ UNCHANGED <<queue, handled>>

\* _consume.wait: the mutex is released; _b_stop may have been set since the look.
DealWait ==
    /\ worker = "check" /\ WorkerTo("wait")
    /\ UNCHANGED <<queue, handled>>

\* The handler of the front message runs and answers its session with n bytes.  An
\* answer that does not fit throws through the handler, and the process ends.
DealHandle(n) ==
    /\ worker = "handle"
    /\ worker' = "pop"
    /\ handled' = Append(handled, Head(queue))
    /\ IF Fits(n)
       THEN /\ Send(Head(queue)[1], SendNode(Head(queue), n))
            /\ UNCHANGED phase
       ELSE /\ phase' = "dead"
            /\ UNCHANGED <<sendq, writes>>
    /\ UNCHANGED <<inVars, sock, queue, written, got, pushes>>

\* A message without a handler is popped and nothing else.
DealUnknown ==
    /\ worker = "handle"
    /\ handled' = Append(handled, Head(queue))
    /\ WorkerTo("pop")
    /\ UNCHANGED queue

\* Mutant: front() twice and one pop().
DealPopTwice ==
    /\ worker = "pop"
    /\ queue' = IF Len(queue) > 1 THEN Tail(Tail(queue)) ELSE <<>>
    /\ WorkerTo(IF b_stop THEN "ended" ELSE "top")
    /\ UNCHANGED handled

\* Once stopped, the mutex is kept until the queue is empty.
DealPop ==
    /\ worker = "pop"
    /\ queue' = Tail(queue)
    /\ WorkerTo(IF b_stop /\ Len(queue) > 1 THEN "handle"
                ELSE IF b_stop THEN "ended" ELSE "top")
    /\ UNCHANGED handled

-----------------------------------------------------------------------------
(* The end of the process.                                                  *)

\* The signal handler of main stops the io_contexts and joins their threads, which
\* finish the callback they are in.
StopIo ==
    /\ phase = "run" /\ phase' = "stopping"
    /\ UNCHANGED <<inVars, sock, queue, worker, handled, outVars, pushes>>

JoinIo ==
    /\ phase = "stopping" /\ phase' = "joined"
    /\ \A s \in Session : reader[s] # "post"
    /\ UNCHANGED <<inVars, sock, queue, worker, handled, outVars, pushes>>

\* ~LogicSystem sets _b_stop without the mutex and notifies.
StopLogic ==
    /\ phase = "joined" /\ phase' = "stopped"
    /\ worker' = Notified
    /\ UNCHANGED <<inVars, sock, queue, handled, outVars, pushes>>

-----------------------------------------------------------------------------
ReadStep(s) ==
    \/ ReadError(s) \/ ReadInvalid(s) \/ ReadBadHead(s) \/ ReadFrame(s)
    \/ PostMsgToQue(s) \/ Kick(s)

WriteStep(s) ==
    \/ Written(s) \/ HandleWrite(s) \/ WriteError(s)
    \/ \E n \in Length : Push(s, n)

DealMsg == DealLook \/ DealWait \/ (\E n \in Length : DealHandle(n)) \/ DealUnknown \/ DealPop

StopStep == StopIo \/ JoinIo \/ StopLogic

Next ==
    /\ phase # "dead"
    /\ \/ \E s \in Session : ReadStep(s) \/ WriteStep(s)
       \/ DealMsg
       \/ StopStep

Spec == Init /\ [][Next]_vars

\* Handlers return, the logic thread goes on, and an io thread that posts gets the mutex.
\* No client has to send or to read, and nobody has to stop the server.
FairSpec == Spec /\ WF_vars(DealMsg) /\ \A s \in Session : WF_vars(PostMsgToQue(s))

-----------------------------------------------------------------------------
(* Properties.                                                              *)

Id == (Session \cup {"push"}) \X Nat
Frame == [id: Id, size: Length, len: Int]

TypeOK ==
    /\ reader  \in [Session -> {"read", "post", "off"}]
    /\ sock    \in [Session -> {"open", "closed"}]
    /\ valid   \subseteq Session
    /\ frames  \in [Session -> Nat]
    /\ queue   \in Seq(Session \X Nat)
    /\ worker  \in {"top", "check", "wait", "handle", "pop", "ended"}
    /\ handled \in Seq(Session \X Nat)
    /\ sendq   \in [Session -> Seq(Frame)]
    /\ \A s \in Session : Len(sendq[s]) <= MaxSend + 1
    /\ writes  \in [Session -> Seq(Frame)]
    /\ got     \in [Session -> Seq(Frame)]
    /\ written \in [Session -> BOOLEAN]
    /\ pushes  \in [Session -> Nat]
    /\ phase   \in {"run", "stopping", "joined", "stopped", "dead"}

\* However the threads that send and the io thread's HandleWrite interleave, a session
\* never has two async_writes at a time (Asio forbids it: frames would mix), and the one
\* it has is of the front of the queue.
OneWrite ==
    \A s \in Session :
        /\ Len(writes[s]) <= 1
        /\ writes[s] # <<>> => ~written[s] /\ sendq[s] # <<>> /\ Head(writes[s]) = Head(sendq[s])

\* A queue that holds something is being written as long as the socket is open: no
\* message waits for a later Send to set it going.
WriteGoesOn ==
    \A s \in Session :
        sendq[s] # <<>> /\ sock[s] = "open" => writes[s] # <<>> \/ written[s]

\* Below the send queue of every session lies a queue that neither loses, repeats nor
\* reorders what it took in.  A frame is out once it is on the wire, HandleWrite pops it
\* later.
Unwritten == [s \in Session |-> IF written[s] THEN Tail(sendq[s]) ELSE sendq[s]]

Sending == INSTANCE Fifo WITH Lane <- Session, buf <- Unwritten, out <- got

SendSpec == Sending!Spec

\* The requests of all sessions go through the logic queue to the handlers in the order
\* in which they were posted, each once.  A request is out when its handler has run,
\* DealMsg pops it later.
Unhandled == IF worker = "pop" THEN Tail(queue) ELSE queue

Requests == INSTANCE Fifo WITH Lane <- {1}, buf <- <<Unhandled>>, out <- <<handled>>

RequestSpec == Requests!Spec

\* A request that an io thread has read reaches a handler: the mutex that DealMsg keeps
\* during a handler blocks the io thread for a time only, and the notification that is
\* sent for the first message alone is enough for all.  Only an answer that is too long
\* for SendNode, which ends the process, keeps it from that.
RequestHandled ==
    \A s \in Session : \A i \in 1..MaxFrames[s] :
        (reader[s] = "post" /\ frames[s] = i) ~> (phase = "dead" \/ \E k \in 1..Len(handled) : handled[k] = <<s, i>>)
=============================================================================
