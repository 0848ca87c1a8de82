-------------------------------- MODULE Fifo --------------------------------
(***************************************************************************)
(* What the queues of a ChatServer promise: what was put in comes out      *)
(* once, whole and in that order.  What is still inside may be left there. *)
(***************************************************************************)
EXTENDS Naturals, Sequences

CONSTANT Lane       \* each lane is a queue of its own

VARIABLES
    buf,    \* buf[l]: what was put into lane l and has not come out
    out     \* out[l]: what has come out of it

Init == \A l \in Lane : buf[l] = <<>> /\ out[l] = <<>>

Put(l) == /\ Len(buf'[l]) = Len(buf[l]) + 1
          /\ SubSeq(buf'[l], 1, Len(buf[l])) = buf[l]
          /\ out'[l] = out[l]

Get(l) == /\ buf[l] # <<>>
          /\ out'[l] = Append(out[l], Head(buf[l]))
          /\ buf'[l] = Tail(buf[l])

Rest(l) == buf'[l] = buf[l] /\ out'[l] = out[l]

Next == \A l \in Lane : Put(l) \/ Get(l) \/ Rest(l)

Spec == Init /\ [][Next]_<<buf, out>>
=============================================================================
