------------------------------ MODULE ByteQueue ------------------------------
(***************************************************************************)
(* What a byte channel between one producer and one consumer promises: a   *)
(* bounded first-in first-out queue.  A put that finds the queue full is   *)
(* refused and changes nothing; a get hands over the oldest byte (Look)    *)
(* and then gives its place back (Take), and bytes may be put in between.  *)
(* RingBuf implements this specification (common/ringbuf.h).               *)
(***************************************************************************)
EXTENDS Naturals, Sequences

CONSTANTS Byte,      \* the bytes the producer may put
          Capacity   \* how many bytes the queue holds

VARIABLES
  queue,     \* the buffered bytes, oldest first
  out,       \* the byte the last get handed over
  taking     \* whether its place has still to be given back

vars == <<queue, out, taking>>

Init == queue = << >> /\ out \in Byte /\ taking = FALSE

Put(b) == /\ Len(queue) < Capacity
          /\ queue' = Append(queue, b)
          /\ UNCHANGED <<out, taking>>

Look == /\ ~taking /\ queue # << >>
        /\ out' = Head(queue) /\ taking' = TRUE
        /\ UNCHANGED queue

Take == /\ taking
        /\ queue' = Tail(queue) /\ taking' = FALSE
        /\ UNCHANGED out

Next == Look \/ Take \/ \E b \in Byte : Put(b)

Spec == Init /\ [][Next]_vars
=============================================================================
