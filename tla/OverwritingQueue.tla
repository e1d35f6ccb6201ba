-------------------------- MODULE OverwritingQueue --------------------------
(***************************************************************************)
(* What ring_buffer_put_force and ring_buffer_get promise their two users: *)
(* a bounded first-in first-out queue whose put "clears the oldest element *)
(* if the buffer is full".  A put is not atomic.  It clears the queue down *)
(* from what it saw, and gets that overlap it may have taken some of that  *)
(* already: then it clears less than the oldest element held, and may even *)
(* bring back elements that were taken.  What stays true is that the queue *)
(* is always an end of what it was, and that a put costs it one element at *)
(* most.  RingTx implements this queue.                                    *)
(***************************************************************************)
EXTENDS Naturals, Sequences

CONSTANTS
  Elements, \* what the queue holds
  Capacity  \* the number of elements it can hold

VARIABLES
  queue,  \* the elements held, oldest first
  seen,   \* what the put in progress saw when it found the queue full, else empty
  out     \* the elements taken

vars == <<queue, seen, out>>

Init == queue = <<>> /\ seen = <<>> /\ out = <<>>

\* A put finds the queue full ...
FindFull ==
  /\ seen = <<>> /\ Len(queue) = Capacity
  /\ seen' = queue
  /\ UNCHANGED <<queue, out>>

\* ... and leaves in it what followed one of the elements it saw, which is not beyond
\* the oldest element still held.
ClearOldest ==
  /\ seen # <<>>
  /\ \E k \in 2 .. Capacity - Len(queue) + 2 : queue' = SubSeq(seen, k, Capacity)
  /\ seen' = <<>>
  /\ UNCHANGED out

\* A put that has found the queue full clears an element before it adds one.
Put(e) ==
  /\ seen = <<>> /\ Len(queue) < Capacity
  /\ queue' = Append(queue, e)
  /\ UNCHANGED <<seen, out>>

Get ==
  /\ queue # <<>>
  /\ out' = Append(out, Head(queue))
  /\ queue' = Tail(queue)
  /\ UNCHANGED seen

Next == FindFull \/ ClearOldest \/ Get \/ \E e \in Elements : Put(e)
Spec == Init /\ [][Next]_vars
=============================================================================
