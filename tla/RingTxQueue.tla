---------------------------- MODULE RingTxQueue ----------------------------
(***************************************************************************)
(* The transmit buffer of RingTx implements OverwritingQueue.  An element  *)
(* enters the queue when main's put stores head and leaves it when the     *)
(* handler's get, or the put's own store to tail, moves tail past it.      *)
(***************************************************************************)
EXTENDS RingTx

\* The elements held, oldest first, by the number in their first byte.
Held == [i \in 1 .. Count(head, tail) |-> buf[Slot((tail + i - 1) % CounterMod)][1]]

\* The put has read counters that a full buffer had: when its first load was of
\* tail it is bound to judge by the state of that moment.
SawFull == \/ pc = "haveTail" /\ Full(head, reg)
           \/ pc \in {"full", "store"}

\* The elements the full buffer held then: all its slots, from head's on, which main
\* does not write before it has stored tail.
Seen == IF SawFull THEN [i \in 1 .. N |-> buf[Slot((head + i - 1) % CounterMod)][1]] ELSE <<>>

\* The numbers of the elements the handler has taken.
Taken == [i \in 1 .. Len(out) |-> out[i][1]]

Abstract == INSTANCE OverwritingQueue WITH
  Elements <- 0 .. MaxPuts, Capacity <- N,
  queue <- Held, seen <- Seen, out <- Taken

\* The interruptible put_force and the interrupt-driven get are an overwriting queue,
\* however many gets fall into a put: the elements held are always a stretch of those
\* put, in order and whole, a put drops at most the oldest of them, and only a put
\* on a full buffer can bring back what gets have taken during it.
ImplementsQueue == Abstract!Spec
=============================================================================
