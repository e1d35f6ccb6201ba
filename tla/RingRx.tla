------------------------------- MODULE RingRx -------------------------------
(***************************************************************************)
(* A receive buffer: an interrupt handler calls ring_buffer_put_force and  *)
(* the main loop calls ring_buffer_get (mcu_rx, trs_rx and dsp_spi_rx on   *)
(* the ARM, both buffers of the Blackfin's CPU link for their own halves). *)
(* Interrupts do not nest and run to completion, so a put is one step; the *)
(* get is interruptible between any two of its loads and stores of shared  *)
(* memory, so each of those is a step.  tail is written by both sides:     *)
(* the get's `tail++` is a load and a later store.                         *)
(*                                                                         *)
(* Elements are numbered in the order the handler receives them; an        *)
(* element of s_elem bytes is copied by main one byte at a time.           *)
(***************************************************************************)
EXTENDS RingBuffer, Naturals, Sequences

CONSTANTS
  Width,   \* s_elem, the bytes of one element
  Burst,   \* bound: puts by the handler while one get is in progress
  MaxPuts  \* bound: elements the handler ever receives

ASSUME RxAssumption == Width \in Nat \ {0} /\ Burst \in Nat /\ MaxPuts \in Nat

VARIABLES
  head, tail, buf,  \* struct ring_buffer; buf[s] is the element in slot s
  pc, reg, data,    \* main: next step of the get, the counter or slot it holds, bytes copied
  burst,            \* puts since the get in progress began
  sent, out,        \* history: elements received so far, what each get returned
  dropped           \* history: puts that found the buffer full

vars == <<head, tail, buf, pc, reg, data, burst, sent, out, dropped>>

Init ==
  /\ head = 0 /\ tail = 0
  /\ buf = [s \in Slots |-> 0]
  /\ pc = "idle" /\ reg = 0 /\ data = <<>>
  /\ burst = 0
  /\ sent = 0 /\ out = <<>> /\ dropped = 0

-----------------------------------------------------------------------------
\* The interrupt handler: ring_buffer_put_force of the element numbered sent.
PutForce ==
  /\ sent < MaxPuts
  /\ pc # "idle" => burst < Burst
  /\ burst' = IF pc = "idle" THEN 0 ELSE burst + 1
  /\ tail' = IF Full(head, tail) THEN Inc(tail) ELSE tail
  /\ dropped' = IF Full(head, tail) THEN dropped + 1 ELSE dropped
  /\ buf' = [buf EXCEPT ![Slot(head)] = sent]
  /\ head' = Inc(head)
  /\ sent' = sent + 1
  /\ UNCHANGED <<pc, reg, data, out>>

-----------------------------------------------------------------------------
\* The emptiness test reads head and tail in an order C leaves to the compiler:
\* one of them first ...
GetLoadFirst ==
  /\ pc = "idle"
  /\ \/ pc' = "haveHead" /\ reg' = head
     \/ pc' = "haveTail" /\ reg' = tail
  /\ UNCHANGED <<head, tail, buf, data, burst, sent, out, dropped>>

\* Mutant of GetTestEmpty: the counters are compared as if they were one.
GetTestAlwaysEmpty ==
  /\ pc \in {"haveHead", "haveTail"}
  /\ pc' = "idle" /\ burst' = 0
  /\ UNCHANGED <<head, tail, buf, reg, data, sent, out, dropped>>

\* Mutant of GetTestEmpty: an empty buffer is not noticed.
GetTestNothing ==
  /\ pc \in {"haveHead", "haveTail"}
  /\ pc' = "offset"
  /\ UNCHANGED <<head, tail, buf, reg, data, burst, sent, out, dropped>>

\* ... then the other, and the get returns RING_BUFFER_GET_ERROR if they are equal.
GetTestEmpty ==
  /\ pc \in {"haveHead", "haveTail"}
  /\ LET h == IF pc = "haveHead" THEN reg ELSE head
         t == IF pc = "haveTail" THEN reg ELSE tail
     IN IF Empty(h, t)
        THEN pc' = "idle" /\ burst' = 0
        ELSE pc' = "offset" /\ burst' = burst
  /\ UNCHANGED <<head, tail, buf, reg, data, sent, out, dropped>>

\* tail is read again for the offset.
GetOffset ==
  /\ pc = "offset"
  /\ pc' = "copy" /\ reg' = Slot(tail) /\ data' = <<>>
  /\ UNCHANGED <<head, tail, buf, burst, sent, out, dropped>>

\* One byte of the memcpy.
GetCopyByte ==
  /\ pc = "copy" /\ Len(data) < Width
  /\ data' = Append(data, buf[reg])
  /\ UNCHANGED <<head, tail, buf, pc, reg, burst, sent, out, dropped>>

\* tail++: the load ...
GetLoadTail ==
  /\ pc = "copy" /\ Len(data) = Width
  /\ pc' = "store" /\ reg' = tail
  /\ UNCHANGED <<head, tail, buf, data, burst, sent, out, dropped>>

\* ... and the store, after which the get returns the copied element.
GetStoreTail ==
  /\ pc = "store"
  /\ pc' = "idle" /\ burst' = 0
  /\ tail' = Inc(reg)
  /\ out' = Append(out, data)
  /\ UNCHANGED <<head, buf, reg, data, sent, dropped>>

Get == \/ GetLoadFirst \/ GetTestEmpty \/ GetOffset
       \/ GetCopyByte \/ GetLoadTail \/ GetStoreTail

Next == PutForce \/ Get

\* The main loop polls each receive buffer on every pass.
Spec == Init /\ [][Next]_vars
FairSpec == Spec /\ WF_vars(Get)

-----------------------------------------------------------------------------
PC == {"idle", "haveHead", "haveTail", "offset", "copy", "store"}

\* Types of the buffer, of main's registers and of the histories.
TypeOK ==
  /\ head \in Counters /\ tail \in Counters
  /\ buf \in [Slots -> Nat]
  /\ pc \in PC
  /\ reg \in IF pc = "copy" THEN Slots ELSE Counters
  /\ data \in Seq(Nat) /\ Len(data) <= Width
  /\ burst \in 0 .. Burst
  /\ sent \in 0 .. MaxPuts
  /\ out \in Seq(Seq(Nat))
  /\ dropped \in Nat

Element(id) == [j \in 1 .. Width |-> id]

\* Until the first put that finds the buffer full, the interrupt-driven put and
\* the interruptible get together are an exact first-in first-out queue: the
\* n-th get returns the n-th element, whole, and the elements between are held.
ExactUntilOverrun ==
  dropped = 0 =>
    /\ \A i \in 1 .. Len(out) : out[i] = Element(i - 1)
    /\ Count(head, tail) = sent - Len(out)

\* "Clear oldest element if ring buffer full" (ring_buffer.c:119): the counters never
\* claim more elements than there are slots.  At most one put inside a get keeps to
\* that; with two, main's `tail++` on a full buffer stores over their increments, and
\* from then on `head - tail == n_elem` does not see that the buffer is full.
OccupancyBound == Count(head, tail) <= N

\* Once elements stop arriving the polling main loop empties the buffer, even
\* after overruns have pushed the occupancy beyond N.
Drains == (sent = MaxPuts) ~> (Empty(head, tail) /\ pc = "idle")
=============================================================================
