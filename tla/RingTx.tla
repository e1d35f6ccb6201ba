------------------------------- MODULE RingTx -------------------------------
(***************************************************************************)
(* A transmit buffer: the main loop calls ring_buffer_put_force and an     *)
(* interrupt handler calls ring_buffer_get (mcu_tx, trs_tx and dsp_spi_tx  *)
(* on the ARM, the Blackfin's transmit buffer).  The roles of RingRx are   *)
(* exchanged: the get is one step and the put is interruptible at each of  *)
(* its accesses to shared memory.  Only main writes head, so its `head++`  *)
(* is the store; its `tail++` on a full buffer is a load and a store that  *)
(* the handler's own increments can fall between.                          *)
(***************************************************************************)
EXTENDS RingBuffer, Naturals, Sequences

CONSTANTS
  Width,   \* s_elem, the bytes of one element
  Burst,   \* bound: gets by the handler while one put is in progress
  MaxPuts  \* bound: elements main ever enqueues

\* The handler cannot drain a whole buffer within one put: it takes at most the
\* 16 bytes of a UART FIFO per interrupt from buffers of 256 or 512 elements, and
\* the next interrupt comes when those 16 have been sent.
ASSUME TxAssumption == Width \in Nat \ {0} /\ Burst \in 0 .. N - 1 /\ MaxPuts \in Nat

VARIABLES
  head, tail, buf,  \* struct ring_buffer; buf[s][j] is byte j of the element in slot s
  pc, reg, copied,  \* main: next step of the put, the counter it holds, bytes copied
  burst,            \* gets since the put in progress began
  sent, out,        \* history: elements enqueued so far, what each get returned
  dropped           \* history: puts that found the buffer full

vars == <<head, tail, buf, pc, reg, copied, burst, sent, out, dropped>>

Init ==
  /\ head = 0 /\ tail = 0
  /\ buf = [s \in Slots |-> [j \in 1 .. Width |-> 0]]
  /\ pc = "idle" /\ reg = 0 /\ copied = 0
  /\ burst = 0
  /\ sent = 0 /\ out = <<>> /\ dropped = 0

-----------------------------------------------------------------------------
\* The interrupt handler: ring_buffer_get, which fails on an empty buffer.
Get ==
  /\ ~Empty(head, tail)
  /\ pc # "idle" => burst < Burst
  /\ burst' = IF pc = "idle" THEN 0 ELSE burst + 1
  /\ out' = Append(out, buf[Slot(tail)])
  /\ tail' = Inc(tail)
  /\ UNCHANGED <<head, buf, pc, reg, copied, sent, dropped>>

-----------------------------------------------------------------------------
\* The put of the element numbered sent.  The full test reads head and tail in an
\* order C leaves to the compiler: one of them first ...
PutLoadFirst ==
  /\ pc = "idle" /\ sent < MaxPuts
  /\ \/ pc' = "haveHead" /\ reg' = head
     \/ pc' = "haveTail" /\ reg' = tail
  /\ copied' = 0
  /\ UNCHANGED <<head, tail, buf, burst, sent, out, dropped>>

\* ... then the other.
PutTestFull ==
  /\ pc \in {"haveHead", "haveTail"}
  /\ LET h == IF pc = "haveHead" THEN reg ELSE head
         t == IF pc = "haveTail" THEN reg ELSE tail
     IN IF Full(h, t)
        THEN pc' = "full" /\ dropped' = dropped + 1
        ELSE pc' = "copy" /\ dropped' = dropped
  /\ UNCHANGED <<head, tail, buf, reg, copied, burst, sent, out>>

\* tail++ on a full buffer: the load ...
PutLoadTail ==
  /\ pc = "full"
  /\ pc' = "store" /\ reg' = tail
  /\ UNCHANGED <<head, tail, buf, copied, burst, sent, out, dropped>>

\* Mutant of PutStoreTail: two elements are cleared for one.
PutStoreTailTwice ==
  /\ pc = "store"
  /\ pc' = "copy" /\ tail' = Inc(Inc(reg))
  /\ UNCHANGED <<head, buf, reg, copied, burst, sent, out, dropped>>

\* ... and the store.
PutStoreTail ==
  /\ pc = "store"
  /\ pc' = "copy" /\ tail' = Inc(reg)
  /\ UNCHANGED <<head, buf, reg, copied, burst, sent, out, dropped>>

\* One byte of the memcpy into the slot of head.
PutCopyByte ==
  /\ pc = "copy" /\ copied < Width
  /\ buf' = [buf EXCEPT ![Slot(head)][copied + 1] = sent]
  /\ copied' = copied + 1
  /\ UNCHANGED <<head, tail, pc, reg, burst, sent, out, dropped>>

\* Mutant of PutStoreHead: the element is published before it is copied.
PutStoreHeadEarly ==
  /\ pc = "copy" /\ copied = Width - 1
  /\ pc' = "idle" /\ burst' = 0
  /\ buf' = [buf EXCEPT ![Slot(Inc(head))][Width] = sent]
  /\ head' = Inc(head) /\ sent' = sent + 1
  /\ UNCHANGED <<tail, reg, copied, out, dropped>>

\* head++ publishes the element.
PutStoreHead ==
  /\ pc = "copy" /\ copied = Width
  /\ pc' = "idle" /\ burst' = 0
  /\ head' = Inc(head) /\ sent' = sent + 1
  /\ UNCHANGED <<tail, buf, reg, copied, out, dropped>>

PutForce == \/ PutLoadFirst \/ PutTestFull \/ PutLoadTail
            \/ PutStoreTail \/ PutCopyByte \/ PutStoreHead

Next == Get \/ PutForce

Spec == Init /\ [][Next]_vars

-----------------------------------------------------------------------------
PC == {"idle", "haveHead", "haveTail", "full", "store", "copy"}

\* Types of the buffer, of main's registers and of the histories.
TypeOK ==
  /\ head \in Counters /\ tail \in Counters
  /\ buf \in [Slots -> [1 .. Width -> Nat]]
  /\ pc \in PC
  /\ reg \in Counters
  /\ copied \in 0 .. Width
  /\ burst \in 0 .. Burst
  /\ sent \in Nat
  /\ out \in Seq([1 .. Width -> Nat])
  /\ dropped \in Nat

Element(id) == [j \in 1 .. Width |-> id]

\* Until the first put that finds the buffer full, the interruptible put and the
\* interrupt-driven get together are an exact first-in first-out queue: the n-th
\* get returns the n-th element, whole, and the elements between are held.
ExactUntilOverrun ==
  dropped = 0 =>
    /\ \A i \in 1 .. Len(out) : out[i] = Element(i - 1)
    /\ Count(head, tail) = sent - Len(out)

\* The counters never claim more elements than there are slots, and tail never
\* passes head, even when the handler's gets fall into main's `tail++`.
OccupancyBound == Count(head, tail) <= N

\* The handler never reads the slot main is writing: every get returns an element
\* that was put, whole, also on a buffer that overruns.
Whole == \A i \in 1 .. Len(out) : \E id \in 0 .. sent - 1 : out[i] = Element(id)
=============================================================================
