---------------------------- MODULE RingTxProofs ----------------------------
(***************************************************************************)
(* Proofs about the transmit use of a ring buffer, for every capacity,     *)
(* counter width, element width and number of elements sent, and for every *)
(* number of gets smaller than the capacity that fall into one put.        *)
(***************************************************************************)
EXTENDS RingTxQueue, RingBufferLemmas, SequenceTheorems

-----------------------------------------------------------------------------
(* Type correctness.                                                       *)

LEMMA TypeInit == Init => TypeOK
<1>1. 0 \in Counters
  BY CounterModType, RingAssumption DEF Counters
<1> QED BY <1>1, TxAssumption, RingAssumption DEF Init, TypeOK, PC

LEMMA TypeStep == TypeOK /\ [Next]_vars => TypeOK'
<1> SUFFICES ASSUME TypeOK, [Next]_vars PROVE TypeOK'
  OBVIOUS
<1> USE RingAssumption, TxAssumption DEF TypeOK, PC
<1>1. CASE Get
  <2>1. buf[Slot(tail)] \in [1 .. Width -> Nat] /\ Inc(tail) \in Counters
    BY SlotType, IncType
  <2> QED BY <1>1, <2>1 DEF Get
<1>2. CASE PutLoadFirst
  BY <1>2 DEF PutLoadFirst
<1>3. CASE PutTestFull
  BY <1>3 DEF PutTestFull
<1>4. CASE PutLoadTail
  BY <1>4 DEF PutLoadTail
<1>5. CASE PutStoreTail
  BY <1>5, IncType DEF PutStoreTail
<1>6. CASE PutCopyByte
  <2>1. Slot(head) \in Slots /\ copied + 1 \in 1 .. Width
    BY <1>6, SlotType DEF PutCopyByte
  <2>2. buf' \in [Slots -> [1 .. Width -> Nat]]
    BY <1>6, <2>1 DEF PutCopyByte
  <2> QED BY <1>6, <2>1, <2>2 DEF PutCopyByte
<1>7. CASE PutStoreHead
  BY <1>7, IncType DEF PutStoreHead
<1>8. CASE UNCHANGED vars
  BY <1>8 DEF vars
<1> QED BY <1>1, <1>2, <1>3, <1>4, <1>5, <1>6, <1>7, <1>8 DEF Next, PutForce

\* The variables keep their types.
THEOREM TypeCorrect == Spec => []TypeOK
  BY TypeInit, TypeStep, PTL DEF Spec

\* What the proofs below use of the types.
LEMMA TypeFacts ==
  ASSUME TypeOK
  PROVE  /\ head \in Counters /\ tail \in Counters /\ reg \in Counters
         /\ sent \in Nat /\ Len(out) \in Nat /\ copied \in Nat
         /\ burst \in Nat /\ burst <= N - 1
         /\ N \in Nat \ {0} /\ CounterMod \in Nat /\ N < CounterMod
         /\ Count(head, tail) \in Nat /\ Count(head, reg) \in Nat
<1>1. head \in Counters /\ tail \in Counters /\ reg \in Counters /\ sent \in Nat
  BY DEF TypeOK
<1>2. Len(out) \in Nat /\ copied \in Nat
  BY TxAssumption DEF TypeOK
<1>3. burst \in Nat /\ burst <= N - 1
  BY TxAssumption, RingAssumption DEF TypeOK
<1> QED BY <1>1, <1>2, <1>3, CountType, CounterModType, RingAssumption

-----------------------------------------------------------------------------
(* The occupancy bound.  The inductive invariant bounds what main's stale  *)
(* copy of tail can be behind: every get counted in burst takes one off,   *)
(* and fewer than N of them fall into one put, so the tail main stores is  *)
(* never past head and never frees more than the buffer holds.             *)

BoundInv ==
  /\ Count(head, tail) <= N
  /\ pc = "haveHead" => reg = head
  /\ pc = "haveTail" => /\ Count(head, tail) <= Count(head, reg)
                        /\ Count(head, reg) <= N
                        /\ Count(head, reg) <= Count(head, tail) + burst
  /\ pc = "full" => Count(head, tail) + burst >= N
  /\ pc = "store" => /\ Count(head, tail) <= Count(head, reg)
                     /\ Count(head, reg) \in 1 .. N
  /\ pc = "copy" => Count(head, tail) < N

LEMMA BoundInit == Init => BoundInv
<1> SUFFICES ASSUME Init PROVE BoundInv
  OBVIOUS
<1>1. head \in Counters /\ tail = head /\ pc = "idle"
  BY CounterModType, RingAssumption DEF Init, Counters
<1> QED BY <1>1, CountZero, RingAssumption DEF BoundInv

LEMMA BoundGet ==
  ASSUME TypeOK, BoundInv, Get
  PROVE  BoundInv'
<1>1. /\ head' = head /\ pc' = pc /\ reg' = reg
      /\ pc # "idle" => burst' = burst + 1
  BY DEF Get
<1>2. Count(head', tail') = Count(head, tail) - 1
  BY TypeFacts, CountIncTail DEF Get, Empty
<1> QED BY <1>1, <1>2, TypeFacts DEF BoundInv

LEMMA BoundPut ==
  ASSUME TypeOK, BoundInv, PutForce
  PROVE  BoundInv'
<1>1. CASE PutLoadFirst
  <2>1. head' = head /\ tail' = tail /\ burst' = burst /\ Count(head, tail) <= N
    BY <1>1 DEF PutLoadFirst, BoundInv
  <2>2. \/ pc' = "haveHead" /\ reg' = head
        \/ pc' = "haveTail" /\ reg' = tail
    BY <1>1 DEF PutLoadFirst
  <2> QED BY <2>1, <2>2, TypeFacts DEF BoundInv
<1>2. CASE PutTestFull
  <2>1. head' = head /\ tail' = tail /\ pc' \in {"full", "copy"} /\ burst' = burst
    BY <1>2 DEF PutTestFull
  <2>2. CASE pc = "haveHead"
    <3>1. pc' = "full" <=> Count(head, tail) = N
      BY <1>2, <2>2 DEF PutTestFull, BoundInv, Full
    <3> QED BY <2>1, <2>2, <3>1, TypeFacts DEF BoundInv
  <2>3. CASE pc = "haveTail"
    <3>1. pc' = "full" <=> Count(head, reg) = N
      BY <1>2, <2>3 DEF PutTestFull, Full
    <3>2. /\ Count(head, tail) <= Count(head, reg) /\ Count(head, reg) <= N
          /\ Count(head, reg) <= Count(head, tail) + burst
      BY <2>3 DEF BoundInv
    <3> QED BY <2>1, <3>1, <3>2, TypeFacts DEF BoundInv
  <2> QED BY <1>2, <2>2, <2>3 DEF PutTestFull
<1>3. CASE PutLoadTail
  <2>1. head' = head /\ tail' = tail /\ reg' = tail /\ pc' = "store"
    BY <1>3 DEF PutLoadTail
  <2>2. Count(head, tail) \in 1 .. N
    BY <1>3, TypeFacts DEF PutLoadTail, BoundInv
  <2> QED BY <2>1, <2>2, TypeFacts DEF BoundInv
<1>4. CASE PutStoreTail
  <2>1. head' = head /\ tail' = Inc(reg) /\ pc' = "copy" /\ Count(head, reg) \in 1 .. N
    BY <1>4 DEF PutStoreTail, BoundInv
  <2>2. Count(head', tail') = Count(head, reg) - 1
    BY <2>1, TypeFacts, CountIncTail
  <2> QED BY <2>1, <2>2, TypeFacts DEF BoundInv
<1>5. CASE PutCopyByte
  BY <1>5 DEF PutCopyByte, BoundInv
<1>6. CASE PutStoreHead
  <2>1. head' = Inc(head) /\ tail' = tail /\ pc' = "idle" /\ Count(head, tail) < N
    BY <1>6 DEF PutStoreHead, BoundInv
  <2>2. Count(head', tail') = Count(head, tail) + 1
    BY <2>1, TypeFacts, CountIncHead, CounterModType
  <2> QED BY <2>1, <2>2, TypeFacts DEF BoundInv
<1> QED BY <1>1, <1>2, <1>3, <1>4, <1>5, <1>6 DEF PutForce

LEMMA BoundStep == TypeOK /\ BoundInv /\ [Next]_vars => BoundInv'
<1>1. CASE UNCHANGED vars
  BY <1>1 DEF vars, BoundInv
<1> QED BY <1>1, BoundGet, BoundPut DEF Next

\* The buffer never claims more elements than it has slots, whatever gets fall
\* into main's put.
THEOREM OccupancyBounded == Spec => []OccupancyBound
<1>1. BoundInv => OccupancyBound
  BY DEF BoundInv, OccupancyBound
<1> QED BY <1>1, BoundInit, BoundStep, TypeCorrect, PTL DEF Spec

-----------------------------------------------------------------------------
(* Gets return whole elements.  Every slot holds a whole element except    *)
(* the one at head while main copies into it, and that one is outside what *)
(* the handler may read.  This needs the whole buffer, not only the        *)
(* elements between tail and head: main's store can put tail back.         *)

IsWhole(e, n) == \E id \in 0 .. n - 1 : e = Element(id)

WholeInv ==
  /\ \A i \in 1 .. Len(out) : IsWhole(out[i], sent)
  /\ sent = 0 => Count(head, tail) = 0 /\ pc \notin {"full", "store"}
  /\ sent = 0 => (pc = "haveTail" => reg = tail)
  /\ sent = 0 => \A s \in Slots : buf[s] = Element(0)
  /\ sent > 0 => \A s \in Slots : IsWhole(buf[s], sent) \/ (pc = "copy" /\ s = Slot(head))
  /\ pc \notin {"idle", "copy"} => copied = 0
  /\ pc = "copy" => \A j \in 1 .. copied : buf[Slot(head)][j] = sent

LEMMA WholeInit == Init => WholeInv
<1> SUFFICES ASSUME Init PROVE WholeInv
  OBVIOUS
<1>1. head \in Counters /\ tail = head /\ pc = "idle" /\ Len(out) = 0 /\ sent = 0
  BY CounterModType, RingAssumption DEF Init, Counters
<1>2. \A s \in Slots : buf[s] = Element(0)
  BY DEF Init, Element
<1> QED BY <1>1, <1>2, CountZero DEF WholeInv

\* What the handler reads is not the slot main is writing.
LEMMA WholeGet ==
  ASSUME TypeOK, BoundInv, WholeInv, Get
  PROVE  WholeInv'
<1>1. /\ head' = head /\ buf' = buf /\ pc' = pc /\ reg' = reg /\ sent' = sent
      /\ copied' = copied /\ tail' = Inc(tail) /\ out' = Append(out, buf[Slot(tail)])
      /\ Count(head, tail) > 0
  BY TypeFacts DEF Get, Empty
<1>2. sent > 0
  BY <1>1, TypeFacts DEF WholeInv
<1>3. Slot(tail) \in Slots
  BY TypeFacts, SlotType
<1>4. ASSUME pc = "copy" PROVE Slot(tail) # Slot(head)
  <2>1. Count(head, tail) \in 1 .. N - 1
    BY <1>1, <1>4, TypeFacts DEF BoundInv
  <2>2. Slot(head) = At(tail, Count(head, tail)) /\ Slot(tail) = At(tail, 0)
    BY <2>1, TypeFacts, SlotCount, AtEnds
  <2> QED BY <2>1, <2>2, TypeFacts, AtSlots
<1>5. IsWhole(buf[Slot(tail)], sent)
  BY <1>2, <1>3, <1>4 DEF WholeInv
<1>6. \A i \in 1 .. Len(out') : IsWhole(out'[i], sent)
  <2> SUFFICES ASSUME NEW i \in 1 .. Len(out') PROVE IsWhole(out'[i], sent)
    OBVIOUS
  <2>1. Len(out') = Len(out) + 1
    BY <1>1 DEF TypeOK
  <2>2. CASE i = Len(out) + 1
    BY <1>1, <1>5, <2>2 DEF TypeOK
  <2>3. CASE i \in 1 .. Len(out)
    BY <1>1, <2>3 DEF TypeOK, WholeInv
  <2> QED BY <2>1, <2>2, <2>3, TypeFacts
<1> QED BY <1>1, <1>2, <1>6, TypeFacts DEF WholeInv, IsWhole

LEMMA WholePut ==
  ASSUME TypeOK, BoundInv, WholeInv, PutForce
  PROVE  WholeInv'
<1> USE DEF PC
<1>1. CASE PutLoadFirst \/ PutTestFull \/ PutLoadTail \/ PutStoreTail
  <2>1. /\ head' = head /\ buf' = buf /\ sent' = sent /\ out' = out
        /\ pc # "copy" /\ pc' # "idle" /\ copied' = 0
    BY <1>1 DEF PutLoadFirst, PutTestFull, PutLoadTail, PutStoreTail, WholeInv
  <2>2. ASSUME sent = 0
        PROVE  /\ Count(head', tail') = 0 /\ pc' \notin {"full", "store"}
               /\ (pc' = "haveTail" => reg' = tail')
    <3>1. Count(head, tail) = 0 /\ pc \notin {"full", "store"} /\ (pc = "haveTail" => reg = tail)
      BY <2>2 DEF WholeInv
    <3>2. tail' = tail
      BY <1>1, <3>1 DEF PutLoadFirst, PutTestFull, PutLoadTail, PutStoreTail
    <3>3. pc' # "store"
      BY <1>1, <3>1 DEF PutLoadFirst, PutTestFull, PutLoadTail, PutStoreTail
    <3>4. pc' # "full"
      <4>1. CASE PutTestFull
        <5>1. pc = "haveHead" => Count(reg, tail) = 0
          BY <3>1 DEF BoundInv
        <5>2. pc = "haveTail" => Count(head, reg) = 0
          BY <3>1
        <5> QED BY <4>1, <5>1, <5>2, RingAssumption DEF PutTestFull, Full
      <4> QED BY <1>1, <3>1, <4>1 DEF PutLoadFirst, PutLoadTail, PutStoreTail
    <3>5. pc' = "haveTail" => reg' = tail'
      BY <1>1, <3>2 DEF PutLoadFirst, PutTestFull, PutLoadTail, PutStoreTail
    <3> QED BY <2>1, <3>1, <3>2, <3>3, <3>4, <3>5
  <2>3. sent > 0 => \A s \in Slots : IsWhole(buf[s], sent)
    BY <2>1 DEF WholeInv
  <2>4. \A j \in 1 .. copied' : buf'[Slot(head')][j] = sent'
    BY <2>1
  <2>5. \A i \in 1 .. Len(out') : IsWhole(out'[i], sent')
    BY <2>1 DEF WholeInv
  <2>6. sent = 0 => \A s \in Slots : buf'[s] = Element(0)
    BY <2>1 DEF WholeInv
  <2>7. sent' > 0 => \A s \in Slots : IsWhole(buf'[s], sent')
    BY <2>1, <2>3
  <2>8. sent' = 0 => \A s \in Slots : buf'[s] = Element(0)
    BY <2>1, <2>6
  <2>9. sent' = 0 => /\ Count(head', tail') = 0 /\ pc' \notin {"full", "store"}
                     /\ (pc' = "haveTail" => reg' = tail')
    BY <2>1, <2>2
  <2> QED BY <2>1, <2>4, <2>5, <2>7, <2>8, <2>9 DEF WholeInv
<1>2. CASE PutCopyByte
  <2>1. /\ head' = head /\ tail' = tail /\ sent' = sent /\ out' = out /\ reg' = reg
        /\ pc = "copy" /\ pc' = "copy" /\ copied' = copied + 1 /\ copied + 1 \in 1 .. Width
        /\ Slot(head) \in Slots
    BY <1>2, TypeFacts, TxAssumption, SlotType DEF PutCopyByte
  <2>2. \A s \in Slots : s # Slot(head) => buf'[s] = buf[s]
    BY <1>2, <2>1 DEF PutCopyByte, TypeOK
  <2>3. \A j \in 1 .. copied + 1 : buf'[Slot(head)][j] = sent
    <3> SUFFICES ASSUME NEW j \in 1 .. copied + 1 PROVE buf'[Slot(head)][j] = sent
      OBVIOUS
    <3>1. buf'[Slot(head)] = [buf[Slot(head)] EXCEPT ![copied + 1] = sent]
      BY <1>2, <2>1 DEF PutCopyByte, TypeOK
    <3>2. buf[Slot(head)] \in [1 .. Width -> Nat]
      BY <2>1 DEF TypeOK
    <3>3. j < copied + 1 => buf[Slot(head)][j] = sent
      BY <2>1, TypeFacts DEF WholeInv
    <3>4. j \in 1 .. Width
      BY <2>1, TypeFacts, TxAssumption
    <3>5. CASE j = copied + 1
      BY <3>1, <3>2, <3>4, <3>5
    <3>6. CASE j # copied + 1
      BY <2>1, <3>1, <3>2, <3>3, <3>4, <3>6, TypeFacts
    <3> QED BY <3>5, <3>6
  <2>4. sent = 0 => \A s \in Slots : buf'[s] = Element(0)
    <3> SUFFICES ASSUME sent = 0 PROVE buf'[Slot(head)] = Element(0)
      BY <2>2 DEF WholeInv
    <3>1. buf[Slot(head)] = Element(0)
      BY <2>1 DEF WholeInv
    <3>2. buf'[Slot(head)] = [buf[Slot(head)] EXCEPT ![copied + 1] = 0]
      BY <1>2, <2>1 DEF PutCopyByte, TypeOK
    <3> QED BY <3>1, <3>2 DEF Element
  <2> QED BY <2>1, <2>2, <2>3, <2>4 DEF WholeInv
<1>3. CASE PutStoreHead
  <2>1. /\ tail' = tail /\ sent' = sent + 1 /\ out' = out /\ buf' = buf
        /\ pc = "copy" /\ pc' = "idle" /\ copied = Width
    BY <1>3 DEF PutStoreHead
  <2>2. IsWhole(buf[Slot(head)], sent + 1)
    <3>1. buf[Slot(head)] \in [1 .. Width -> Nat]
      BY TypeFacts, SlotType DEF TypeOK
    <3>2. \A j \in 1 .. Width : buf[Slot(head)][j] = sent
      BY <2>1 DEF WholeInv
    <3>3. buf[Slot(head)] = Element(sent)
      BY <3>1, <3>2 DEF Element
    <3>4. sent \in 0 .. (sent + 1) - 1
      BY TypeFacts
    <3> QED BY <3>3, <3>4 DEF IsWhole
  <2>3. \A e : IsWhole(e, sent) => IsWhole(e, sent + 1)
    BY TypeFacts DEF IsWhole
  <2>4. \A i \in 1 .. Len(out) : IsWhole(out[i], sent + 1)
    BY <2>3 DEF WholeInv
  <2>5. \A s \in Slots : IsWhole(buf[s], sent + 1)
    <3> SUFFICES ASSUME NEW s \in Slots, s # Slot(head) PROVE IsWhole(buf[s], sent + 1)
      BY <2>2
    <3>1. CASE sent > 0
      BY <2>3, <3>1 DEF WholeInv
    <3>2. CASE sent = 0
      BY <3>2 DEF WholeInv, IsWhole
    <3> QED BY <3>1, <3>2, TypeFacts
  <2> QED BY <2>1, <2>4, <2>5, TypeFacts DEF WholeInv
<1> QED BY <1>1, <1>2, <1>3 DEF PutForce

LEMMA WholeStep == TypeOK /\ BoundInv /\ WholeInv /\ [Next]_vars => WholeInv'
<1>1. CASE UNCHANGED vars
  BY <1>1 DEF vars, WholeInv
<1> QED BY <1>1, WholeGet, WholePut DEF Next

\* Every get returns an element that was put, whole, also on a full buffer.
THEOREM WholeElements == Spec => []Whole
<1>1. WholeInv => Whole
  BY DEF WholeInv, Whole, IsWhole
<1> QED BY <1>1, WholeInit, WholeStep, BoundInit, BoundStep, TypeCorrect, PTL DEF Spec

-----------------------------------------------------------------------------
(* Exact first-in first-out delivery until the first overrun: the          *)
(* inductive invariant says where the elements not yet returned are.       *)

Owed == sent - Len(out)

Window == \A k \in 0 .. N - 1 : k < Owed => buf[At(tail, k)] = Element(Len(out) + k)

ExactInv ==
  dropped = 0 =>
    /\ \A i \in 1 .. Len(out) : out[i] = Element(i - 1)
    /\ Count(head, tail) = Owed
    /\ Window
    /\ pc \notin {"full", "store"}

LEMMA ExactInit == Init => ExactInv
<1> SUFFICES ASSUME Init PROVE ExactInv
  OBVIOUS
<1>1. Len(out) = 0 /\ sent = 0
  BY DEF Init
<1>2. head \in Counters /\ tail = head /\ pc = "idle"
  BY CounterModType, RingAssumption DEF Init, Counters
<1>3. Owed = 0
  BY <1>1 DEF Owed
<1> QED BY <1>1, <1>2, <1>3, CountZero DEF ExactInv, Window

\* A get returns the element at the window's start.
LEMMA ExactGet == TypeOK /\ BoundInv /\ ExactInv /\ Get => ExactInv'
<1> SUFFICES ASSUME TypeOK, BoundInv, ExactInv, Get, dropped = 0 PROVE ExactInv'
  BY DEF ExactInv, Get
<1>1. /\ head' = head /\ buf' = buf /\ pc' = pc /\ sent' = sent
      /\ tail' = Inc(tail) /\ out' = Append(out, buf[Slot(tail)])
      /\ Count(head, tail) \in 1 .. N
  BY TypeFacts DEF Get, Empty, BoundInv
<1>2. /\ \A i \in 1 .. Len(out) : out[i] = Element(i - 1)
      /\ Count(head, tail) = Owed /\ Window /\ pc \notin {"full", "store"}
  BY DEF ExactInv
<1>3. Len(out') = Len(out) + 1 /\ Owed' = Owed - 1
  <2>1. Len(out') = Len(out) + 1
    BY <1>1 DEF TypeOK
  <2> QED BY <1>1, <2>1, TypeFacts DEF Owed
<1>4. Count(head', tail') = Owed'
  BY <1>1, <1>2, <1>3, TypeFacts, CountIncTail
<1>5. buf[Slot(tail)] = Element(Len(out))
  <2>1. 0 \in 0 .. N - 1 /\ 0 < Owed /\ Len(out) + 0 = Len(out) /\ At(tail, 0) = Slot(tail)
    BY <1>1, <1>2, TypeFacts, AtEnds
  <2> QED BY <1>2, <2>1 DEF Window
<1>6. Window'
  <2> SUFFICES ASSUME NEW k \in 0 .. N - 1, k < Owed'
               PROVE  buf[At(tail', k)] = Element((Len(out) + 1) + k)
    BY <1>1, <1>3 DEF Window
  <2>1. At(tail', k) = At(tail, k + 1) /\ k + 1 \in 0 .. N - 1 /\ k + 1 < Owed
    BY <1>1, <1>2, <1>3, TypeFacts, AtInc
  <2>2. buf[At(tail, k + 1)] = Element(Len(out) + (k + 1))
    BY <1>2, <2>1 DEF Window
  <2>3. Len(out) + (k + 1) = (Len(out) + 1) + k
    BY TypeFacts
  <2> QED BY <2>1, <2>2, <2>3
<1>7. \A i \in 1 .. Len(out') : out'[i] = Element(i - 1)
  <2> SUFFICES ASSUME NEW i \in 1 .. Len(out') PROVE out'[i] = Element(i - 1)
    OBVIOUS
  <2>1. CASE i = Len(out) + 1
    <3>1. out'[i] = buf[Slot(tail)] /\ i - 1 = Len(out)
      BY <1>1, <2>1, TypeFacts DEF TypeOK
    <3> QED BY <1>5, <3>1
  <2>2. CASE i \in 1 .. Len(out)
    BY <1>1, <1>2, <2>2 DEF TypeOK
  <2> QED BY <1>3, <2>1, <2>2, TypeFacts
<1> QED BY <1>1, <1>2, <1>4, <1>6, <1>7 DEF ExactInv

\* The put adds an element at the window's end, outside what the handler reads
\* until head is stored.
LEMMA ExactPut == TypeOK /\ BoundInv /\ WholeInv /\ ExactInv /\ PutForce => ExactInv'
<1> SUFFICES ASSUME TypeOK, BoundInv, WholeInv, ExactInv, PutForce, dropped' = 0
             PROVE  ExactInv'
  BY DEF ExactInv
<1>0. dropped = 0
  BY DEF TypeOK, PutForce, PutLoadFirst, PutTestFull, PutLoadTail, PutStoreTail,
         PutCopyByte, PutStoreHead
<1>1. /\ \A i \in 1 .. Len(out) : out[i] = Element(i - 1)
      /\ Count(head, tail) = Owed /\ Window /\ pc \notin {"full", "store"}
  BY <1>0 DEF ExactInv
<1>2. CASE PutLoadFirst \/ PutTestFull \/ PutLoadTail \/ PutStoreTail
  <2>1. /\ head' = head /\ tail' = tail /\ buf' = buf /\ sent' = sent /\ out' = out
        /\ pc' # "store"
    BY <1>1, <1>2 DEF PutLoadFirst, PutTestFull, PutLoadTail, PutStoreTail
  <2>2. pc' # "full"
    BY <1>0, <1>2, TypeFacts
    DEF PutLoadFirst, PutTestFull, PutLoadTail, PutStoreTail, TypeOK
  <2> QED BY <1>1, <2>1, <2>2 DEF ExactInv, Window, Owed
<1>3. CASE PutCopyByte
  <2>1. /\ head' = head /\ tail' = tail /\ sent' = sent /\ out' = out
        /\ pc = "copy" /\ pc' = "copy" /\ Slot(head) \in Slots
    BY <1>3, TypeFacts, SlotType DEF PutCopyByte
  <2>2. \A s \in Slots : s # Slot(head) => buf'[s] = buf[s]
    BY <1>3, <2>1 DEF PutCopyByte, TypeOK
  <2>3. Owed \in 0 .. N - 1 /\ Slot(head) = At(tail, Owed)
    BY <1>1, <2>1, TypeFacts, SlotCount DEF BoundInv
  <2>4. ASSUME NEW k \in 0 .. N - 1, k < Owed
        PROVE  buf'[At(tail, k)] = Element(Len(out) + k)
    <3>1. At(tail, k) \in Slots /\ At(tail, k) # Slot(head)
      BY <2>3, <2>4, TypeFacts, AtSlots
    <3> QED BY <1>1, <2>2, <2>4, <3>1 DEF Window
  <2> QED BY <1>1, <2>1, <2>4 DEF ExactInv, Window, Owed
<1>4. CASE PutStoreHead
  <2>1. /\ head' = Inc(head) /\ tail' = tail /\ buf' = buf /\ sent' = sent + 1 /\ out' = out
        /\ pc = "copy" /\ pc' = "idle" /\ copied = Width
    BY <1>4 DEF PutStoreHead
  <2>2. Owed \in 0 .. N - 1 /\ Slot(head) = At(tail, Owed) /\ Owed' = Owed + 1
    <3>1. Owed \in 0 .. N - 1 /\ Slot(head) = At(tail, Owed)
      BY <1>1, <2>1, TypeFacts, SlotCount DEF BoundInv
    <3> QED BY <2>1, <3>1, TypeFacts DEF Owed
  <2>3. Count(head', tail') = Owed'
    BY <1>1, <2>1, <2>2, TypeFacts, CountIncHead, CounterModType
  <2>4. buf[Slot(head)] = Element(sent)
    <3>1. buf[Slot(head)] \in [1 .. Width -> Nat]
      BY TypeFacts, SlotType DEF TypeOK
    <3>2. \A j \in 1 .. Width : buf[Slot(head)][j] = sent
      BY <2>1 DEF WholeInv
    <3> QED BY <3>1, <3>2 DEF Element
  <2>5. ASSUME NEW k \in 0 .. N - 1, k < Owed'
        PROVE  buf[At(tail, k)] = Element(Len(out) + k)
    <3>1. CASE k = Owed
      <4>1. Len(out) + k = sent
        BY <3>1, TypeFacts DEF Owed
      <4> QED BY <2>2, <2>4, <3>1, <4>1
    <3>2. CASE k < Owed
      BY <1>1, <3>2 DEF Window
    <3> QED BY <2>2, <2>5, <3>1, <3>2
  <2>6. Window'
    BY <2>1, <2>5 DEF Window
  <2> QED BY <1>1, <2>1, <2>3, <2>6 DEF ExactInv
<1> QED BY <1>2, <1>3, <1>4 DEF PutForce

\* Until a put finds the buffer full, gets return the elements in the order they
\* were enqueued, each one whole and once, and the buffer holds the others.
THEOREM ExactDelivery == Spec => []ExactUntilOverrun
<1>1. TypeOK /\ BoundInv /\ WholeInv /\ ExactInv /\ [Next]_vars => ExactInv'
  <2>1. CASE UNCHANGED vars
    BY <2>1 DEF vars, ExactInv, Window, Owed
  <2> QED BY <2>1, ExactGet, ExactPut DEF Next
<1>2. ExactInv => ExactUntilOverrun
  BY DEF ExactInv, ExactUntilOverrun, Owed
<1> QED BY <1>1, <1>2, ExactInit, WholeInit, WholeStep, BoundInit, BoundStep, TypeCorrect, PTL DEF Spec

-----------------------------------------------------------------------------
(* The buffer implements the overwriting queue.  The slots from head's on  *)
(* are what a full buffer held, and stay so until main has stored tail:    *)
(* whatever gets have moved it to, and wherever the store puts it back to, *)
(* the elements held are those slots from some place on.                   *)

\* While a put is in progress there is an element left to put.
MoreInv == pc # "idle" => sent < MaxPuts

LEMMA MoreInit == Init => MoreInv
  BY DEF Init, MoreInv

LEMMA MoreStep == MoreInv /\ [Next]_vars => MoreInv'
  BY DEF MoreInv, Next, vars, Get, PutForce, PutLoadFirst, PutTestFull, PutLoadTail,
         PutStoreTail, PutCopyByte, PutStoreHead

\* A counter less than two laps of the counter's range, reduced to it.
LEMMA Reduced ==
  ASSUME NEW n \in Nat \ {0}, NEW x \in Nat, x < 2 * n
  PROVE  x % n = IF x < n THEN x ELSE x - n
<1>1. CASE x < n
  <2>1. x \in 0 .. n - 1 /\ x = n * 0 + x
    BY <1>1
  <2>2. (n * 0 + x) % n = x
    BY <2>1, Remainder
  <2> QED BY <1>1, <2>1, <2>2
<1>2. CASE x >= n
  <2>1. x - n \in 0 .. n - 1 /\ x = n * 1 + (x - n)
    BY <1>2
  <2>2. (n * 1 + (x - n)) % n = x - n
    BY <2>1, Remainder
  <2> QED BY <1>2, <2>1, <2>2
<1> QED BY <1>1, <1>2

\* The slots the queue is held in.
LEMMA SlotHeld ==
  ASSUME NEW t \in Counters, NEW k \in 0 .. N
  PROVE  Slot((t + k) % CounterMod) = At(t, k)
<1>1. t \in Nat /\ t < CounterMod /\ CounterMod \in Nat \ {0} /\ k \in Nat /\ k < CounterMod
  BY CounterModType, RingAssumption DEF Counters
<1>2. t + k \in Nat /\ t + k < 2 * CounterMod
  BY <1>1
<1>3. PICK x \in Nat, n \in Nat \ {0} : x = t + k /\ n = CounterMod
  BY <1>1, <1>2
<1>4. x < 2 * n
  BY <1>2, <1>3
<1>5. x % n = IF x < n THEN x ELSE x - n
  BY <1>3, <1>4, Reduced
<1>6. (t + k) % CounterMod = IF t + k < CounterMod THEN t + k ELSE t + k - CounterMod
  BY <1>1, <1>3, <1>5
<1>7. CASE t + k < CounterMod
  BY <1>1, <1>6, <1>7, SlotAdd DEF Slot
<1>8. CASE t + k >= CounterMod
  BY <1>1, <1>2, <1>6, <1>8, SlotAdd DEF Slot
<1> QED BY <1>1, <1>2, <1>7, <1>8

\* The queue the counters h and t hold in b, element by element.
HeldOf(h, t, b) == [i \in 1 .. Count(h, t) |-> b[Slot((t + i - 1) % CounterMod)][1]]

Buffers == [Slots -> [1 .. Width -> Nat]]

LEMMA HeldAt ==
  ASSUME NEW h \in Counters, NEW t \in Counters, NEW b \in Buffers, Count(h, t) <= N
  PROVE  /\ HeldOf(h, t, b) \in Seq(Nat) /\ Len(HeldOf(h, t, b)) = Count(h, t)
         /\ \A i \in 1 .. Count(h, t) : HeldOf(h, t, b)[i] = b[At(t, i - 1)][1]
<1>1. Count(h, t) \in 0 .. N
  BY CountType, CounterModType, RingAssumption
<1>2. ASSUME NEW i \in 1 .. Count(h, t)
      PROVE  /\ b[Slot((t + i - 1) % CounterMod)][1] = b[At(t, i - 1)][1]
             /\ b[At(t, i - 1)][1] \in Nat
  <2>1. i - 1 \in 0 .. N - 1 /\ i - 1 \in 0 .. N /\ t \in Nat
    BY <1>1, CounterModType, RingAssumption DEF Counters
  <2>2. t + i - 1 = t + (i - 1)
    BY <2>1
  <2>3. Slot((t + i - 1) % CounterMod) = At(t, i - 1)
    BY <2>1, <2>2, SlotHeld
  <2>4. At(t, i - 1) \in Slots
    BY <2>1, AtSlots
  <2>5. b[At(t, i - 1)] \in [1 .. Width -> Nat] /\ 1 \in 1 .. Width
    BY <2>4, TxAssumption DEF Buffers
  <2> QED BY <2>3, <2>5
<1>3. HeldOf(h, t, b) \in [1 .. Count(h, t) -> Nat]
  BY <1>2 DEF HeldOf
<1>4. HeldOf(h, t, b) \in Seq(Nat) /\ Len(HeldOf(h, t, b)) = Count(h, t)
  <2>1. PICK n \in Nat : n = Count(h, t)
    BY <1>1
  <2>2. HeldOf(h, t, b) \in [1 .. n -> Nat]
    BY <1>3, <2>1
  <2> QED BY <2>1, <2>2
<1> QED BY <1>2, <1>4 DEF HeldOf

\* Sequences with the same elements are the same.
LEMMA SameElements ==
  ASSUME NEW p \in Seq(Nat), NEW q \in Seq(Nat), Len(p) = Len(q),
         \A i \in 1 .. Len(p) : p[i] = q[i]
  PROVE  p = q
  OBVIOUS

\* Advancing tail takes the first element.
LEMMA HeldGet ==
  ASSUME NEW h \in Counters, NEW t \in Counters, NEW b \in Buffers, Count(h, t) \in 1 .. N
  PROVE  /\ HeldOf(h, Inc(t), b) = Tail(HeldOf(h, t, b))
         /\ HeldOf(h, t, b) # <<>> /\ Head(HeldOf(h, t, b)) = b[Slot(t)][1]
<1> DEFINE p == HeldOf(h, t, b)
           q == HeldOf(h, Inc(t), b)
<1>1. Inc(t) \in Counters /\ Count(h, Inc(t)) = Count(h, t) - 1 /\ N \in Nat
  BY IncType, CountIncTail, RingAssumption
<1>2. /\ p \in Seq(Nat) /\ Len(p) = Count(h, t)
      /\ \A i \in 1 .. Count(h, t) : p[i] = b[At(t, i - 1)][1]
  BY <1>1, HeldAt
<1>3. /\ q \in Seq(Nat) /\ Len(q) = Count(h, t) - 1
      /\ \A i \in 1 .. Count(h, t) - 1 : q[i] = b[At(Inc(t), i - 1)][1]
  BY <1>1, HeldAt
<1>4. p[1] = b[Slot(t)][1]
  <2>1. 1 \in 1 .. Count(h, t) /\ At(t, 1 - 1) = Slot(t)
    BY <1>1, AtEnds
  <2> QED BY <1>2, <2>1
<1> HIDE DEF p, q
<1>5. p # <<>> /\ Head(p) = p[1] /\ Tail(p) \in Seq(Nat) /\ Len(Tail(p)) = Count(h, t) - 1
  BY <1>1, <1>2
<1>6. ASSUME NEW i \in 1 .. Count(h, t) - 1 PROVE q[i] = Tail(p)[i]
  <2>1. i - 1 \in 0 .. N - 1 /\ i + 1 \in 1 .. Count(h, t) /\ (i - 1) + 1 = (i + 1) - 1
    BY <1>1
  <2>2. At(Inc(t), i - 1) = At(t, (i + 1) - 1)
    BY <2>1, AtInc
  <2>3. Tail(p)[i] = p[i + 1]
    BY <1>1, <1>2, <2>1
  <2> QED BY <1>2, <1>3, <2>1, <2>2, <2>3
<1>7. q = Tail(p)
  BY <1>3, <1>5, <1>6, SameElements
<1> QED BY <1>4, <1>5, <1>7 DEF p, q

\* Advancing head appends the element in its slot.
LEMMA HeldPut ==
  ASSUME NEW h \in Counters, NEW t \in Counters, NEW b \in Buffers, Count(h, t) < N
  PROVE  HeldOf(Inc(h), t, b) = Append(HeldOf(h, t, b), b[Slot(h)][1])
<1> DEFINE p == HeldOf(h, t, b)
           q == HeldOf(Inc(h), t, b)
           e == b[Slot(h)][1]
<1>1. /\ Count(h, t) \in 0 .. N - 1 /\ Count(h, t) <= N
      /\ Count(h, t) < CounterMod - 1 /\ N \in Nat /\ Inc(h) \in Counters
  BY IncType, CountType, CounterModType, RingAssumption
<1>2. Count(Inc(h), t) = Count(h, t) + 1 /\ Slot(h) = At(t, Count(h, t))
  BY <1>1, CountIncHead, SlotCount
<1>3. e \in Nat
  <2>1. Slot(h) \in Slots /\ 1 \in 1 .. Width
    BY SlotType, TxAssumption
  <2> QED BY <2>1 DEF Buffers
<1>4. /\ p \in Seq(Nat) /\ Len(p) = Count(h, t)
      /\ \A i \in 1 .. Count(h, t) : p[i] = b[At(t, i - 1)][1]
  BY <1>1, HeldAt
<1>5. /\ q \in Seq(Nat) /\ Len(q) = Count(h, t) + 1
      /\ \A i \in 1 .. Count(h, t) + 1 : q[i] = b[At(t, i - 1)][1]
  <2>1. Count(Inc(h), t) <= N
    BY <1>1, <1>2
  <2> QED BY <1>1, <1>2, <2>1, HeldAt
<1> HIDE DEF p, q
<1>6. Append(p, e) \in Seq(Nat) /\ Len(Append(p, e)) = Count(h, t) + 1
  BY <1>3, <1>4
<1>7. ASSUME NEW i \in 1 .. Count(h, t) + 1 PROVE q[i] = Append(p, e)[i]
  <2>1. CASE i = Count(h, t) + 1
    <3>1. Append(p, e)[i] = e
      BY <1>3, <1>4, <2>1
    <3>2. i - 1 = Count(h, t)
      BY <1>1, <2>1
    <3> QED BY <1>2, <1>5, <3>1, <3>2
  <2>2. CASE i \in 1 .. Count(h, t)
    <3>1. Append(p, e)[i] = p[i]
      BY <1>3, <1>4, <2>2
    <3> QED BY <1>4, <1>5, <2>2, <3>1
  <2>3. i = Count(h, t) + 1 \/ i \in 1 .. Count(h, t)
    BY <1>1
  <2> QED BY <2>1, <2>2, <2>3
<1>8. q = Append(p, e)
  BY <1>5, <1>6, <1>7, SameElements
<1> QED BY <1>8 DEF p, q

\* What is written to head's slot is not held.
LEMMA HeldCopy ==
  ASSUME NEW h \in Counters, NEW t \in Counters, NEW b \in Buffers, NEW c \in Buffers,
         Count(h, t) < N, \A s \in Slots : s # Slot(h) => c[s] = b[s]
  PROVE  HeldOf(h, t, c) = HeldOf(h, t, b)
<1>1. Count(h, t) \in 0 .. N - 1 /\ Count(h, t) <= N /\ N \in Nat
  BY CountType, CounterModType, RingAssumption
<1>2. Slot(h) = At(t, Count(h, t))
  BY <1>1, SlotCount
<1>3. ASSUME NEW i \in 1 .. Count(h, t) PROVE c[At(t, i - 1)] = b[At(t, i - 1)]
  <2>1. i - 1 \in 0 .. N - 1 /\ i - 1 # Count(h, t)
    BY <1>1
  <2>2. At(t, i - 1) \in Slots /\ At(t, i - 1) # Slot(h)
    BY <1>1, <1>2, <2>1, AtSlots
  <2> QED BY <2>2
<1>4. /\ HeldOf(h, t, b) \in Seq(Nat) /\ Len(HeldOf(h, t, b)) = Count(h, t)
      /\ \A i \in 1 .. Count(h, t) : HeldOf(h, t, b)[i] = b[At(t, i - 1)][1]
  BY <1>1, HeldAt
<1>5. /\ HeldOf(h, t, c) \in Seq(Nat) /\ Len(HeldOf(h, t, c)) = Count(h, t)
      /\ \A i \in 1 .. Count(h, t) : HeldOf(h, t, c)[i] = c[At(t, i - 1)][1]
  BY <1>1, HeldAt
<1>6. \A i \in 1 .. Count(h, t) : HeldOf(h, t, c)[i] = HeldOf(h, t, b)[i]
  BY <1>3, <1>4, <1>5
<1> QED BY <1>4, <1>5, <1>6, SameElements

\* The slots from head's on, which the full buffer held.
SeenOf(h, b) == [i \in 1 .. N |-> b[Slot((h + i - 1) % CounterMod)][1]]

LEMMA SeenAt ==
  ASSUME NEW h \in Counters, NEW b \in Buffers
  PROVE  /\ SeenOf(h, b) \in Seq(Nat) /\ Len(SeenOf(h, b)) = N
         /\ \A i \in 1 .. N : SeenOf(h, b)[i] = b[At(h, i - 1)][1]
<1>1. N \in Nat \ {0} /\ h \in Nat
  BY CounterModType, RingAssumption DEF Counters
<1>2. ASSUME NEW i \in 1 .. N
      PROVE  /\ b[Slot((h + i - 1) % CounterMod)][1] = b[At(h, i - 1)][1]
             /\ b[At(h, i - 1)][1] \in Nat
  <2>1. i - 1 \in 0 .. N - 1 /\ i - 1 \in 0 .. N /\ h + i - 1 = h + (i - 1)
    BY <1>1
  <2>2. Slot((h + i - 1) % CounterMod) = At(h, i - 1)
    BY <2>1, SlotHeld
  <2>3. At(h, i - 1) \in Slots
    BY <2>1, AtSlots
  <2>4. b[At(h, i - 1)] \in [1 .. Width -> Nat] /\ 1 \in 1 .. Width
    BY <2>3, TxAssumption DEF Buffers
  <2> QED BY <2>2, <2>4
<1>3. SeenOf(h, b) \in [1 .. N -> Nat]
  BY <1>2 DEF SeenOf
<1>4. SeenOf(h, b) \in Seq(Nat) /\ Len(SeenOf(h, b)) = N
  BY <1>1, <1>3
<1> QED BY <1>2, <1>4 DEF SeenOf

\* Counting from tail or from head comes to the same slots.
LEMMA AtBack ==
  ASSUME NEW h \in Counters, NEW t \in Counters, Count(h, t) <= N,
         NEW k \in 0 .. Count(h, t) - 1
  PROVE  At(t, k) = At(h, N - Count(h, t) + k)
<1>1. PICK c \in 0 .. N : c = Count(h, t)
  BY CountType, CounterModType, RingAssumption
<1>2. Slot(h) = At(t, c) /\ Slot(h) \in Slots /\ Slot(t) \in Slots
  BY <1>1, SlotCount, SlotType
<1>3. PICK x \in 0 .. N - 1, y \in 0 .. N - 1 : x = Slot(h) /\ y = Slot(t)
  BY <1>2 DEF Slots
<1>4. x = IF y + c < N THEN y + c ELSE y + c - N
  BY <1>2, <1>3 DEF At
<1>5. N \in Nat /\ k \in 0 .. c - 1
  BY <1>1, RingAssumption
<1>6. (IF y + k < N THEN y + k ELSE y + k - N) =
        IF x + (N - c + k) < N THEN x + (N - c + k) ELSE x + (N - c + k) - N
  BY <1>1, <1>3, <1>4, <1>5
<1> QED BY <1>1, <1>3, <1>6 DEF At

\* What is held is the end of what the full buffer held.
LEMMA HeldIsEnd ==
  ASSUME NEW h \in Counters, NEW t \in Counters, NEW b \in Buffers, Count(h, t) <= N
  PROVE  HeldOf(h, t, b) = SubSeq(SeenOf(h, b), N - Count(h, t) + 1, N)
<1> DEFINE p == HeldOf(h, t, b)
           q == SeenOf(h, b)
           s == SubSeq(q, N - Count(h, t) + 1, N)
<1>1. PICK c \in 0 .. N : c = Count(h, t)
  BY CountType, CounterModType, RingAssumption
<1>2. N \in Nat /\ c \in Nat
  BY <1>1, RingAssumption
<1>3. /\ p \in Seq(Nat) /\ Len(p) = c
      /\ \A i \in 1 .. c : p[i] = b[At(t, i - 1)][1]
  BY <1>1, HeldAt
<1>4. /\ q \in Seq(Nat) /\ Len(q) = N
      /\ \A i \in 1 .. N : q[i] = b[At(h, i - 1)][1]
  BY SeenAt
<1> HIDE DEF p, q
<1>5. /\ s \in Seq(Nat) /\ Len(s) = c
      /\ \A i \in 1 .. c : s[i] = q[N - c + i]
  <2>1. N - c + 1 \in 1 .. N + 1 /\ N - (N - c + 1) + 1 = c
        /\ (\A i \in 1 .. c : N - c + 1 + i - 1 = N - c + i)
    BY <1>2
  <2>2. s = SubSeq(q, N - c + 1, N)
    BY <1>1
  <2>3. /\ SubSeq(q, N - c + 1, N) \in Seq(Nat)
        /\ Len(SubSeq(q, N - c + 1, N)) = N - (N - c + 1) + 1
        /\ \A i \in 1 .. N - (N - c + 1) + 1 : SubSeq(q, N - c + 1, N)[i] = q[N - c + 1 + i - 1]
    <3>1. \A i \in N - c + 1 .. N : q[i] \in Nat
      <4>1. N - c + 1 .. N \subseteq 1 .. N
        BY <1>2, <2>1
      <4> QED BY <1>4, <4>1
    <3>2. N - c + 1 \in Int /\ N \in Int
      BY <1>2
    <3>3. N - c + 1 <= N \/ (c = 0 /\ N - (N - c + 1) + 1 = 0)
      BY <1>2
    <3>4. /\ SubSeq(q, N - c + 1, N) \in Seq(Nat)
          /\ Len(SubSeq(q, N - c + 1, N)) = IF N - c + 1 <= N THEN N - (N - c + 1) + 1 ELSE 0
          /\ \A i \in 1 .. N - (N - c + 1) + 1 : SubSeq(q, N - c + 1, N)[i] = q[N - c + 1 + i - 1]
      BY <3>1, <3>2, SubSeqProperties
    <3>5. IF N - c + 1 <= N THEN TRUE ELSE N - (N - c + 1) + 1 = 0
      BY <3>3
    <3> QED BY <3>4, <3>5
  <2> HIDE DEF s
  <2> QED BY <2>1, <2>2, <2>3
<1>6. ASSUME NEW i \in 1 .. c PROVE p[i] = s[i]
  <2>1. i - 1 \in 0 .. c - 1 /\ N - c + i \in 1 .. N /\ N - c + (i - 1) = (N - c + i) - 1
    BY <1>2
  <2>2. At(t, i - 1) = At(h, (N - c + i) - 1)
    BY <1>1, <2>1, AtBack
  <2> QED BY <1>3, <1>4, <1>5, <2>1, <2>2
<1> HIDE DEF s
<1>7. p = s
  BY <1>3, <1>5, <1>6, SameElements
<1> QED BY <1>7 DEF p, q, s

-----------------------------------------------------------------------------
(* Each step is a step of the queue, or none of its business.              *)

LEMMA QueueInit == Init => Abstract!Init
<1> SUFFICES ASSUME Init PROVE Abstract!Init
  OBVIOUS
<1>1. head \in Counters /\ tail = head /\ pc = "idle" /\ out = <<>>
  BY CounterModType, RingAssumption DEF Init, Counters
<1>2. Count(head, tail) = 0
  BY <1>1, CountZero
<1>3. Held = <<>> /\ Taken = <<>>
  BY <1>1, <1>2 DEF Held, Taken
<1> QED BY <1>1, <1>3 DEF Abstract!Init, SawFull, Seen

\* The queue's element and capacity, as the buffer's types give them.
LEMMA QueueFacts ==
  ASSUME TypeOK, BoundInv
  PROVE  /\ Held = HeldOf(head, tail, buf) /\ Held' = HeldOf(head', tail', buf')
         /\ buf \in Buffers /\ Len(Held) = Count(head, tail)
         /\ Seen = IF SawFull THEN SeenOf(head, buf) ELSE <<>>
         /\ SeenOf(head, buf) # <<>>
         /\ Count(head, tail) = N => SeenOf(head, buf) = Held
<1>1. Held = HeldOf(head, tail, buf) /\ Held' = HeldOf(head', tail', buf')
  BY DEF Held, HeldOf
<1>2. buf \in Buffers
  BY DEF TypeOK, Buffers
<1>3. Seen = IF SawFull THEN SeenOf(head, buf) ELSE <<>>
  BY DEF Seen, SeenOf
<1>4. SeenOf(head, buf) \in Seq(Nat) /\ Len(SeenOf(head, buf)) = N /\ N \in Nat \ {0}
  BY <1>2, TypeFacts, SeenAt
<1>5. ASSUME Count(head, tail) = N PROVE SeenOf(head, buf) = Held
  <2>1. Held = SubSeq(SeenOf(head, buf), N - N + 1, N)
    <3>1. head \in Counters /\ tail \in Counters /\ Count(head, tail) <= N
      BY <1>4, <1>5, TypeFacts
    <3>2. HeldOf(head, tail, buf) = SubSeq(SeenOf(head, buf), N - Count(head, tail) + 1, N)
      BY <1>2, <3>1, HeldIsEnd
    <3> QED BY <1>1, <1>5, <3>2
  <2> HIDE DEF SeenOf
  <2>2. PICK q \in Seq(Nat) : q = SeenOf(head, buf) /\ Len(q) = N
    BY <1>4
  <2>3. N - N + 1 = 1 /\ SubSeq(q, 1, N) = q
    BY <1>4, <2>2
  <2> QED BY <2>1, <2>2, <2>3
<1>6. SeenOf(head, buf) # <<>>
  BY <1>4
<1> QED BY <1>1, <1>2, <1>3, <1>5, <1>6, TypeFacts, HeldAt DEF BoundInv

LEMMA QueueGet == TypeOK /\ BoundInv /\ Get => Abstract!Get
<1> SUFFICES ASSUME TypeOK, BoundInv, Get PROVE Abstract!Get
  OBVIOUS
<1>1. /\ head' = head /\ tail' = Inc(tail) /\ buf' = buf /\ pc' = pc /\ reg' = reg
      /\ out' = Append(out, buf[Slot(tail)]) /\ Count(head, tail) \in 1 .. N
  BY TypeFacts DEF Get, Empty, BoundInv
<1>2. Held # <<>> /\ Head(Held) = buf[Slot(tail)][1] /\ Held' = Tail(Held)
  <2>1. /\ Held = HeldOf(head, tail, buf) /\ Held' = HeldOf(head, Inc(tail), buf)
        /\ buf \in Buffers
    BY <1>1, QueueFacts
  <2> QED BY <1>1, <2>1, TypeFacts, HeldGet
<1>3. Taken' = Append(Taken, buf[Slot(tail)][1])
  <2>1. out \in Seq([1 .. Width -> Nat]) /\ buf[Slot(tail)] \in [1 .. Width -> Nat]
    BY TypeFacts, SlotType DEF TypeOK
  <2>2. 1 \in 1 .. Width
    BY TxAssumption
  <2>3. /\ Len(out') = Len(out) + 1 /\ out'[Len(out) + 1] = buf[Slot(tail)]
        /\ \A i \in 1 .. Len(out) : out'[i] = out[i] /\ out[i] \in [1 .. Width -> Nat]
    BY <1>1, <2>1
  <2>4. Taken \in Seq(Nat) /\ Len(Taken) = Len(out) /\ \A i \in 1 .. Len(out) : Taken[i] = out[i][1]
    <3>1. PICK n \in Nat : n = Len(out)
      BY TypeFacts
    <3>2. Taken \in [1 .. n -> Nat]
      BY <2>2, <2>3, <3>1 DEF Taken
    <3> QED BY <3>1, <3>2 DEF Taken
  <2>5. /\ Taken' \in Seq(Nat) /\ Len(Taken') = Len(out) + 1
        /\ \A i \in 1 .. Len(out) + 1 : Taken'[i] = out'[i][1]
    <3>1. PICK n \in Nat : n = Len(out) + 1
      BY TypeFacts
    <3>2. ASSUME NEW i \in 1 .. n PROVE out'[i][1] \in Nat
      <4>1. i = Len(out) + 1 \/ i \in 1 .. Len(out)
        BY <3>1, TypeFacts
      <4>2. out'[i] \in [1 .. Width -> Nat]
        BY <2>1, <2>3, <4>1
      <4> QED BY <2>2, <4>2
    <3>3. Taken' \in [1 .. n -> Nat]
      BY <2>3, <3>1, <3>2 DEF Taken
    <3> QED BY <2>3, <3>1, <3>3 DEF Taken
  <2>6. buf[Slot(tail)][1] \in Nat
    BY <2>1, <2>2
  <2>7. /\ Append(Taken, buf[Slot(tail)][1]) \in Seq(Nat)
        /\ Len(Append(Taken, buf[Slot(tail)][1])) = Len(out) + 1
    BY <2>4, <2>6
  <2>8. ASSUME NEW i \in 1 .. Len(out) + 1
        PROVE  Taken'[i] = Append(Taken, buf[Slot(tail)][1])[i]
    <3>1. CASE i = Len(out) + 1
      BY <2>3, <2>4, <2>5, <2>6, <3>1
    <3>2. CASE i \in 1 .. Len(out)
      <4>1. Append(Taken, buf[Slot(tail)][1])[i] = Taken[i]
        BY <2>4, <2>6, <3>2
      <4>2. Taken'[i] = out'[i][1] /\ out'[i] = out[i] /\ Taken[i] = out[i][1]
        BY <2>3, <2>4, <2>5, <3>2
      <4> QED BY <4>1, <4>2
    <3>3. i = Len(out) + 1 \/ i \in 1 .. Len(out)
      BY TypeFacts
    <3> QED BY <3>1, <3>2, <3>3
  <2> QED BY <2>5, <2>7, <2>8, SameElements
<1>4. SawFull' = SawFull
  BY <1>1 DEF SawFull
<1>5. Seen' = Seen
  BY <1>1, <1>4 DEF Seen
<1> QED BY <1>2, <1>3, <1>5 DEF Abstract!Get

LEMMA QueuePut ==
  TypeOK /\ BoundInv /\ WholeInv /\ MoreInv /\ PutForce => [Abstract!Next]_(Abstract!vars)
<1> SUFFICES ASSUME TypeOK, BoundInv, WholeInv, MoreInv, PutForce
             PROVE  Abstract!Next \/ UNCHANGED <<Held, Seen, Taken>>
  BY DEF Abstract!vars
<1>0. out' = out /\ Taken' = Taken
  BY DEF PutForce, PutLoadFirst, PutTestFull, PutLoadTail, PutStoreTail, PutCopyByte,
         PutStoreHead, Taken
<1>1. ASSUME PutLoadFirst \/ PutTestFull \/ PutLoadTail
      PROVE  Held' = Held /\ head' = head /\ buf' = buf
  BY <1>1, QueueFacts DEF PutLoadFirst, PutTestFull, PutLoadTail
<1>2. ASSUME Held' = Held, head' = head, buf' = buf,
             SawFull' = SawFull \/ (Count(head, tail) = N /\ SawFull = FALSE /\ SawFull' = TRUE)
      PROVE  Abstract!Next \/ UNCHANGED <<Held, Seen, Taken>>
  <2>1. CASE SawFull' = SawFull
    <3>1. Seen' = Seen
      BY <1>2, <2>1 DEF Seen
    <3> QED BY <1>0, <1>2, <3>1
  <2>2. CASE Count(head, tail) = N /\ SawFull = FALSE /\ SawFull' = TRUE
    <3>1. Seen = <<>> /\ Len(Held) = N
      BY <2>2, QueueFacts
    <3>2. Seen' = Held
      <4>1. Seen' = SeenOf(head, buf)
        BY <1>2, <2>2 DEF Seen, SeenOf
      <4> QED BY <2>2, <4>1, QueueFacts
    <3> QED BY <1>0, <1>2, <3>1, <3>2 DEF Abstract!Next, Abstract!FindFull
  <2> QED BY <1>2, <2>1, <2>2
<1>3. CASE PutLoadFirst
  <2>1. SawFull' = SawFull \/ (Count(head, tail) = N /\ SawFull = FALSE /\ SawFull' = TRUE)
    BY <1>3 DEF PutLoadFirst, SawFull, Full
  <2> QED BY <1>1, <1>2, <1>3, <2>1
<1>4. CASE PutTestFull
  <2>1. CASE pc = "haveHead"
    <3>1. reg = head /\ pc' \in {"full", "copy"} /\ (pc' = "full" <=> Full(reg, tail))
      BY <1>4, <2>1 DEF PutTestFull, BoundInv
    <3>2. SawFull' = SawFull \/ (Count(head, tail) = N /\ SawFull = FALSE /\ SawFull' = TRUE)
      BY <2>1, <3>1 DEF SawFull, Full
    <3> QED BY <1>1, <1>2, <1>4, <3>2
  <2>2. CASE pc = "haveTail"
    <3>1. pc' \in {"full", "copy"} /\ (pc' = "full" <=> Full(head, reg))
      BY <1>4, <2>2 DEF PutTestFull
    <3>2. SawFull' = SawFull
      BY <2>2, <3>1 DEF SawFull
    <3> QED BY <1>1, <1>2, <1>4, <3>2
  <2> QED BY <1>4, <2>1, <2>2 DEF PutTestFull
<1>5. CASE PutLoadTail
  <2>1. SawFull' = SawFull
    BY <1>5 DEF PutLoadTail, SawFull
  <2> QED BY <1>1, <1>2, <1>5, <2>1
<1>6. CASE PutStoreTail
  <2>1. /\ head' = head /\ buf' = buf /\ tail' = Inc(reg) /\ SawFull = TRUE /\ SawFull' = FALSE
        /\ pc = "store"
    BY <1>6 DEF PutStoreTail, SawFull
  <2>2. /\ Count(head, reg) \in 1 .. N /\ Count(head, tail) <= Count(head, reg)
        /\ Count(head, tail) \in Nat /\ N \in Nat /\ reg \in Counters /\ head \in Counters
    BY <2>1, TypeFacts DEF BoundInv
  <2>3. PICK c \in 1 .. N : c = Count(head, reg)
    BY <2>2
  <2>4. Inc(reg) \in Counters /\ Count(head, Inc(reg)) = c - 1
    BY <2>2, <2>3, IncType, CountIncTail
  <2>5. N - (c - 1) + 1 \in 2 .. N - Len(Held) + 2 /\ c - 1 <= N
    BY <2>2, <2>3, QueueFacts
  <2>6. Held' = SubSeq(SeenOf(head, buf), N - (c - 1) + 1, N)
    <3>1. Held' = HeldOf(head, Inc(reg), buf)
      BY <2>1, QueueFacts
    <3> QED BY <2>2, <2>4, <2>5, <3>1, QueueFacts, HeldIsEnd
  <2>7. Seen = SeenOf(head, buf) /\ Seen # <<>> /\ Seen' = <<>>
    BY <2>1, QueueFacts DEF Seen
  <2>8. \E k \in 2 .. N - Len(Held) + 2 : Held' = SubSeq(Seen, k, N)
    BY <2>5, <2>6, <2>7
  <2> QED BY <1>0, <2>7, <2>8 DEF Abstract!Next, Abstract!ClearOldest
<1>7. CASE PutCopyByte
  <2>1. /\ head' = head /\ tail' = tail /\ pc = "copy" /\ pc' = "copy"
        /\ Slot(head) \in Slots
    BY <1>7, TypeFacts, SlotType DEF PutCopyByte
  <2>2. (\A s \in Slots : s # Slot(head) => buf'[s] = buf[s]) /\ buf' \in Buffers
    <3>1. \A s \in Slots : s # Slot(head) => buf'[s] = buf[s]
      BY <1>7, <2>1 DEF PutCopyByte, TypeOK
    <3>2. TypeOK'
      BY TypeStep DEF Next
    <3> QED BY <3>1, <3>2 DEF TypeOK, Buffers
  <2>3. Held' = Held
    BY <2>1, <2>2, TypeFacts, QueueFacts, HeldCopy DEF BoundInv
  <2>4. SawFull = FALSE /\ SawFull' = FALSE
    BY <2>1 DEF SawFull
  <2> QED BY <1>0, <2>3, <2>4 DEF Seen
<1>8. CASE PutStoreHead
  <2>1. /\ head' = Inc(head) /\ tail' = tail /\ buf' = buf /\ pc = "copy" /\ pc' = "idle"
        /\ copied = Width
    BY <1>8 DEF PutStoreHead
  <2>2. buf[Slot(head)][1] = sent
    BY <2>1, TxAssumption DEF WholeInv
  <2>3. Count(head, tail) < N
    BY <2>1 DEF BoundInv
  <2>4. Held' = Append(Held, sent) /\ Len(Held) < N
    BY <2>1, <2>2, <2>3, TypeFacts, QueueFacts, HeldPut
  <2>5. sent \in 0 .. MaxPuts
    BY <2>1, TypeFacts, TxAssumption DEF MoreInv
  <2>6. Seen = <<>> /\ Seen' = <<>>
    BY <2>1 DEF SawFull, Seen
  <2> QED BY <1>0, <2>4, <2>5, <2>6 DEF Abstract!Next, Abstract!Put
<1> QED BY <1>3, <1>4, <1>5, <1>6, <1>7, <1>8 DEF PutForce

\* The interruptible put_force and the interrupt-driven get are an overwriting queue,
\* whatever the buffer's size, the width of its counters and elements and the gets that
\* fall into a put: the elements held are always a stretch of those put, in order and
\* whole, a put costs the queue its oldest element at most, and only a put on a full
\* buffer brings back what gets have taken during it.
THEOREM ImplementsOverwritingQueue == Spec => ImplementsQueue
<1>1. TypeOK /\ BoundInv /\ WholeInv /\ MoreInv /\ [Next]_vars
        => [Abstract!Next]_(Abstract!vars)
  <2>1. CASE UNCHANGED vars
    BY <2>1 DEF vars, Abstract!vars, Held, SawFull, Seen, Taken
  <2>2. Get /\ TypeOK /\ BoundInv => Abstract!Next
    BY QueueGet DEF Abstract!Next
  <2> QED BY <2>1, <2>2, QueuePut DEF Next
<1> QED BY <1>1, QueueInit, MoreInit, MoreStep, WholeInit, WholeStep, BoundInit, BoundStep,
           TypeCorrect, PTL DEF Spec, ImplementsQueue, Abstract!Spec
=============================================================================
