---------------------------- MODULE RingRxProofs ----------------------------
(***************************************************************************)
(* Proofs about the receive use of a ring buffer, for every capacity,      *)
(* counter width, element width and number of elements received.           *)
(***************************************************************************)
EXTENDS RingRx, RingBufferLemmas

-----------------------------------------------------------------------------
(* Type correctness.                                                       *)

LEMMA TypeInit == Init => TypeOK
<1>1. 0 \in Counters
  BY CounterModType, RingAssumption DEF Counters
<1> QED BY <1>1, RxAssumption DEF Init, TypeOK, PC

LEMMA TypeStep == TypeOK /\ [Next]_vars => TypeOK'
<1> SUFFICES ASSUME TypeOK, [Next]_vars PROVE TypeOK'
  OBVIOUS
<1> USE RingAssumption, RxAssumption DEF TypeOK, PC
<1>1. CASE PutForce
  BY <1>1, IncType, SlotType DEF PutForce
<1>2. CASE GetLoadFirst
  BY <1>2 DEF GetLoadFirst
<1>3. CASE GetTestEmpty
  BY <1>3 DEF GetTestEmpty
<1>4. CASE GetOffset
  BY <1>4, SlotType DEF GetOffset
<1>5. CASE GetCopyByte
  <2>1. buf[reg] \in Nat
    BY <1>5 DEF GetCopyByte
  <2> QED BY <1>5, <2>1 DEF GetCopyByte
<1>6. CASE GetLoadTail
  BY <1>6 DEF GetLoadTail
<1>7. CASE GetStoreTail
  BY <1>7, IncType, SlotType DEF GetStoreTail
<1>8. CASE UNCHANGED vars
  BY <1>8 DEF vars
<1> QED BY <1>1, <1>2, <1>3, <1>4, <1>5, <1>6, <1>7, <1>8 DEF Next, Get

\* The variables keep their types.
THEOREM TypeCorrect == Spec => []TypeOK
  BY TypeInit, TypeStep, PTL DEF Spec

-----------------------------------------------------------------------------
(* Exact first-in first-out delivery until the first overrun.  The         *)
(* inductive invariant says where the elements not yet returned are, and   *)
(* that what main has read so far of head and tail still bounds them.      *)

Held == sent - Len(out)

Window == \A k \in 0 .. N - 1 : k < Held => buf[At(tail, k)] = Len(out) + k

GetSoFar ==
  /\ pc = "haveHead" => Count(reg, tail) <= Held
  /\ pc = "haveTail" => reg = tail
  /\ pc \in {"offset", "copy", "store"} => Held > 0
  /\ pc = "copy" => /\ reg = Slot(tail)
                    /\ \A j \in 1 .. Len(data) : data[j] = Len(out)
  /\ pc = "store" => /\ reg = tail
                     /\ data = Element(Len(out))

ExactInv ==
  dropped = 0 =>
    /\ \A i \in 1 .. Len(out) : out[i] = Element(i - 1)
    /\ Count(head, tail) = Held
    /\ Held <= N
    /\ Slot(head) = At(tail, Held)
    /\ Window
    /\ GetSoFar

\* What the proofs below use of the types.
LEMMA TypeFacts ==
  ASSUME TypeOK
  PROVE  /\ head \in Counters /\ tail \in Counters
         /\ sent \in Nat /\ Len(out) \in Nat /\ Held \in Int
         /\ Len(data) \in Nat
         /\ N \in Nat \ {0} /\ CounterMod \in Nat
         /\ Count(head, tail) \in 0 .. CounterMod - 1
<1>1. head \in Counters /\ tail \in Counters /\ sent \in Nat
  BY RxAssumption DEF TypeOK
<1>2. Len(out) \in Nat /\ Len(data) \in Nat
  BY DEF TypeOK
<1>3. Held \in Int
  BY <1>1, <1>2 DEF Held
<1> QED BY <1>1, <1>2, <1>3, CountType, CounterModType, RingAssumption

LEMMA ExactInit == Init => ExactInv
<1> SUFFICES ASSUME Init PROVE ExactInv
  OBVIOUS
<1>1. Len(out) = 0 /\ sent = 0
  BY DEF Init
<1>2. 0 \in Counters /\ Held = 0
  BY <1>1, CounterModType, RingAssumption DEF Counters, Held
<1>3. Count(head, tail) = 0 /\ Slot(head) = At(tail, 0)
  BY <1>2, AtEnds, CountZero DEF Init
<1>4. Window
  BY <1>2 DEF Window
<1>5. GetSoFar
  BY DEF Init, GetSoFar
<1>6. \A i \in 1 .. Len(out) : out[i] = Element(i - 1)
  BY <1>1
<1> QED BY <1>2, <1>3, <1>4, <1>5, <1>6, RingAssumption DEF ExactInv

\* The handler's put: full would be an overrun, so tail stays and the window grows.
LEMMA ExactPut == TypeOK /\ ExactInv /\ PutForce => ExactInv'
<1> SUFFICES ASSUME TypeOK, ExactInv, PutForce, dropped' = 0
             PROVE  ExactInv'
  BY DEF ExactInv
<1>1. /\ dropped = 0 /\ ~Full(head, tail)
      /\ tail' = tail /\ head' = Inc(head) /\ sent' = sent + 1
      /\ buf' = [buf EXCEPT ![Slot(head)] = sent]
      /\ pc' = pc /\ reg' = reg /\ data' = data /\ out' = out
  BY DEF PutForce, TypeOK
<1>2. /\ \A i \in 1 .. Len(out) : out[i] = Element(i - 1)
      /\ Count(head, tail) = Held /\ Held <= N
      /\ Slot(head) = At(tail, Held)
      /\ Window /\ GetSoFar
  BY <1>1 DEF ExactInv
<1>3. Held \in 0 .. N - 1 /\ Held' = Held + 1
  <2>1. Held' = Held + 1
    BY <1>1, TypeFacts DEF Held
  <2>2. Held # N /\ Held \in Nat
    BY <1>1, <1>2, TypeFacts DEF Full
  <2> QED BY <1>2, <2>1, <2>2, RingAssumption
<1>4. Count(head', tail') = Held'
  BY <1>1, <1>2, <1>3, TypeFacts, CountIncHead, CounterModType, RingAssumption
<1>5. Slot(head') = At(tail', Held')
  BY <1>1, <1>2, <1>3, TypeFacts, AtSucc
<1>6. Window'
  <2> SUFFICES ASSUME NEW k \in 0 .. N - 1, k < Held'
               PROVE  buf'[At(tail, k)] = Len(out) + k
    BY <1>1 DEF Window
  <2>1. At(tail, k) \in Slots /\ (At(tail, k) = At(tail, Held) => k = Held)
    BY <1>3, TypeFacts, AtSlots
  <2>2. CASE k = Held
    <3>1. buf'[At(tail, k)] = sent
      BY <1>1, <1>2, <2>1, <2>2 DEF TypeOK
    <3> QED BY <2>2, <3>1, TypeFacts DEF Held
  <2>3. CASE k < Held
    <3>1. buf[At(tail, k)] = Len(out) + k
      BY <1>2, <2>3 DEF Window
    <3>2. At(tail, k) # Slot(head)
      BY <1>2, <2>1, <2>3, <1>3
    <3> QED BY <1>1, <2>1, <3>1, <3>2 DEF TypeOK
  <2> QED BY <1>3, <2>2, <2>3
<1>7. GetSoFar'
  <2>1. ASSUME pc = "haveHead" PROVE Count(reg, tail) <= Held + 1
    <3>1. reg \in Counters
      BY <2>1 DEF TypeOK
    <3> QED BY <1>2, <1>3, <2>1, <3>1, TypeFacts, CountType DEF GetSoFar
  <2> QED BY <1>1, <1>2, <1>3, <2>1, TypeFacts DEF GetSoFar
<1>8. \A i \in 1 .. Len(out') : out'[i] = Element(i - 1)
  BY <1>1, <1>2
<1> QED BY <1>3, <1>4, <1>5, <1>6, <1>7, <1>8, RingAssumption DEF ExactInv

\* The get's loads and copies change nothing but main's registers.
LEMMA ExactLoad ==
  ASSUME TypeOK, ExactInv,
         GetLoadFirst \/ GetTestEmpty \/ GetOffset \/ GetCopyByte \/ GetLoadTail
  PROVE  ExactInv'
<1>1. /\ head' = head /\ tail' = tail /\ buf' = buf
      /\ sent' = sent /\ out' = out /\ dropped' = dropped
  BY DEF GetLoadFirst, GetTestEmpty, GetOffset, GetCopyByte, GetLoadTail
<1>2. Held' = Held /\ (Window => Window')
  BY <1>1 DEF Window, Held
<1> SUFFICES ASSUME dropped = 0 PROVE GetSoFar'
  BY <1>1, <1>2 DEF ExactInv
<1>3. Count(head, tail) = Held /\ GetSoFar /\ Window
  BY DEF ExactInv
<1>4. CASE GetLoadFirst
  <2>1. \/ pc' = "haveHead" /\ Count(reg', tail') <= Held'
        \/ pc' = "haveTail" /\ reg' = tail'
    BY <1>1, <1>2, <1>3, <1>4, TypeFacts DEF GetLoadFirst
  <2> QED BY <2>1 DEF GetSoFar
<1>5. CASE GetTestEmpty
  <2>1. ASSUME pc' = "offset" PROVE Held > 0
    <3>1. CASE pc = "haveHead"
      <4>1. Count(reg, tail) # 0 /\ reg \in Counters
        BY <1>5, <2>1, <3>1 DEF GetTestEmpty, Empty, TypeOK
      <4> QED BY <1>3, <3>1, <4>1, TypeFacts, CountType DEF GetSoFar
    <3>2. CASE pc = "haveTail"
      <4>1. Count(head, reg) # 0
        BY <1>5, <2>1, <3>2 DEF GetTestEmpty, Empty
      <4> QED BY <1>3, <3>2, <4>1, TypeFacts DEF GetSoFar
    <3> QED BY <1>5, <3>1, <3>2 DEF GetTestEmpty
  <2>2. pc' \in {"idle", "offset"}
    BY <1>5 DEF GetTestEmpty
  <2> QED BY <1>2, <2>1, <2>2 DEF GetSoFar
<1>6. CASE GetOffset
  <2>1. Held > 0 /\ pc' = "copy" /\ reg' = Slot(tail) /\ Len(data') = 0
    BY <1>3, <1>6 DEF GetOffset, GetSoFar
  <2> QED BY <1>1, <1>2, <2>1 DEF GetSoFar
<1>7. CASE GetCopyByte
  <2>1. buf[At(tail, 0)] = Len(out) + 0
    BY <1>3, <1>7, TypeFacts, RingAssumption DEF GetCopyByte, GetSoFar, Window
  <2>2. buf[reg] = Len(out)
    BY <1>3, <1>7, <2>1, AtEnds, TypeFacts DEF GetCopyByte, GetSoFar
  <2>3. \A j \in 1 .. Len(data') : data'[j] = Len(out)
    BY <1>3, <1>7, <2>2 DEF GetCopyByte, GetSoFar, TypeOK
  <2> QED BY <1>1, <1>2, <1>3, <1>7, <2>3 DEF GetCopyByte, GetSoFar
<1>8. CASE GetLoadTail
  <2>1. data = Element(Len(out))
    <3>1. data \in Seq(Nat) /\ Len(data) = Width
      BY <1>8 DEF GetLoadTail, TypeOK
    <3>2. \A j \in 1 .. Width : data[j] = Len(out)
      BY <1>3, <1>8, <3>1 DEF GetLoadTail, GetSoFar
    <3> QED BY <3>1, <3>2, RxAssumption DEF Element
  <2> QED BY <1>1, <1>2, <1>3, <1>8, <2>1 DEF GetLoadTail, GetSoFar
<1> QED BY <1>4, <1>5, <1>6, <1>7, <1>8

\* The get's final store removes the element at the window's start.
LEMMA ExactStore == TypeOK /\ ExactInv /\ GetStoreTail => ExactInv'
<1> SUFFICES ASSUME TypeOK, ExactInv, GetStoreTail, dropped = 0
             PROVE  ExactInv'
  BY DEF ExactInv, GetStoreTail
<1>1. /\ \A i \in 1 .. Len(out) : out[i] = Element(i - 1)
      /\ Count(head, tail) = Held /\ Held <= N
      /\ Slot(head) = At(tail, Held)
      /\ Window /\ GetSoFar
  BY DEF ExactInv
<1>2. /\ tail' = Inc(tail) /\ out' = Append(out, data) /\ data = Element(Len(out))
      /\ pc' = "idle" /\ head' = head /\ buf' = buf /\ sent' = sent
      /\ Held > 0
  BY <1>1 DEF GetStoreTail, GetSoFar
<1>3. Len(out') = Len(out) + 1
  BY <1>2 DEF TypeOK
<1>4. Held \in 1 .. N /\ Held' = Held - 1
  <2>1. Held' = Held - 1
    BY <1>2, <1>3, TypeFacts DEF Held
  <2> QED BY <1>1, <1>2, <2>1, TypeFacts, RingAssumption
<1>5. Count(head', tail') = Held'
  BY <1>1, <1>2, <1>4, TypeFacts, CountIncTail
<1>6. Slot(head') = At(tail', Held')
  <2>1. Held - 1 \in 0 .. N - 1 /\ (Held - 1) + 1 = Held
    BY <1>4, RingAssumption
  <2> QED BY <1>1, <1>2, <1>4, <2>1, TypeFacts, AtInc
<1>7. Window'
  <2> SUFFICES ASSUME NEW k \in 0 .. N - 1, k < Held'
               PROVE  buf[At(tail', k)] = (Len(out) + 1) + k
    BY <1>2, <1>3 DEF Window
  <2>1. At(tail', k) = At(tail, k + 1) /\ k + 1 \in 0 .. N - 1 /\ k + 1 < Held
    BY <1>2, <1>4, TypeFacts, AtInc, RingAssumption
  <2>2. buf[At(tail, k + 1)] = Len(out) + (k + 1)
    BY <1>1, <2>1 DEF Window
  <2> QED BY <2>1, <2>2, TypeFacts
<1>8. \A i \in 1 .. Len(out') : out'[i] = Element(i - 1)
  <2> SUFFICES ASSUME NEW i \in 1 .. Len(out') PROVE out'[i] = Element(i - 1)
    OBVIOUS
  <2>1. CASE i = Len(out) + 1
    BY <1>2, <2>1, TypeFacts DEF TypeOK
  <2>2. CASE i \in 1 .. Len(out)
    BY <1>1, <1>2, <2>2 DEF TypeOK
  <2> QED BY <1>3, <2>1, <2>2, TypeFacts
<1>9. GetSoFar'
  BY <1>2 DEF GetSoFar
<1> QED BY <1>4, <1>5, <1>6, <1>7, <1>8, <1>9, RingAssumption DEF ExactInv

\* Until a put finds the buffer full, gets return the elements in the order they
\* arrived, each one whole and once, and the buffer holds exactly the others.
THEOREM ExactDelivery == Spec => []ExactUntilOverrun
<1>1. TypeOK /\ ExactInv /\ [Next]_vars => ExactInv'
  <2>1. CASE UNCHANGED vars
    BY <2>1 DEF vars, ExactInv, Held, Window, GetSoFar
  <2> QED BY <2>1, ExactPut, ExactLoad, ExactStore DEF Next, Get
<1>2. ExactInv => ExactUntilOverrun
  BY DEF ExactInv, ExactUntilOverrun, Held
<1> QED BY <1>1, <1>2, ExactInit, TypeCorrect, PTL DEF Spec

-----------------------------------------------------------------------------
(* The occupancy bound, when at most one put falls into one get.  The      *)
(* inductive invariant: a get past its emptiness test cannot find the      *)
(* buffer emptied under it, and the tail it is about to overwrite is       *)
(* behind by at most the one element a put cleared meanwhile.              *)

BoundInv ==
  /\ Count(head, tail) <= N
  /\ pc = "haveHead" => Count(head, tail) > 0 \/ reg = head
  /\ pc = "haveTail" => Count(head, tail) > 0 \/ reg = tail
  /\ pc \in {"offset", "copy", "store"} => Count(head, tail) > 0
  /\ pc = "store" => reg = tail \/ (tail = Inc(reg) /\ burst > 0)

LEMMA BoundPut ==
  ASSUME Burst <= 1, TypeOK, BoundInv, PutForce
  PROVE  BoundInv'
<1>1. /\ head' = Inc(head) /\ pc' = pc /\ reg' = reg
      /\ pc = "store" => burst = 0 /\ burst' > 0
  BY RxAssumption DEF PutForce, TypeOK
<1>2. Count(head', tail') \in 1 .. N
  <2>1. CASE Full(head, tail)
    BY <1>1, <2>1, TypeFacts, CountIncBoth DEF PutForce, Full
  <2>2. CASE ~Full(head, tail)
    <3>1. tail' = tail /\ Count(head, tail) < N
      BY <2>2, TypeFacts DEF PutForce, Full, BoundInv
    <3> QED BY <1>1, <3>1, TypeFacts, CountIncHead, CounterModType
  <2> QED BY <2>1, <2>2
<1>3. ASSUME pc = "store" PROVE reg' = tail' \/ (tail' = Inc(reg') /\ burst' > 0)
  <2>1. reg = tail
    BY <1>1, <1>3 DEF BoundInv
  <2> QED BY <1>1, <1>3, <2>1 DEF PutForce
<1> QED BY <1>1, <1>2, <1>3, RingAssumption DEF BoundInv

LEMMA BoundGet ==
  ASSUME TypeOK, BoundInv, Get
  PROVE  BoundInv'
<1>1. CASE GetStoreTail
  <2>1. /\ head' = head /\ tail' = Inc(reg) /\ pc' = "idle"
        /\ Count(head, tail) \in 1 .. N
        /\ reg = tail \/ tail = Inc(reg)
    BY <1>1, TypeFacts, RingAssumption DEF GetStoreTail, BoundInv
  <2>2. Count(head', tail') <= N
    <3>1. CASE reg = tail
      BY <2>1, <3>1, TypeFacts, CountIncTail
    <3>2. CASE tail = Inc(reg)
      BY <2>1, <3>2
    <3> QED BY <2>1, <3>1, <3>2
  <2> QED BY <2>1, <2>2 DEF BoundInv
<1>2. CASE GetTestEmpty
  <2>1. head' = head /\ tail' = tail /\ pc' \in {"idle", "offset"}
    BY <1>2 DEF GetTestEmpty
  <2>2. ASSUME pc' = "offset" PROVE Count(head, tail) > 0
    <3>1. CASE pc = "haveHead"
      BY <1>2, <2>2, <3>1, TypeFacts, CountZero DEF GetTestEmpty, BoundInv, Empty
    <3>2. CASE pc = "haveTail"
      BY <1>2, <2>2, <3>2, TypeFacts, CountZero DEF GetTestEmpty, BoundInv, Empty
    <3> QED BY <1>2, <3>1, <3>2 DEF GetTestEmpty
  <2> QED BY <2>1, <2>2 DEF BoundInv
<1>3. CASE GetLoadFirst \/ GetOffset \/ GetCopyByte \/ GetLoadTail
  <2>1. head' = head /\ tail' = tail
    BY <1>3 DEF GetLoadFirst, GetOffset, GetCopyByte, GetLoadTail
  <2> QED BY <1>3, <2>1 DEF GetLoadFirst, GetOffset, GetCopyByte, GetLoadTail, BoundInv
<1> QED BY <1>1, <1>2, <1>3 DEF Get

\* If at most one put falls into one get, the buffer never claims more elements
\* than it has slots, so a put on a full buffer always clears the oldest one.
THEOREM OccupancyBounded == ASSUME Burst <= 1 PROVE Spec => []OccupancyBound
<1>1. Init => BoundInv
  <2> SUFFICES ASSUME Init PROVE BoundInv
    OBVIOUS
  <2>1. head \in Counters /\ tail = head /\ pc = "idle"
    BY CounterModType, RingAssumption DEF Init, Counters
  <2> QED BY <2>1, CountZero, RingAssumption DEF BoundInv
<1>2. TypeOK /\ BoundInv /\ [Next]_vars => BoundInv'
  <2>1. CASE UNCHANGED vars
    BY <2>1 DEF vars, BoundInv
  <2> QED BY <2>1, BoundPut, BoundGet DEF Next
<1>3. BoundInv => OccupancyBound
  BY DEF BoundInv, OccupancyBound
<1> QED BY <1>1, <1>2, <1>3, TypeCorrect, PTL DEF Spec
=============================================================================
