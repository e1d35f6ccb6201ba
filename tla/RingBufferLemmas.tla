-------------------------- MODULE RingBufferLemmas --------------------------
(***************************************************************************)
(* Facts about the counter arithmetic of RingBuffer, for every capacity    *)
(* and every counter width, used by the proofs about both sides' uses.     *)
(***************************************************************************)
EXTENDS RingBuffer, Integers, TLAPS

\* The slot k places past the one the counter c selects, for k in 0 .. N.
At(c, k) == IF Slot(c) + k < N THEN Slot(c) + k ELSE Slot(c) + k - N

\* A remainder is recognised by its defining equation.
LEMMA Remainder ==
  ASSUME NEW n \in Nat \ {0}, NEW q \in Nat, NEW r \in 0 .. n - 1
  PROVE  (n * q + r) % n = r
  OBVIOUS

\* A counter has more values than the buffer has slots.
LEMMA CounterModType == CounterMod \in Nat /\ CounterMod >= 2 * N
<1>1. PICK n \in Nat, l \in Nat : n = N /\ l = Laps /\ n >= 1 /\ l >= 2
  BY RingAssumption
<1>2. n * l \in Nat /\ n * l >= n * 2
  BY <1>1
<1> QED BY <1>1, <1>2 DEF CounterMod

\* Incrementing stays within the counter's values.
LEMMA IncType == ASSUME NEW c \in Counters PROVE Inc(c) \in Counters
  BY CounterModType, RingAssumption DEF Inc, Counters

\* Masking a counter selects a slot, and every slot number is a counter value.
LEMMA SlotType == ASSUME NEW c \in Counters
                  PROVE  Slot(c) \in Slots /\ Slot(c) \in Counters
<1>1. Slot(c) \in Slots
  BY CounterModType, RingAssumption DEF Slot, Slots, Counters
<1> QED BY <1>1, CounterModType, RingAssumption DEF Slots, Counters

\* Because n_elem divides the number of counter values, the next counter value
\* selects the next slot even where the counter wraps to zero.
LEMMA SlotInc ==
  ASSUME NEW c \in Counters
  PROVE  Slot(Inc(c)) = IF Slot(c) = N - 1 THEN 0 ELSE Slot(c) + 1
<1> USE RingAssumption DEF Counters, CounterMod, Inc, Slot
<1>1. PICK q \in Nat, r \in 0 .. N - 1 : c = N * q + r
  <2>1. c = N * (c \div N) + (c % N) /\ c % N \in 0 .. N - 1 /\ c \div N \in Nat
    BY SMT
  <2> QED BY <2>1
<1>2. c % N = r
  BY <1>1
<1>3. CASE r < N - 1
  BY <1>1, <1>2, <1>3
<1>4. CASE r = N - 1
  <2>1. c + 1 = N * (q + 1) + 0
    BY <1>1, <1>4
  <2>2. (N * (q + 1) + 0) % N = 0
    <3>1. q + 1 \in Nat /\ 0 \in 0 .. N - 1 /\ N \in Nat \ {0}
      OBVIOUS
    <3> HIDE RingAssumption DEF Counters, CounterMod, Inc, Slot
    <3> QED BY <3>1, Remainder
  <2>3. (N * 0 + 0) % N = 0
    OBVIOUS
  <2> QED BY <2>1, <2>2, <2>3, <1>2, <1>4
<1> QED BY <1>3, <1>4

\* The difference of two counters is a natural number smaller than their range.
LEMMA CountType == ASSUME NEW h \in Counters, NEW t \in Counters
                   PROVE  Count(h, t) \in 0 .. CounterMod - 1
  BY CounterModType DEF Count, Counters

\* The difference is zero only for equal counters.
LEMMA CountZero == ASSUME NEW h \in Counters, NEW t \in Counters
                   PROVE  Count(h, t) = 0 <=> h = t
  BY CounterModType DEF Count, Counters

\* Advancing head adds one to the difference, advancing tail takes one off.
LEMMA CountIncHead ==
  ASSUME NEW h \in Counters, NEW t \in Counters, Count(h, t) < CounterMod - 1
  PROVE  Count(Inc(h), t) = Count(h, t) + 1
  BY CounterModType, RingAssumption DEF Count, Counters, Inc

LEMMA CountIncTail ==
  ASSUME NEW h \in Counters, NEW t \in Counters, Count(h, t) > 0
  PROVE  Count(h, Inc(t)) = Count(h, t) - 1
  BY CounterModType, RingAssumption DEF Count, Counters, Inc

\* Advancing both leaves the difference as it was.
LEMMA CountIncBoth ==
  ASSUME NEW h \in Counters, NEW t \in Counters
  PROVE  Count(Inc(h), Inc(t)) = Count(h, t)
  BY CounterModType, RingAssumption DEF Count, Counters, Inc

\* Moving the origin one slot on moves every offset one back.
LEMMA AtInc == ASSUME NEW c \in Counters, NEW k \in 0 .. N - 1
               PROVE  At(Inc(c), k) = At(c, k + 1)
  BY SlotInc, SlotType, IncType, RingAssumption DEF At, Slots

\* A counter k places ahead of c is, once incremented, k + 1 places ahead.
LEMMA AtSucc ==
  ASSUME NEW h \in Counters, NEW c \in Counters, NEW k \in 0 .. N - 1, Slot(h) = At(c, k)
  PROVE  Slot(Inc(h)) = At(c, k + 1)
  BY SlotInc, SlotType, RingAssumption DEF At, Slots

\* Offsets smaller than N name slots, each a different one.
LEMMA AtSlots ==
  ASSUME NEW c \in Counters, NEW k \in 0 .. N - 1
  PROVE  /\ At(c, k) \in Slots
         /\ \A j \in 0 .. N - 1 : At(c, j) = At(c, k) => j = k
  BY SlotType, RingAssumption DEF At, Slots

\* Masking a sum: a counter k <= N values ahead selects the slot k places ahead.
LEMMA SlotAdd ==
  ASSUME NEW c \in Counters, NEW k \in 0 .. N
  PROVE  (c + k) % N = At(c, k) /\ (c + k >= CounterMod => (c + k - CounterMod) % N = At(c, k))
<1>1. N \in Nat \ {0} /\ Laps \in Nat /\ c \in Nat /\ CounterMod = N * Laps /\ CounterMod \in Nat
  BY CounterModType, RingAssumption DEF Counters, CounterMod
<1>2. PICK q \in Nat, r \in 0 .. N - 1 : c = N * q + r
  <2>1. c = N * (c \div N) + (c % N) /\ c % N \in 0 .. N - 1 /\ c \div N \in Nat
    BY <1>1, SMT
  <2> QED BY <2>1
<1>3. Slot(c) = r
  BY <1>1, <1>2, Remainder DEF Slot
<1>4. PICK p \in Nat : c + k = N * p + At(c, k) /\ At(c, k) \in 0 .. N - 1
  <2>1. CASE r + k < N
    <3>1. At(c, k) = r + k
      BY <1>3, <2>1 DEF At
    <3> WITNESS q \in Nat
    <3> QED BY <1>1, <1>2, <2>1, <3>1
  <2>2. CASE r + k >= N
    <3>1. c + k = N * (q + 1) + (r + k - N)
      BY <1>1, <1>2
    <3>2. At(c, k) = r + k - N
      BY <1>1, <1>2, <1>3, <2>2 DEF At
    <3>3. q + 1 \in Nat
      OBVIOUS
    <3> WITNESS q + 1 \in Nat
    <3> QED BY <1>1, <1>2, <2>2, <3>1, <3>2
  <2> QED BY <1>1, <1>2, <2>1, <2>2
<1>5. (c + k) % N = At(c, k)
  BY <1>1, <1>4, Remainder
<1>6. ASSUME c + k >= CounterMod PROVE (c + k - CounterMod) % N = At(c, k)
  <2>1. N * p + At(c, k) >= N * Laps
    BY <1>1, <1>4, <1>6
  <2>2. p >= Laps
    <3>1. SUFFICES ASSUME p + 1 <= Laps PROVE FALSE
      BY <1>1, <1>4
    <3>2. N * (p + 1) <= N * Laps
      BY <1>1, <1>4, <3>1
    <3> QED BY <1>1, <1>4, <2>1, <3>2
  <2>3. c + k - CounterMod = N * (p - Laps) + At(c, k) /\ p - Laps \in Nat
    BY <1>1, <1>4, <2>2
  <2> QED BY <1>1, <1>4, <2>3, Remainder
<1> QED BY <1>5, <1>6

\* head selects the slot as many places past tail's as the buffer holds elements.
LEMMA SlotCount ==
  ASSUME NEW h \in Counters, NEW t \in Counters, Count(h, t) <= N
  PROVE  Slot(h) = At(t, Count(h, t))
<1>1. Count(h, t) \in 0 .. N
  BY CountType, CounterModType, RingAssumption
<1>2. \/ h = t + Count(h, t)
      \/ h = t + Count(h, t) - CounterMod /\ t + Count(h, t) >= CounterMod
  BY CounterModType DEF Count, Counters
<1> QED BY <1>1, <1>2, SlotAdd DEF Slot

LEMMA AtEnds == ASSUME NEW c \in Counters
                PROVE  At(c, 0) = Slot(c) /\ At(c, N) = Slot(c)
  BY SlotType, RingAssumption DEF At, Slots
=============================================================================
