--------------------------- MODULE EventSeqProofs ---------------------------
(***************************************************************************)
(* Proofs about the loop sequencer, for every resolution and length of the *)
(* loop, size of the pool and set of notes: the list stays in order, notes *)
(* in pairs, amounts exact, and no pass through the loop skips an event.   *)
(***************************************************************************)
EXTENDS EventSeq, FiniteSetTheorems, SequenceTheorems, TLAPS

-----------------------------------------------------------------------------
(* Facts about the operators of event_seq.c.                               *)

LEMMA LoopNat == Loop \in Nat /\ Loop >= 2 /\ Step \in Nat /\ Step >= 2 /\ Steps \in Nat
<1>1. Step \in Nat /\ Step >= 2 /\ Steps \in Nat /\ Steps >= 1
  BY EventSeqAssumption DEF EventSeqAssumption
<1>2. PICK m \in Nat : Steps = 1 + m
  <2>1. Steps - 1 \in Nat /\ Steps = 1 + (Steps - 1)
    BY <1>1
  <2> QED BY <2>1
<1>3. Step * Steps = Step + Step * m /\ Step * m \in Nat
  BY <1>1, <1>2
<1> QED
  BY <1>1, <1>3 DEF Loop

\* The least of a set of positions, if there is one.
LEMMA MinNat ==
  ASSUME NEW S \in SUBSET Nat, S # {} PROVE Min(S) \in S /\ \A i \in S : Min(S) <= i
<1>1. PICK n \in S : \A i \in S : <<i, n>> \notin OpToRel(<, Nat)
  BY WFMin, NatLessThanWellFounded
<1>2. \A i \in S : ~(i < n)
  BY <1>1 DEF OpToRel
<1>3. ASSUME NEW i \in S PROVE n <= i
  <2>1. n \in Nat /\ i \in Nat /\ ~(i < n)
    BY <1>1, <1>2
  <2> QED BY <2>1
<1> QED
  BY <1>1, <1>3 DEF Min

\* r is l with e put in at position p.
Inserted(l, p, e, r) ==
  /\ r \in Seq(Ids) /\ Len(r) = Len(l) + 1 /\ p \in 1 .. Len(r)
  /\ \A i \in 1 .. Len(r) :
       r[i] = IF i < p THEN l[i] ELSE IF i = p THEN e ELSE l[i - 1]

LEMMA InsertAtInserts ==
  ASSUME NEW l \in Seq(Ids), NEW p \in 1 .. Len(l), NEW e \in Ids
  PROVE  Inserted(l, p, e, InsertAt(l, p, e))
<1> DEFINE s == SubSeq(l, 1, p - 1)
           t == SubSeq(l, p, Len(l))
           r == s \o <<e>>
<1>1. Len(l) \in Nat /\ p \in Nat /\ p >= 1 /\ p <= Len(l) /\ \A i \in 1 .. Len(l) : l[i] \in Ids
  OBVIOUS
<1>2. /\ s \in Seq(Ids) /\ Len(s) = p - 1 /\ \A i \in 1 .. p - 1 : s[i] = l[i]
  BY <1>1, SubSeqProperties
<1>3. /\ t \in Seq(Ids) /\ Len(t) = Len(l) - p + 1
      /\ \A i \in 1 .. Len(l) - p + 1 : t[i] = l[p + i - 1]
  BY <1>1, SubSeqProperties
<1>4. <<e>> \in Seq(Ids) /\ Len(<<e>>) = 1 /\ <<e>>[1] = e
  OBVIOUS
<1> HIDE DEF s, t
<1>5. /\ r \in Seq(Ids) /\ Len(r) = p
      /\ \A i \in 1 .. p : r[i] = IF i < p THEN l[i] ELSE e
  <2>1. r \in Seq(Ids) /\ Len(r) = Len(s) + 1
    BY <1>2, <1>4, ConcatProperties
  <2>2. \A i \in 1 .. Len(s) + 1 : r[i] = IF i <= Len(s) THEN s[i] ELSE <<e>>[i - Len(s)]
    BY <1>2, <1>4, ConcatProperties
  <2> QED BY <1>1, <1>2, <1>4, <2>1, <2>2
<1> HIDE DEF r
<1>6. /\ r \o t \in Seq(Ids) /\ Len(r \o t) = Len(l) + 1
      /\ \A i \in 1 .. Len(l) + 1 : (r \o t)[i] = IF i <= p THEN r[i] ELSE t[i - p]
  <2>1. /\ r \o t \in Seq(Ids) /\ Len(r \o t) = Len(r) + Len(t)
        /\ \A i \in 1 .. Len(r) + Len(t) : (r \o t)[i] = IF i <= Len(r) THEN r[i] ELSE t[i - Len(r)]
    BY <1>3, <1>5, ConcatProperties
  <2>2. Len(r) = p /\ Len(r) + Len(t) = Len(l) + 1
    BY <1>1, <1>3, <1>5
  <2> QED BY <2>1, <2>2, Zenon
<1>7. ASSUME NEW i \in 1 .. Len(l) + 1
      PROVE  (r \o t)[i] = IF i < p THEN l[i] ELSE IF i = p THEN e ELSE l[i - 1]
  <2>1. CASE i <= p
    <3>1. (r \o t)[i] = r[i] /\ i \in 1 .. p
      BY <1>1, <1>6, <2>1
    <3>2. r[i] = IF i < p THEN l[i] ELSE e
      BY <1>5, <3>1
    <3>3. i < p \/ (~(i < p) /\ i = p)
      BY <1>1, <2>1
    <3> QED BY <3>1, <3>2, <3>3, Zenon
  <2>2. CASE i > p
    <3>1. i - p \in 1 .. Len(l) - p + 1 /\ p + (i - p) - 1 = i - 1
      BY <1>1, <2>2
    <3>2. t[i - p] = l[i - 1]
      BY <1>3, <3>1
    <3>3. (r \o t)[i] = t[i - p] /\ ~(i < p) /\ i # p
      BY <1>1, <1>6, <2>2
    <3> QED BY <3>2, <3>3, Zenon
  <2>3. i <= p \/ i > p
    BY <1>1
  <2> QED BY <2>1, <2>2, <2>3
<1>8. InsertAt(l, p, e) = r \o t
  BY DEF InsertAt, r, s, t
<1> QED
  BY <1>1, <1>6, <1>7, <1>8 DEF Inserted

LEMMA AppendInserts ==
  ASSUME NEW l \in Seq(Ids), NEW e \in Ids
  PROVE  Inserted(l, Len(l) + 1, e, Append(l, e))
BY AppendProperties DEF Inserted

LEMMA HeadInserts ==
  ASSUME NEW l \in Seq(Ids), NEW e \in Ids
  PROVE  Inserted(l, 1, e, <<e>> \o l)
<1>1. <<e>> \in Seq(Ids) /\ Len(<<e>>) = 1 /\ <<e>>[1] = e /\ Len(l) \in Nat
  OBVIOUS
<1>2. /\ <<e>> \o l \in Seq(Ids) /\ Len(<<e>> \o l) = Len(l) + 1
      /\ \A i \in 1 .. Len(l) + 1 : (<<e>> \o l)[i] = IF i <= 1 THEN <<e>>[i] ELSE l[i - 1]
  BY <1>1, ConcatProperties
<1> QED
  BY <1>1, <1>2 DEF Inserted

\* Sequence l is in the order of the timestamps of evt but for the events in odd, which
\* may be behind later ones.
InTime(l, evt, odd) ==
  \A i, j \in 1 .. Len(l) : i < j /\ l[j] \notin odd => evt[l[i]].ts <= evt[l[j]].ts

\* At position p of l, in the times of evt, an event placed by ts and stored as stored
\* is not later than those behind it, and unless it was reduced not earlier than those
\* before it.
Fits(l, p, ts, stored, evt, odd) ==
  /\ stored = ts => \A i \in 1 .. p - 1 : evt[l[i]].ts <= ts
  /\ \A y \in 1 .. Len(l) : y >= p /\ l[y] \notin odd => stored <= evt[l[y]].ts

\* The place of an event.
LEMMA PlaceInserts ==
  ASSUME NEW l \in Seq(Ids), NEW ts \in Nat, NEW stored \in Nat, NEW e \in Ids,
         NEW evt, \A i \in Ids : evt[i].ts \in Nat, stored <= ts, NEW odd,
         InTime(l, evt, odd)
  PROVE  \E p \in 1 .. Len(l) + 1 :
           /\ Inserted(l, p, e, Place(l, ts, stored, e, evt))
           /\ Fits(l, p, ts, stored, evt, odd)
<1> DEFINE S == {i \in 1 .. Len(l) : ts < evt[l[i]].ts}
           q == IF S # {} THEN Min(S) ELSE 0
<1>0. Len(l) \in Nat /\ \A i \in 1 .. Len(l) : l[i] \in Ids /\ evt[l[i]].ts \in Nat
  OBVIOUS
<1>1. Place(l, ts, stored, e, evt) =
        CASE q # 0 -> InsertAt(l, q, e)
          [] q = 0 /\ l # <<>> /\ stored < evt[Head(l)].ts -> <<e>> \o l
          [] OTHER -> Append(l, e)
  BY DEF Place, SelectInSeq
<1>2. CASE S # {}
  <2>1. q \in S /\ \A i \in S : q <= i
    <3>1. S \in SUBSET Nat
      BY <1>0
    <3> HIDE DEF S
    <3> QED BY <1>2, <3>1, MinNat
  <2> HIDE DEF q
  <2>2. q \in 1 .. Len(l) /\ ts < evt[l[q]].ts /\ q # 0
    BY <2>1
  <2>3. ASSUME NEW i \in 1 .. q - 1 PROVE evt[l[i]].ts <= ts
    <3>1. i \in 1 .. Len(l) /\ i \notin S
      BY <1>0, <2>1, <2>2
    <3> QED BY <1>0, <3>1
  <2>4. Inserted(l, q, e, InsertAt(l, q, e))
    BY <2>2, InsertAtInserts
  <2>5. Place(l, ts, stored, e, evt) = InsertAt(l, q, e)
    BY <1>1, <2>2
  <2>6. q \in 1 .. Len(l) + 1
    BY <1>0, <2>2
  <2>7. ASSUME NEW y \in 1 .. Len(l), y >= q, l[y] \notin odd PROVE stored <= evt[l[y]].ts
    <3>1. q = y \/ q < y
      BY <2>2, <2>7
    <3>2. q < y => evt[l[q]].ts <= evt[l[y]].ts
      BY <2>2, <2>7 DEF InTime
    <3>3. evt[l[q]].ts <= evt[l[y]].ts
      BY <1>0, <2>2, <3>1, <3>2
    <3> QED BY <1>0, <2>2, <3>3
  <2> QED BY <2>3, <2>4, <2>5, <2>6, <2>7 DEF Fits
<1>3. CASE S = {}
  <2>1. q = 0
    BY <1>3
  <2>2. \A i \in 1 .. Len(l) : evt[l[i]].ts <= ts
    BY <1>0, <1>3
  <2> HIDE DEF q, S
  <2>3. CASE l # <<>> /\ stored < evt[Head(l)].ts
    <3>1. Place(l, ts, stored, e, evt) = <<e>> \o l
      BY <1>1, <2>1, <2>3
    <3>2. Len(l) >= 1 /\ Head(l) = l[1]
      BY <2>3, <1>0, EmptySeq
    <3>3. stored < evt[l[1]].ts /\ 1 \in 1 .. Len(l)
      BY <1>0, <2>3, <3>2
    <3>4. ASSUME NEW y \in 1 .. Len(l), y >= 1, l[y] \notin odd PROVE stored <= evt[l[y]].ts
      <4>1. 1 = y \/ 1 < y
        BY <1>0
      <4>2. 1 < y => evt[l[1]].ts <= evt[l[y]].ts
        BY <3>3, <3>4 DEF InTime
      <4>3. evt[l[1]].ts <= evt[l[y]].ts
        BY <1>0, <3>3, <4>1, <4>2
      <4> QED BY <1>0, <3>3, <4>3
    <3>5. Fits(l, 1, ts, stored, evt, odd) /\ 1 \in 1 .. Len(l) + 1
      BY <1>0, <3>4 DEF Fits
    <3> QED BY <3>1, <3>5, HeadInserts
  <2>4. CASE ~(l # <<>> /\ stored < evt[Head(l)].ts)
    <3>1. Place(l, ts, stored, e, evt) = Append(l, e)
      BY <1>1, <2>1, <2>4
    <3>2. Len(l) + 1 \in 1 .. Len(l) + 1 /\ (\A y \in 1 .. Len(l) : ~(y >= Len(l) + 1))
          /\ \A i \in 1 .. Len(l) + 1 - 1 : evt[l[i]].ts <= ts
      BY <1>0, <2>2
    <3> QED BY <3>1, <3>2, AppendInserts DEF Fits
  <2> QED BY <2>3, <2>4
<1> QED
  BY <1>2, <1>3

\* Where two of r's elements were in l.
LEMMA InsertedPlaces ==
  ASSUME NEW l \in Seq(Ids), NEW p, NEW e \in Ids, NEW r, Inserted(l, p, e, r),
         NEW i \in 1 .. Len(r), NEW j \in 1 .. Len(r), i < j
  PROVE  \/ i = p /\ \E y \in 1 .. Len(l) : y >= p /\ r[j] = l[y]
         \/ j = p /\ \E x \in 1 .. Len(l) : x < p /\ r[i] = l[x]
         \/ i # p /\ j # p /\ \E x, y \in 1 .. Len(l) : x < y /\ r[i] = l[x] /\ r[j] = l[y]
<1>1. /\ Len(l) \in Nat /\ p \in Nat /\ p >= 1 /\ p <= Len(l) + 1
      /\ i \in Nat /\ j \in Nat /\ 1 <= i /\ j <= Len(l) + 1
  BY DEF Inserted
<1>2. /\ r[i] = IF i < p THEN l[i] ELSE IF i = p THEN e ELSE l[i - 1]
      /\ r[j] = IF j < p THEN l[j] ELSE IF j = p THEN e ELSE l[j - 1]
  BY DEF Inserted
<1>3. CASE i < p /\ j < p
  <2>1. r[i] = l[i] /\ r[j] = l[j]
    BY <1>2, <1>3
  <2>2. i \in 1 .. Len(l) /\ j \in 1 .. Len(l) /\ i # p /\ j # p
    BY <1>1, <1>3
  <2> QED BY <2>1, <2>2
<1>4. CASE i < p /\ j = p
  <2>1. r[i] = l[i]
    BY <1>2, <1>4
  <2>2. i \in 1 .. Len(l)
    BY <1>1, <1>4
  <2> QED BY <1>4, <2>1, <2>2
<1>5. CASE i < p /\ j > p
  <2>1. r[i] = l[i]
    BY <1>2, <1>5
  <2>2. ~(j < p) /\ j # p /\ i # p
    BY <1>1, <1>5
  <2>3. r[j] = l[j - 1]
    BY <1>2, <2>2
  <2>4. i \in 1 .. Len(l) /\ j - 1 \in 1 .. Len(l) /\ i < j - 1
    BY <1>1, <1>5
  <2> QED BY <2>1, <2>2, <2>3, <2>4
<1>6. CASE i = p /\ j > p
  <2>1. ~(j < p) /\ j # p
    BY <1>1, <1>6
  <2>2. r[j] = l[j - 1]
    BY <1>2, <2>1
  <2>3. j - 1 \in 1 .. Len(l) /\ j - 1 >= p
    BY <1>1, <1>6
  <2> QED BY <1>6, <2>2, <2>3
<1>7. CASE i > p
  <2>1. ~(j < p) /\ j # p /\ ~(i < p) /\ i # p
    BY <1>1, <1>7
  <2>2. r[i] = l[i - 1] /\ r[j] = l[j - 1]
    BY <1>2, <2>1
  <2>3. i - 1 \in 1 .. Len(l) /\ j - 1 \in 1 .. Len(l) /\ i - 1 < j - 1
    BY <1>1, <1>7
  <2> QED BY <2>1, <2>2, <2>3
<1>8. (i < p /\ j < p) \/ (i < p /\ j = p) \/ (i < p /\ j > p) \/ (i = p /\ j > p) \/ i > p
  BY <1>1
<1> QED
  BY <1>3, <1>4, <1>5, <1>6, <1>7, <1>8

LEMMA InsertedElements ==
  ASSUME NEW l \in Seq(Ids), NEW p, NEW e \in Ids, NEW r, Inserted(l, p, e, r)
  PROVE  ToSet(r) = ToSet(l) \cup {e} /\ r # <<>> /\ r[p] = e
<1>1. /\ Len(l) \in Nat /\ p \in Nat /\ p >= 1 /\ p <= Len(l) + 1 /\ p \in 1 .. Len(r)
      /\ r \in Seq(Ids) /\ Len(r) = Len(l) + 1
  BY DEF Inserted
<1>2. ToSet(r) = {r[i] : i \in 1 .. Len(r)} /\ ToSet(l) = {l[i] : i \in 1 .. Len(l)}
  BY <1>1 DEF ToSet
<1>3. \A i \in 1 .. Len(r) :
        r[i] = IF i < p THEN l[i] ELSE IF i = p THEN e ELSE l[i - 1]
  BY DEF Inserted
<1>4. r[p] = e
  <2>1. ~(p < p)
    BY <1>1
  <2> QED BY <1>1, <1>3, <2>1
<1>5. ASSUME NEW i \in 1 .. Len(r) PROVE r[i] \in ToSet(l) \cup {e}
  <2>1. i < p => i \in 1 .. Len(l)
    BY <1>1
  <2>2. ~(i < p) /\ i # p => i - 1 \in 1 .. Len(l)
    BY <1>1
  <2>3. CASE i < p
    BY <1>2, <1>3, <2>1, <2>3
  <2>4. CASE ~(i < p) /\ i = p
    BY <1>3, <2>4
  <2>5. CASE ~(i < p) /\ i # p
    <3>1. r[i] = l[i - 1]
      BY <1>3, <2>5
    <3> QED BY <1>2, <2>2, <2>5, <3>1
  <2> QED BY <2>3, <2>4, <2>5
<1>6. ASSUME NEW k \in 1 .. Len(l) PROVE l[k] \in ToSet(r)
  <2>1. CASE k < p
    <3>1. k \in 1 .. Len(r)
      BY <1>1
    <3> QED BY <1>2, <1>3, <2>1, <3>1
  <2>2. CASE ~(k < p)
    <3>1. k + 1 \in 1 .. Len(r) /\ ~(k + 1 < p) /\ k + 1 # p /\ (k + 1) - 1 = k
      BY <1>1, <2>2
    <3>2. r[k + 1] = l[k]
      BY <1>3, <3>1
    <3> QED BY <1>2, <3>1, <3>2
  <2> QED BY <2>1, <2>2
<1>7. r # <<>>
  BY <1>1
<1> QED
  BY <1>1, <1>2, <1>4, <1>5, <1>6, <1>7

LEMMA InsertedInjective ==
  ASSUME NEW l \in Seq(Ids), NEW p, NEW e \in Ids, NEW r, Inserted(l, p, e, r),
         IsInjective(l), e \notin ToSet(l)
  PROVE  IsInjective(r)
<1>1. r \in Seq(Ids) /\ DOMAIN r = 1 .. Len(r) /\ DOMAIN l = 1 .. Len(l) /\ r[p] = e
  BY InsertedElements DEF Inserted
<1>2. \A x, y \in 1 .. Len(l) : x < y => l[x] # l[y]
  <2>1. \A x, y \in 1 .. Len(l) : x < y => x # y
    OBVIOUS
  <2> QED BY <1>1, <2>1 DEF IsInjective
<1>3. \A x \in 1 .. Len(l) : l[x] # e
  BY <1>1 DEF ToSet
<1>4. ASSUME NEW i \in 1 .. Len(r), NEW j \in 1 .. Len(r), i < j PROVE r[i] # r[j]
  <2>1. CASE i = p /\ \E y \in 1 .. Len(l) : y >= p /\ r[j] = l[y]
    BY <1>1, <1>3, <2>1
  <2>2. CASE j = p /\ \E x \in 1 .. Len(l) : x < p /\ r[i] = l[x]
    BY <1>1, <1>3, <2>2
  <2>3. CASE \E x, y \in 1 .. Len(l) : x < y /\ r[i] = l[x] /\ r[j] = l[y]
    BY <1>2, <2>3
  <2> QED BY <1>4, <2>1, <2>2, <2>3, InsertedPlaces
<1>5. \A i, j \in 1 .. Len(r) : i = j \/ i < j \/ j < i
  OBVIOUS
<1> QED
  BY <1>1, <1>4, <1>5 DEF IsInjective

LEMMA InsertedInTime ==
  ASSUME NEW l \in Seq(Ids), NEW p, NEW e \in Ids, NEW r, Inserted(l, p, e, r),
         NEW evt, NEW old, NEW ts \in Nat, NEW stored \in Nat, NEW odd, NEW odd2,
         \A x \in ToSet(l) : evt[x].ts = old[x].ts /\ old[x].ts \in Nat,
         evt[e].ts = stored, InTime(l, old, odd), Fits(l, p, ts, stored, old, odd),
         odd \subseteq odd2, stored # ts => e \in odd2
  PROVE  InTime(r, evt, odd2)
<1>1. /\ Len(l) \in Nat /\ p \in Nat /\ p >= 1 /\ r[p] = e
      /\ \A x \in 1 .. Len(l) : l[x] \in ToSet(l)
  BY InsertedElements DEF Inserted, ToSet
<1>2. ASSUME NEW x \in 1 .. Len(l) PROVE evt[l[x]].ts = old[l[x]].ts /\ old[l[x]].ts \in Nat
  BY <1>1
<1> SUFFICES ASSUME NEW i \in 1 .. Len(r), NEW j \in 1 .. Len(r), i < j, r[j] \notin odd2
             PROVE  evt[r[i]].ts <= evt[r[j]].ts
  BY DEF InTime
<1>3. CASE i = p /\ \E y \in 1 .. Len(l) : y >= p /\ r[j] = l[y]
  <2>1. PICK y \in 1 .. Len(l) : y >= p /\ r[j] = l[y]
    BY <1>3
  <2>2. stored <= old[l[y]].ts
    BY <2>1 DEF Fits
  <2> QED BY <1>1, <1>2, <1>3, <2>1, <2>2
<1>4. CASE j = p /\ \E x \in 1 .. Len(l) : x < p /\ r[i] = l[x]
  <2>1. PICK x \in 1 .. Len(l) : x < p /\ r[i] = l[x]
    BY <1>4
  <2>2. x \in 1 .. p - 1 /\ stored = ts
    BY <1>1, <1>4, <2>1
  <2>3. old[l[x]].ts <= ts
    BY <2>2 DEF Fits
  <2> QED BY <1>1, <1>2, <1>4, <2>1, <2>2, <2>3
<1>5. CASE \E x, y \in 1 .. Len(l) : x < y /\ r[i] = l[x] /\ r[j] = l[y]
  BY <1>2, <1>5 DEF InTime
<1> QED
  BY <1>3, <1>4, <1>5, InsertedPlaces

\* Event x is not behind y in l.
Before(l, x, y) == \A i, j \in 1 .. Len(l) : l[i] = x /\ l[j] = y => i <= j

LEMMA InsertedBefore ==
  ASSUME NEW l \in Seq(Ids), NEW p, NEW e \in Ids, NEW r, Inserted(l, p, e, r),
         NEW x, NEW y, x # e, y # e, Before(l, x, y)
  PROVE  Before(r, x, y)
<1>1. r[p] = e
  BY InsertedElements DEF Inserted
<1> SUFFICES ASSUME NEW i \in 1 .. Len(r), NEW j \in 1 .. Len(r), r[i] = x, r[j] = y, j < i
             PROVE  FALSE
  <2>1. \A i, j \in 1 .. Len(r) : ~(j < i) => i <= j
    OBVIOUS
  <2> QED BY <2>1 DEF Before
<1>2. PICK u, v \in 1 .. Len(l) : u < v /\ r[j] = l[u] /\ r[i] = l[v]
  BY <1>1, InsertedPlaces
<1>3. v <= u
  BY <1>2 DEF Before
<1> QED
  BY <1>2, <1>3

\* r has e, and all that l has in its order.
Grown(l, e, r) ==
  /\ r \in Seq(Ids) /\ IsInjective(r) /\ ToSet(r) = ToSet(l) \cup {e} /\ r # <<>>
  /\ Len(r) = Len(l) + 1
  /\ \A x, y : x # e /\ y # e /\ Before(l, x, y) => Before(r, x, y)

\* The timestamps of evt are numbers, and those of l's events are as in old.
Timed(evt) == \A i \in Ids : evt[i].ts \in Nat
SameTimes(l, evt, old) == \A x \in ToSet(l) : evt[x].ts = old[x].ts

LEMMA InsertedFacts ==
  ASSUME NEW l \in Seq(Ids), NEW p, NEW e \in Ids, NEW r, Inserted(l, p, e, r),
         IsInjective(l), e \notin ToSet(l)
  PROVE  Grown(l, e, r)
<1>1. r \in Seq(Ids) /\ Len(r) = Len(l) + 1
  BY DEF Inserted
<1>2. ToSet(r) = ToSet(l) \cup {e} /\ r # <<>>
  BY InsertedElements
<1>3. IsInjective(r)
  BY InsertedInjective
<1>4. ASSUME NEW x, NEW y, x # e, y # e, Before(l, x, y) PROVE Before(r, x, y)
  BY <1>4, InsertedBefore
<1> QED
  BY <1>1, <1>2, <1>3, <1>4 DEF Grown

LEMMA Placed ==
  ASSUME NEW l \in Seq(Ids), IsInjective(l), NEW e \in Ids, e \notin ToSet(l),
         NEW ts \in Nat, NEW stored \in Nat, stored <= ts, NEW old, NEW evt,
         Timed(old), SameTimes(l, evt, old), evt[e].ts = stored,
         NEW odd, NEW odd2, InTime(l, old, odd), odd \subseteq odd2,
         stored # ts => e \in odd2
  PROVE  /\ Grown(l, e, Place(l, ts, stored, e, old))
         /\ InTime(Place(l, ts, stored, e, old), evt, odd2)
<1> DEFINE r == Place(l, ts, stored, e, old)
<1>1. PICK p \in 1 .. Len(l) + 1 :
        Inserted(l, p, e, r) /\ Fits(l, p, ts, stored, old, odd)
  BY PlaceInserts DEF Timed
<1> HIDE DEF r
<1>2. Grown(l, e, r)
  BY <1>1, InsertedFacts
<1>3. InTime(r, evt, odd2)
  <2>1. \A x \in ToSet(l) : evt[x].ts = old[x].ts /\ old[x].ts \in Nat
    BY DEF ToSet, Timed, SameTimes
  <2> QED BY <1>1, <2>1, InsertedInTime
<1> QED
  BY <1>2, <1>3 DEF r

LEMMA QuantizeNat == ASSUME NEW t \in Nat PROVE Quantize(t) \in Nat
<1>1. t \div Step \in Nat /\ Step \in Nat
  BY LoopNat
<1>2. (t \div Step) * Step \in Nat
  BY <1>1
<1> QED
  BY <1>1, <1>2 DEF Quantize

-----------------------------------------------------------------------------
(* The list.                                                               *)

Event == [ts : Nat, note : Notes \cup {Blank.note}, on : BOOLEAN, peer : Nat]

TypeInv ==
  /\ event \in [Ids -> Event] /\ used \in 0 .. MaxEvents /\ tick \in 0 .. Loop - 1
  /\ amount \in [0 .. Steps -> Nat]
  /\ late \in SUBSET Ids /\ kept \in BOOLEAN /\ plays \in [Ids -> Nat]
  /\ list \in Seq(Ids) /\ \A x \in Listed : x <= used

ListInv ==
  /\ IsInjective(list)
  /\ current \in Listed \cup {NULL} /\ (current = NULL <=> list = <<>>)
  /\ InTime(list, event, late)

\* A list of one event is a note on that has no note off yet.
Sole == Len(list) = 1 => event[list[1]].on /\ event[list[1]].peer = NULL

LEMMA BlankEvent == Blank \in Event
BY DEF Blank, Event, NULL

LEMMA MatchFacts ==
  ASSUME TypeInv, Sole, NEW n PROVE
    FindMatching(n) # NULL =>
      /\ FindMatching(n) \in Listed
      /\ event[FindMatching(n)].on /\ event[FindMatching(n)].peer = NULL
<1> DEFINE N == Len(list)
           i == SelectInSeq(list, LAMBDA x : x = current)
           back == [k \in 1 .. N |-> list[((i + N - k) % N) + 1]]
           S == {j \in 1 .. Len(back) : event[back[j]].on /\ event[back[j]].note = n
                                        /\ event[back[j]].peer = NULL}
           k == IF S # {} THEN Min(S) ELSE 0
<1>1. list \in Seq(Ids) /\ N \in Nat /\ \A j \in 1 .. N : list[j] \in Listed
  BY DEF TypeInv, ToSet, Listed
<1>2. FindMatching(n) = CASE N = 0 -> NULL
                          [] N = 1 -> list[1]
                          [] N > 1 /\ k # 0 -> back[k]
                          [] OTHER -> NULL
  BY DEF FindMatching, SelectInSeq
<1>3. i \in Nat
  <2> DEFINE I == {j \in 1 .. Len(list) : list[j] = current}
  <2>1. I \in SUBSET Nat
    OBVIOUS
  <2>2. i = IF I # {} THEN Min(I) ELSE 0
    BY DEF SelectInSeq
  <2> HIDE DEF I, i
  <2> QED BY <2>1, <2>2, MinNat
<1>4. CASE N = 1
  BY <1>1, <1>2, <1>4 DEF Sole
<1>5. CASE N > 1 /\ k # 0
  <2>1. S # {}
    BY <1>5
  <2>2. S \in SUBSET Nat
    <3>1. \A j \in S : j \in Nat
      BY <1>1
    <3> QED BY <3>1
  <2>3. k \in S
    <3> HIDE DEF S
    <3> QED BY <2>1, <2>2, MinNat
  <2> HIDE DEF i, k
  <2>4. back \in Seq(Ids) /\ Len(back) = N
    <3>1. \A j \in 1 .. N : (i + N - j) % N \in 0 .. N - 1
      <4>1. ASSUME NEW j \in 1 .. N PROVE (i + N - j) % N \in 0 .. N - 1
        <5>1. i + N - j \in Nat /\ N > 0
          BY <1>1, <1>3
        <5> HIDE DEF N
        <5> QED BY <1>1, <5>1
      <4> QED BY <4>1
    <3>2. back \in [1 .. N -> Ids]
      <4>1. \A j \in 1 .. N : ((i + N - j) % N) + 1 \in 1 .. N
        BY <1>1, <3>1
      <4>2. \A j \in 1 .. N : list[j] \in Ids
        BY <1>1
      <4> QED BY <4>1, <4>2
    <3> HIDE DEF back, N
    <3> QED BY <1>1, <3>2
  <2>5. k \in 1 .. N
    BY <2>3, <2>4
  <2>6. back[k] = list[((i + N - k) % N) + 1]
    BY <2>5
  <2>7. ((i + N - k) % N) + 1 \in 1 .. N
    <3>1. i + N - k \in Nat /\ N > 0
      BY <1>1, <1>3, <2>5
    <3> HIDE DEF N
    <3>2. (i + N - k) % N \in 0 .. N - 1
      BY <1>1, <3>1
    <3> QED BY <1>1, <3>1, <3>2
  <2>8. back[k] \in Listed
    BY <1>1, <2>6, <2>7
  <2>9. event[back[k]].on /\ event[back[k]].peer = NULL
    BY <2>3
  <2>10. FindMatching(n) = back[k]
    <3>1. N # 0 /\ N # 1
      BY <1>1, <1>5
    <3> HIDE DEF N, back
    <3> QED BY <1>2, <1>5, <3>1
  <2> QED BY <2>8, <2>9, <2>10
<1>6. CASE N # 1 /\ ~(N > 1 /\ k # 0)
  BY <1>2, <1>6
<1> QED
  BY <1>4, <1>5, <1>6

\* The list has got the nodes in new as well, the other events in the same order.
Extended(new) ==
  /\ list' \in Seq(Ids) /\ IsInjective(list') /\ list' # <<>>
  /\ Listed' = Listed \cup new /\ new # {}
  /\ \A x \in new : x \in Ids /\ used < x /\ x <= used'
  /\ used' \in 0 .. MaxEvents /\ used <= used'
  /\ event' \in [Ids -> Event]
  /\ \A x \in Listed : event'[x].ts = event[x].ts /\ event'[x].on = event[x].on
  /\ late' \in SUBSET Ids /\ late \subseteq late'
  /\ InTime(list', event', late')
  /\ \A x, y \in Listed : Before(list, x, y) => Before(list', x, y)
  /\ IF list = <<>> THEN current' \in new ELSE current' = current
  /\ UNCHANGED <<passVars, tick, playing>>

LEMMA FreeNode ==
  ASSUME TypeInv, used < MaxEvents
  PROVE  /\ used + 1 \in Ids /\ used + 1 \notin Listed /\ used + 1 # NULL
         /\ used \in Nat /\ MaxEvents \in Nat /\ ~(used + 1 <= used)
         /\ used + 1 \in 0 .. MaxEvents
         /\ \A x \in Listed : x \in Ids /\ x # used + 1 /\ x # used + 2
<1>1. used \in Nat /\ MaxEvents \in Nat /\ used + 1 <= MaxEvents
  BY EventSeqAssumption DEF TypeInv, EventSeqAssumption
<1>2. used + 1 \in Ids /\ used + 1 # NULL /\ ~(used + 1 <= used) /\ ~(used + 2 <= used)
      /\ used + 1 \in 0 .. MaxEvents
  BY <1>1 DEF Ids, NULL
<1>3. \A x \in Listed : x \in Ids /\ x <= used
  BY DEF TypeInv, ToSet, Listed
<1> QED
  BY <1>1, <1>2, <1>3

\* A note on recorded.
LEMMA NoteOnExtends ==
  ASSUME TypeInv, ListInv, NEW n \in Notes, NoteOn(n)
  PROVE  /\ Extended({used + 1}) /\ Len(list') = Len(list) + 1
         /\ event' = [event EXCEPT ![used + 1] = [ts |-> Quantize(tick), note |-> n,
                                                  on |-> TRUE, peer |-> NULL]]
         /\ Quantize(tick) \in Nat
<1> DEFINE e == used + 1
           ts == Quantize(tick)
           evt == [event EXCEPT ![e] = [ts |-> ts, note |-> n, on |-> TRUE, peer |-> NULL]]
<1>1. /\ used < MaxEvents /\ event' = evt /\ list' = Place(list, ts, ts, e, event)
      /\ current' = (IF list = <<>> THEN e ELSE current) /\ used' = e
      /\ UNCHANGED <<late, passVars, tick, playing, recording>>
  BY DEF NoteOn
<1>2. e \in Ids /\ e \notin Listed /\ used \in Nat /\ \A x \in Listed : x \in Ids /\ x # e
  BY <1>1, FreeNode
<1>3. ts \in Nat
  <2>1. tick \in Nat
    BY LoopNat DEF TypeInv
  <2> QED BY <2>1, QuantizeNat
<1> HIDE DEF ts
<1>4. event \in [Ids -> Event] /\ \A i \in Ids : event[i].ts \in Nat
  BY DEF TypeInv, Event
<1>5. [ts |-> ts, note |-> n, on |-> TRUE, peer |-> NULL] \in Event
  BY <1>3 DEF Event, NULL
<1>6. evt \in [Ids -> Event] /\ evt[e].ts = ts /\ \A x \in Listed : evt[x] = event[x]
  BY <1>2, <1>4, <1>5
<1> HIDE DEF e, evt
<1>7. /\ Grown(list, e, Place(list, ts, ts, e, event))
      /\ InTime(Place(list, ts, ts, e, event), evt, late)
  <2>1. list \in Seq(Ids) /\ IsInjective(list) /\ e \notin ToSet(list)
        /\ SameTimes(list, evt, event) /\ Timed(event) /\ InTime(list, event, late)
    BY <1>2, <1>4, <1>6 DEF TypeInv, ListInv, Listed, SameTimes, Timed
  <2>2. ts <= ts /\ late \subseteq late
    BY <1>3
  <2> QED BY <1>2, <1>3, <1>6, <2>1, <2>2, Placed
<1>8. /\ list' \in Seq(Ids) /\ IsInjective(list') /\ list' # <<>> /\ Listed' = Listed \cup {e}
      /\ Len(list') = Len(list) + 1
      /\ InTime(list', event', late')
      /\ \A x, y : x # e /\ y # e /\ Before(list, x, y) => Before(list', x, y)
  BY <1>1, <1>7 DEF Listed, Grown
<1>9. /\ \A x \in {e} : x \in Ids /\ used < x /\ x <= used'
      /\ used' \in 0 .. MaxEvents /\ used <= used'
  BY <1>1, <1>2, FreeNode DEF e
<1>10. late' \in SUBSET Ids /\ late \subseteq late'
  BY <1>1 DEF TypeInv
<1>11. Extended({e})
  BY <1>1, <1>2, <1>6, <1>8, <1>9, <1>10 DEF Extended
<1> QED
  BY <1>1, <1>3, <1>8, <1>11 DEF e, evt, ts

LEMMA ModLoop ==
  ASSUME NEW t \in Nat PROVE t % Loop \in Nat /\ t % Loop <= t /\ (t < Loop => t % Loop = t)
<1>1. Loop \in Nat /\ Loop > 0
  BY LoopNat
<1> HIDE DEF Loop
<1> QED
  BY <1>1

\* A note off recorded.
LEMMA NoteOffExtends ==
  ASSUME TypeInv, ListInv, Sole, NEW n \in Notes, NoteOff(n), FindMatching(n) # NULL
  PROVE  /\ Extended({used + 1}) /\ Len(list') = Len(list) + 1
         /\ \E ts \in Nat :
              /\ event' = [event EXCEPT ![used + 1] = [ts |-> ts, note |-> n, on |-> FALSE,
                                                       peer |-> FindMatching(n)],
                                        ![FindMatching(n)].peer = used + 1]
              /\ late' = {} => ts # event[FindMatching(n)].ts
<1> DEFINE e == used + 1
           m == FindMatching(n)
           q == Quantize(tick)
           ts == IF q = event[m].ts THEN event[m].ts + Step - 1 ELSE q
           new == [ts |-> ts % Loop, note |-> n, on |-> FALSE, peer |-> m]
           evt == [event EXCEPT ![e] = new, ![m].peer = e]
<1>1. /\ used < MaxEvents /\ used' = e /\ event' = evt
      /\ list' = Place(list, ts, ts % Loop, e, event)
      /\ late' = IF ts >= Loop THEN late \cup {e} ELSE late
      /\ UNCHANGED <<current, amount, passVars, tick, playing, recording>>
  BY DEF NoteOff
<1>2. e \in Ids /\ e \notin Listed /\ used \in Nat /\ \A x \in Listed : x \in Ids /\ x # e
  BY <1>1, FreeNode
<1>3. m \in Listed /\ event[m].on /\ event[m].peer = NULL
  BY MatchFacts
<1> HIDE DEF m
<1>4. event \in [Ids -> Event] /\ \A i \in Ids : event[i].ts \in Nat
  BY DEF TypeInv, Event
<1>5. m \in Ids /\ m # e /\ event[m].ts \in Nat /\ m \in Nat
  BY <1>2, <1>3, <1>4, EventSeqAssumption DEF Ids, EventSeqAssumption
<1>6. ts \in Nat /\ ts # event[m].ts
  <2>1. tick \in Nat
    BY LoopNat DEF TypeInv
  <2>2. q \in Nat
    BY <2>1, QuantizeNat
  <2> HIDE DEF q
  <2> QED BY <1>5, <2>2, LoopNat
<1> HIDE DEF q, ts
<1>7. ts % Loop \in Nat /\ ts % Loop <= ts /\ (ts < Loop => ts % Loop = ts)
  BY <1>6, ModLoop
<1>8. new \in Event
  BY <1>5, <1>7 DEF Event
<1>9. /\ evt \in [Ids -> Event] /\ evt[e].ts = ts % Loop
      /\ \A x \in Listed : evt[x].ts = event[x].ts /\ evt[x].on = event[x].on
  <2>1. [event[m] EXCEPT !.peer = e] \in Event
    BY <1>2, <1>4, <1>5 DEF Event, Ids
  <2>2. evt = [[event EXCEPT ![e] = new] EXCEPT ![m] = [event[m] EXCEPT !.peer = e]]
    BY <1>2, <1>4, <1>5
  <2>3. evt \in [Ids -> Event]
    BY <1>4, <1>8, <2>1, <2>2
  <2>4. evt[e] = new /\ evt[m] = [event[m] EXCEPT !.peer = e]
        /\ \A x \in Ids : x # e /\ x # m => evt[x] = event[x]
    BY <1>2, <1>4, <1>5, <2>2
  <2>5. evt[m].ts = event[m].ts /\ evt[m].on = event[m].on
    BY <1>4, <1>5, <2>4 DEF Event
  <2>6. evt[e].ts = ts % Loop
    BY <2>4
  <2>7. ASSUME NEW x \in Listed PROVE evt[x].ts = event[x].ts /\ evt[x].on = event[x].on
    <3>1. x \in Ids /\ x # e
      BY <1>2
    <3> HIDE DEF evt, e
    <3> QED BY <2>4, <2>5, <3>1
  <2> QED BY <2>3, <2>6, <2>7
<1>11. ts < Loop \/ (ts >= Loop /\ ~(ts < Loop))
  BY <1>6, LoopNat
<1>10. /\ Grown(list, e, Place(list, ts, ts % Loop, e, event))
       /\ InTime(Place(list, ts, ts % Loop, e, event), evt, late')
  <2> HIDE DEF e, evt
  <2>1. list \in Seq(Ids) /\ IsInjective(list) /\ e \notin ToSet(list)
        /\ SameTimes(list, evt, event) /\ Timed(event) /\ InTime(list, event, late)
    BY <1>2, <1>4, <1>9 DEF TypeInv, ListInv, Listed, SameTimes, Timed
  <2>2. late \subseteq late'
    BY <1>1
  <2>3. ts % Loop # ts => e \in late'
    BY <1>1, <1>7, <1>11
  <2> QED BY <1>2, <1>6, <1>7, <1>9, <2>1, <2>2, <2>3, Placed
<1>12. /\ list' \in Seq(Ids) /\ IsInjective(list') /\ list' # <<>> /\ Listed' = Listed \cup {e}
       /\ Len(list') = Len(list) + 1
       /\ InTime(list', event', late')
       /\ \A x, y : x # e /\ y # e /\ Before(list, x, y) => Before(list', x, y)
  BY <1>1, <1>10 DEF Listed, Grown
<1>13. /\ \A x \in {e} : x \in Ids /\ used < x /\ x <= used'
       /\ used' \in 0 .. MaxEvents /\ used <= used'
  BY <1>1, <1>2, FreeNode DEF e
<1>14. late' \in SUBSET Ids /\ late \subseteq late'
  BY <1>1, <1>2 DEF TypeInv
<1>15. list # <<>>
  BY <1>3 DEF Listed, ToSet
<1>16. Extended({e})
  <2> HIDE DEF e, evt
  <2> QED BY <1>1, <1>2, <1>9, <1>12, <1>13, <1>14, <1>15 DEF Extended
<1>17. late' = {} => ts % Loop # event[m].ts
  <2>1. ts >= Loop => e \in late'
    BY <1>1
  <2> QED BY <1>6, <1>7, <1>11, <2>1
<1> QED
  BY <1>1, <1>7, <1>12, <1>16, <1>17 DEF e, evt, m

\* A note on and its note off, stepped in.
LEMMA StepInsertExtends ==
  ASSUME TypeInv, ListInv, NEW step \in 0 .. Steps - 1, NEW n \in Notes, StepInsert(step, n),
         used + 1 # MaxEvents
  PROVE  /\ Extended({used + 1, used + 2}) /\ Len(list') >= 2
         /\ step * Step \in Nat
         /\ \E off \in Nat :
              event' = [event EXCEPT ![used + 1] = [ts |-> step * Step, note |-> n,
                                                    on |-> TRUE, peer |-> NULL],
                                     ![used + 2] = [ts |-> off, note |-> n,
                                                    on |-> FALSE, peer |-> NULL]]
<1> DEFINE on == used + 1
           off == used + 2
           ts == step * Step
           stored == (ts + Step) % Loop
           evt == [event EXCEPT
                    ![on] = [ts |-> ts, note |-> n, on |-> TRUE, peer |-> NULL],
                    ![off] = [ts |-> stored, note |-> n, on |-> FALSE, peer |-> NULL]]
           first == Place(list, ts, ts, on, evt)
           second == Place(first, ts + Step, stored, off, evt)
<1>1. /\ used < MaxEvents /\ used' = used + 2 /\ event' = evt /\ list' = second
      /\ current' = (IF list = <<>> THEN on ELSE current)
      /\ late' = IF ts + Step >= Loop THEN late \cup {off} ELSE late
      /\ UNCHANGED <<passVars, tick, playing, recording>>
  BY DEF StepInsert
<1>2. /\ on \in Ids /\ off \in Ids /\ on # off /\ on \notin Listed /\ off \notin Listed
      /\ used \in Nat /\ used + 2 \in 0 .. MaxEvents /\ used <= used + 2
      /\ used < on /\ on <= used + 2 /\ used < off
      /\ \A x \in Listed : x \in Ids /\ x # on /\ x # off
  <2>1. used \in Nat /\ MaxEvents \in Nat /\ used + 1 < MaxEvents
    BY <1>1, FreeNode
  <2>2. \A x \in Listed : x \in Ids /\ x # on /\ x # off
    BY <1>1, FreeNode
  <2> QED BY <2>1, <2>2 DEF Ids
<1>3. ts \in Nat /\ ts + Step \in Nat
  <2>1. step \in Nat /\ Step \in Nat
    BY LoopNat
  <2>2. step * Step \in Nat
    BY <2>1
  <2> QED BY <2>1, <2>2
<1>4. stored \in Nat /\ stored <= ts + Step /\ (ts + Step < Loop => stored = ts + Step)
  BY <1>3, ModLoop
<1> HIDE DEF ts, stored
<1>5. event \in [Ids -> Event]
  BY DEF TypeInv
<1>6. /\ [ts |-> ts, note |-> n, on |-> TRUE, peer |-> NULL] \in Event
      /\ [ts |-> stored, note |-> n, on |-> FALSE, peer |-> NULL] \in Event
  BY <1>3, <1>4 DEF Event, NULL
<1>7. /\ evt \in [Ids -> Event] /\ evt[on].ts = ts /\ evt[off].ts = stored
      /\ \A x \in Listed : evt[x] = event[x]
  BY <1>2, <1>5, <1>6
<1> HIDE DEF evt
<1>8. Timed(evt)
  BY <1>7 DEF Timed, Event
<1>9. /\ list \in Seq(Ids) /\ IsInjective(list)
      /\ InTime(list, evt, late)
  <2>1. \A i \in 1 .. Len(list) : list[i] \in Listed
    BY DEF TypeInv, ToSet, Listed
  <2> QED BY <1>7, <2>1 DEF TypeInv, ListInv, InTime
<1> HIDE DEF on, off
<1>10. Grown(list, on, first) /\ InTime(first, evt, late)
  <2>1. on \notin ToSet(list) /\ SameTimes(list, evt, evt) /\ late \subseteq late
    BY <1>2 DEF Listed, SameTimes
  <2>2. ts <= ts
    BY <1>3
  <2> QED BY <1>2, <1>3, <1>7, <1>8, <1>9, <2>1, <2>2, Placed
<1> HIDE DEF first
<1>11. /\ Grown(first, off, second)
       /\ InTime(second, evt, late')
  <2>1. first \in Seq(Ids) /\ IsInjective(first) /\ ToSet(first) = Listed \cup {on}
    BY <1>10 DEF Grown, Listed
  <2>2. off \notin ToSet(first) /\ SameTimes(first, evt, evt)
    BY <1>2, <2>1 DEF SameTimes
  <2>3. late \subseteq late'
    BY <1>1
  <2>4. stored # ts + Step => off \in late'
    <3>1. ts + Step < Loop \/ ts + Step >= Loop
      BY <1>3, LoopNat
    <3> QED BY <1>1, <1>4, <3>1
  <2> QED BY <1>2, <1>3, <1>4, <1>7, <1>8, <1>10, <2>1, <2>2, <2>3, <2>4, Placed
<1> HIDE DEF second
<1>14. /\ second \in Seq(Ids) /\ IsInjective(second) /\ second # <<>>
       /\ ToSet(second) = Listed \cup {on, off}
  BY <1>10, <1>11 DEF Grown, Listed
<1>15. Len(second) >= 2
  <2>1. Len(second) = Len(first) + 1 /\ Len(first) = Len(list) + 1 /\ Len(list) \in Nat
    BY <1>9, <1>10, <1>11 DEF Grown
  <2> QED BY <2>1
<1>16. ASSUME NEW x \in Listed, NEW y \in Listed, Before(list, x, y) PROVE Before(second, x, y)
  <2>1. Before(first, x, y)
    BY <1>2, <1>10, <1>16 DEF Grown
  <2> QED BY <1>2, <1>11, <2>1 DEF Grown
<1>17. late' \in SUBSET Ids /\ late \subseteq late'
  BY <1>1, <1>2 DEF TypeInv
<1>18. used' \in 0 .. MaxEvents /\ used <= used' /\ \A x \in {on, off} : x \in Ids /\ used < x /\ x <= used'
  BY <1>1, <1>2 DEF on, off
<1>19. list' = second /\ event' = evt /\ Listed' = ToSet(second)
  BY <1>1 DEF Listed
<1>20. Extended({on, off})
  BY <1>1, <1>7, <1>11, <1>14, <1>16, <1>17, <1>18, <1>19 DEF Extended
<1> QED
  BY <1>3, <1>4, <1>15, <1>19, <1>20 DEF on, off, evt, ts

\* Nothing is done to the list; a node may have been taken and lost.
Kept ==
  /\ UNCHANGED <<list, current, late, amount, passVars, tick>>
  /\ used' \in 0 .. MaxEvents /\ used <= used' /\ event' \in [Ids -> Event]
  /\ \A x \in Listed : event'[x] = event[x]

\* Every step does one of these.
StepKind ==
  \/ \E n \in Notes : NoteOn(n)
  \/ \E n \in Notes : NoteOff(n) /\ FindMatching(n) # NULL
  \/ \E n \in Notes, step \in 0 .. Steps - 1 : StepInsert(step, n) /\ used + 1 # MaxEvents
  \/ Kept \/ Start \/ Tick \/ Erase

LEMMA StepKinds == ASSUME TypeInv, [Next]_vars PROVE StepKind
<1>0. /\ event \in [Ids -> Event] /\ used \in 0 .. MaxEvents /\ used <= used
      /\ MaxEvents \in Nat
  BY EventSeqAssumption DEF TypeInv, EventSeqAssumption
<1>1. CASE UNCHANGED vars \/ Stop \/ RecordToggle
  <2>1. UNCHANGED <<seqVars, passVars, tick>>
    BY <1>1 DEF vars, Stop, RecordToggle
  <2> QED BY <1>0, <2>1 DEF seqVars, Kept, StepKind
<1>2. ASSUME NEW n \in Notes, NoteOff(n), FindMatching(n) = NULL PROVE Kept
  <2>1. /\ used < MaxEvents /\ used' = used + 1
        /\ event' = [event EXCEPT ![used + 1] = [Blank EXCEPT !.note = n]]
        /\ UNCHANGED <<list, current, late, amount, passVars, tick>>
    BY <1>2 DEF NoteOff
  <2>2. [Blank EXCEPT !.note = n] \in Event
    BY BlankEvent DEF Event
  <2>3. event' \in [Ids -> Event] /\ \A x \in Listed : event'[x] = event[x]
    BY <1>0, <2>1, <2>2, FreeNode
  <2>4. used' \in 0 .. MaxEvents /\ used <= used'
    BY <1>0, <2>1
  <2> QED BY <2>1, <2>3, <2>4 DEF Kept
<1>3. ASSUME NEW n \in Notes, NEW step \in 0 .. Steps - 1, StepInsert(step, n),
             used + 1 = MaxEvents
      PROVE  Kept
  <2>1. /\ used' = MaxEvents /\ UNCHANGED <<list, current, event, amount, late, passVars, tick>>
    BY <1>3 DEF StepInsert
  <2>2. used' \in 0 .. MaxEvents /\ used <= used'
    BY <1>0, <2>1
  <2> QED BY <1>0, <2>1, <2>2 DEF Kept
<1> QED
  BY <1>1, <1>2, <1>3 DEF Next, StepKind

\* The events that a tick plays are those of this tick from the current one on.
LEMMA TickFacts ==
  ASSUME TypeInv, ListInv, current # NULL
  PROVE  /\ From \in 1 .. Len(list) /\ list[From] = current
         /\ StopAt \in From .. Len(list) + 1
         /\ \A i \in From .. StopAt - 1 : event[list[i]].ts = tick
         /\ StopAt <= Len(list) => event[list[StopAt]].ts # tick
<1>1. list \in Seq(Ids) /\ Len(list) \in Nat
  BY DEF TypeInv
<1>2. From \in 1 .. Len(list) /\ list[From] = current
  <2> DEFINE I == {i \in 1 .. Len(list) : list[i] = current}
  <2>1. I \in SUBSET Nat /\ From = IF I # {} THEN Min(I) ELSE 0
    BY DEF From, SelectInSeq
  <2>2. current \in Listed /\ Listed = {list[i] : i \in 1 .. Len(list)}
    BY <1>1 DEF ListInv, Listed, ToSet
  <2>3. I # {}
    BY <2>2
  <2>4. From \in I
    <3> HIDE DEF I
    <3> QED BY <2>1, <2>3, MinNat
  <2> QED BY <2>4
<1> DEFINE f == From
           S == {i \in f .. Len(list) : event[list[i]].ts # tick}
           q == IF S # {} THEN Min(S) ELSE 0
<1>3. q = SelectInSubSeq(list, From, Len(list), LAMBDA x : event[x].ts # tick)
  BY DEF SelectInSubSeq
<1>4. StopAt = IF q = 0 THEN Len(list) + 1 ELSE q
  BY <1>3 DEF StopAt
<1> HIDE DEF f
<1>5. f \in 1 .. Len(list) /\ f = From
  BY <1>2 DEF f
<1>6. CASE S # {}
  <2>1. S \in SUBSET Nat
    BY <1>1, <1>5
  <2>2. q \in S /\ \A i \in S : q <= i
    <3> HIDE DEF S
    <3> QED BY <1>6, <2>1, MinNat
  <2> HIDE DEF q
  <2>3. q \in f .. Len(list) /\ q # 0 /\ event[list[q]].ts # tick
    BY <1>5, <2>2
  <2>4. StopAt = q
    BY <1>4, <2>3
  <2>5. ASSUME NEW i \in f .. q - 1 PROVE event[list[i]].ts = tick
    <3>1. i \in f .. Len(list) /\ ~(q <= i)
      BY <1>1, <1>5, <2>3
    <3> QED BY <2>2, <3>1
  <2>6. q \in f .. Len(list) + 1
    BY <1>1, <1>5, <2>3
  <2> QED BY <1>2, <1>5, <2>3, <2>4, <2>5, <2>6
<1>7. CASE S = {}
  <2>1. StopAt = Len(list) + 1
    BY <1>4, <1>7
  <2>2. \A i \in f .. Len(list) : event[list[i]].ts = tick
    BY <1>7
  <2>3. Len(list) + 1 \in f .. Len(list) + 1 /\ Len(list) + 1 - 1 = Len(list)
        /\ ~(Len(list) + 1 <= Len(list))
    BY <1>1, <1>5
  <2> QED BY <1>2, <1>5, <2>1, <2>2, <2>3
<1> QED
  BY <1>6, <1>7

LEMMA HeadListed ==
  ASSUME TypeInv, list # <<>> PROVE Head(list) = list[1] /\ Head(list) \in Listed /\ 1 \in 1 .. Len(list)
<1>1. list \in Seq(Ids) /\ Len(list) \in Nat \ {0}
  BY EmptySeq DEF TypeInv
<1> QED
  BY <1>1 DEF Listed, ToSet

LEMMA NotNull == ASSUME TypeInv PROVE NULL \notin Listed
<1>1. \A x \in Listed : x \in Ids
  BY DEF TypeInv, Listed, ToSet
<1>2. NULL \notin Ids
  BY EventSeqAssumption DEF EventSeqAssumption, Ids, NULL
<1> QED
  BY <1>1, <1>2

LEMMA ListedNat == ASSUME TypeInv PROVE \A x \in Listed : x \in Nat /\ x <= used
<1>1. \A x \in Listed : x <= used
  BY DEF TypeInv
<1>2. \A x \in Listed : x \in Ids
  BY DEF TypeInv, Listed, ToSet
<1>3. \A x \in Ids : x \in Nat
  BY DEF Ids
<1> QED
  BY <1>1, <1>2, <1>3

LEMMA ListInit == Init => TypeInv /\ ListInv /\ Sole
<1> SUFFICES ASSUME Init PROVE TypeInv /\ ListInv /\ Sole
  OBVIOUS
<1>1. /\ list = <<>> /\ current = NULL /\ tick = 0 /\ late = {} /\ kept = TRUE
      /\ event = [i \in Ids |-> Blank] /\ used = 0
      /\ amount = [s \in 0 .. Steps |-> 0] /\ plays = [i \in Ids |-> 0]
  BY DEF Init
<1>2. Listed = {} /\ list \in Seq(Ids) /\ Len(list) = 0 /\ DOMAIN list = {}
  BY <1>1 DEF Listed, ToSet
<1>3. event \in [Ids -> Event]
  BY <1>1, BlankEvent
<1>4. used \in 0 .. MaxEvents
  BY <1>1, EventSeqAssumption DEF EventSeqAssumption
<1>5. tick \in 0 .. Loop - 1
  BY <1>1, LoopNat
<1>6. TypeInv
  BY <1>1, <1>2, <1>3, <1>4, <1>5 DEF TypeInv
<1>7. ListInv
  BY <1>1, <1>2 DEF ListInv, InTime, IsInjective
<1> QED
  BY <1>2, <1>6, <1>7 DEF Sole

LEMMA ChangedNat ==
  ASSUME NEW a \in [0 .. Steps -> Nat], NEW ts \in Nat
  PROVE  Changed(a, ts, TRUE) \in [0 .. Steps -> Nat]
<1>1. \A s \in 0 .. Steps : (a[s] + 1) % AmountMod \in Nat
  BY EventSeqAssumption DEF EventSeqAssumption
<1>2. Changed(a, ts, TRUE) = [a EXCEPT ![ts \div Step] = (a[ts \div Step] + 1) % AmountMod]
  BY DEF Changed
<1>3. CASE ts \div Step \in 0 .. Steps
  BY <1>1, <1>2, <1>3
<1>4. CASE ts \div Step \notin 0 .. Steps
  BY <1>2, <1>4
<1> QED
  BY <1>3, <1>4

\* What an extended list keeps.
LEMMA ExtendedType ==
  ASSUME TypeInv, ListInv, NEW new, Extended(new), amount' \in [0 .. Steps -> Nat]
  PROVE  TypeInv' /\ ListInv'
<1>1. UNCHANGED <<tick, plays, kept>>
  BY DEF Extended, passVars
<1>2. \A x \in Listed' : x <= used'
  <2>1. used \in Nat /\ used' \in Nat /\ used <= used'
    BY EventSeqAssumption DEF TypeInv, Extended, EventSeqAssumption
  <2>2. \A x \in Listed : x \in Nat /\ x <= used
    BY ListedNat
  <2>3. \A x \in Listed : x <= used'
    BY <2>1, <2>2
  <2> QED BY <2>3 DEF Extended
<1>3. TypeInv'
  BY <1>1, <1>2 DEF TypeInv, Extended
<1>4. ListInv'
  <2>1. current' \in Listed' /\ list' # <<>>
    BY NotNull DEF Extended, ListInv
  <2>2. NULL \notin Listed'
    <3>1. \A x \in Listed : x \in Ids
      BY DEF TypeInv, Listed, ToSet
    <3>2. \A x \in Listed' : x \in Ids
      BY <3>1 DEF Extended
    <3> QED BY <3>2 DEF Ids, NULL
  <2>3. current' # NULL
    BY <2>1, <2>2
  <2> QED BY <2>1, <2>3 DEF Extended, ListInv
<1> QED
  BY <1>3, <1>4

LEMMA KeptType == ASSUME TypeInv, ListInv, Kept PROVE TypeInv' /\ ListInv'
<1>1. UNCHANGED <<tick, plays, kept, list, current, late, amount>> /\ Listed' = Listed
  BY DEF Kept, passVars, Listed
<1>2. \A x \in Listed : x <= used'
  <2>1. used \in Nat /\ used' \in Nat /\ used <= used'
    BY EventSeqAssumption DEF TypeInv, Kept, EventSeqAssumption
  <2>2. \A x \in Listed : x \in Nat /\ x <= used
    BY ListedNat
  <2> QED BY <2>1, <2>2
<1>3. TypeInv'
  BY <1>1, <1>2 DEF TypeInv, Kept
<1>4. InTime(list, event, late) => InTime(list', event', late')
  <2>1. \A i \in 1 .. Len(list) : list[i] \in Listed
    BY DEF TypeInv, Listed, ToSet
  <2> QED BY <1>1, <2>1 DEF Kept, InTime
<1> QED
  BY <1>1, <1>3, <1>4 DEF ListInv

LEMMA TickType == ASSUME TypeInv, ListInv, Tick PROVE TypeInv' /\ ListInv'
<1>1. UNCHANGED <<list, event, used, amount, late>> /\ Listed' = Listed
  BY DEF Tick, Listed
<1>2. tick' \in 0 .. Loop - 1
  <2>1. CASE tick + 1 < Loop
    <3>1. tick' = tick + 1
      BY <2>1 DEF Tick
    <3> QED BY <2>1, <3>1, LoopNat DEF TypeInv
  <2>2. CASE ~(tick + 1 < Loop)
    <3>1. tick' = 0
      BY <2>2 DEF Tick
    <3> QED BY <3>1, LoopNat
  <2> QED BY <2>1, <2>2
<1>3. kept' \in BOOLEAN
  BY DEF Tick, TypeInv
<1>4. plays' \in [Ids -> Nat]
  <2>1. Played \in [Ids -> Nat] /\ NoPlays \in [Ids -> Nat]
    BY DEF Played, NoPlays, TypeInv
  <2> QED BY <2>1 DEF Tick
<1>5. current' \in Listed \cup {NULL} /\ (current' = NULL <=> list = <<>>)
  <2>1. list # <<>> => Head(list) \in Listed /\ Head(list) # NULL
    BY HeadListed, NotNull
  <2>2. ~(tick + 1 < Loop) => current' = IF list = <<>> THEN NULL ELSE Head(list)
    BY DEF Tick
  <2>3. tick + 1 < Loop => current' = NextCurrent
    BY DEF Tick
  <2>4. CASE current = NULL
    <3>1. NextCurrent = NULL /\ list = <<>>
      BY <2>4 DEF NextCurrent, ListInv
    <3> QED BY <2>2, <2>3, <3>1
  <2>5. CASE current # NULL
    <3>1. list # <<>>
      BY <2>5 DEF ListInv
    <3>2. NextCurrent \in Listed
      <4>1. StopAt \in From .. Len(list) + 1 /\ From \in 1 .. Len(list)
        BY <2>5, TickFacts
      <4>2. \A i \in 1 .. Len(list) : list[i] \in Listed
        BY DEF TypeInv, Listed, ToSet
      <4>3. CASE StopAt > Len(list)
        BY <2>1, <2>5, <3>1, <4>3 DEF NextCurrent
      <4>4. CASE ~(StopAt > Len(list))
        <5>1. StopAt \in 1 .. Len(list)
          BY <4>1, <4>4 DEF TypeInv
        <5>2. NextCurrent = list[StopAt]
          BY <2>5, <4>4 DEF NextCurrent
        <5> QED BY <4>2, <5>1, <5>2
      <4> QED BY <4>3, <4>4
    <3>3. NextCurrent # NULL
      BY <3>2, NotNull
    <3> QED BY <2>1, <2>2, <2>3, <3>1, <3>2, <3>3
  <2> QED BY <2>4, <2>5
<1>6. TypeInv'
  BY <1>1, <1>2, <1>3, <1>4 DEF TypeInv
<1> QED
  BY <1>1, <1>5, <1>6 DEF ListInv, InTime

LEMMA StartType == ASSUME TypeInv, ListInv, Start PROVE TypeInv' /\ ListInv'
<1>1. /\ UNCHANGED <<list, event, used, amount, late, kept>> /\ Listed' = Listed /\ tick' = 0
      /\ plays' = NoPlays /\ current' = IF list = <<>> THEN NULL ELSE Head(list)
  BY DEF Start, Listed
<1>2. tick' \in 0 .. Loop - 1 /\ plays' \in [Ids -> Nat]
  BY <1>1, LoopNat DEF NoPlays
<1>3. TypeInv'
  BY <1>1, <1>2 DEF TypeInv
<1>4. list # <<>> => Head(list) \in Listed /\ Head(list) # NULL
  BY HeadListed, NotNull
<1> QED
  BY <1>1, <1>3, <1>4 DEF ListInv, InTime

LEMMA EraseType == ASSUME TypeInv, ListInv, Erase PROVE TypeInv' /\ ListInv'
<1>1. /\ list' = <<>> /\ current' = NULL /\ used' = 0 /\ event' = [i \in Ids |-> Blank]
      /\ late' = {} /\ plays' = NoPlays /\ kept' = TRUE /\ tick' = tick
      /\ amount' = IF list = <<>> THEN amount ELSE [s \in DOMAIN amount |-> 0]
  BY DEF Erase
<1>2. Listed' = {} /\ list' \in Seq(Ids) /\ Len(list') = 0 /\ DOMAIN list' = {}
  BY <1>1 DEF Listed, ToSet
<1>3. event' \in [Ids -> Event] /\ plays' \in [Ids -> Nat] /\ used' \in 0 .. MaxEvents
  BY <1>1, BlankEvent, EventSeqAssumption DEF NoPlays, EventSeqAssumption
<1>4. amount' \in [0 .. Steps -> Nat]
  BY <1>1 DEF TypeInv
<1>5. TypeInv'
  BY <1>1, <1>2, <1>3, <1>4 DEF TypeInv
<1> QED
  BY <1>1, <1>2, <1>5 DEF ListInv, InTime, IsInjective

LEMMA ListStep ==
  ASSUME TypeInv, ListInv, Sole, [Next]_vars PROVE TypeInv' /\ ListInv'
<1>0. amount \in [0 .. Steps -> Nat]
  BY DEF TypeInv
<1>1. ASSUME NEW n \in Notes, NoteOn(n) PROVE TypeInv' /\ ListInv'
  <2>1. Extended({used + 1}) /\ Quantize(tick) \in Nat
    BY <1>1, NoteOnExtends
  <2>2. amount' = Changed(amount, Quantize(tick), TRUE)
    BY <1>1 DEF NoteOn
  <2>3. amount' \in [0 .. Steps -> Nat]
    BY <1>0, <2>1, <2>2, ChangedNat
  <2> QED BY <2>1, <2>3, ExtendedType
<1>2. ASSUME NEW n \in Notes, NoteOff(n), FindMatching(n) # NULL PROVE TypeInv' /\ ListInv'
  <2>1. Extended({used + 1})
    BY <1>2, NoteOffExtends
  <2>2. amount' \in [0 .. Steps -> Nat]
    BY <1>0, <1>2 DEF NoteOff
  <2> QED BY <2>1, <2>2, ExtendedType
<1>3. ASSUME NEW n \in Notes, NEW step \in 0 .. Steps - 1, StepInsert(step, n),
             used + 1 # MaxEvents
      PROVE  TypeInv' /\ ListInv'
  <2>1. Extended({used + 1, used + 2}) /\ step * Step \in Nat
    BY <1>3, StepInsertExtends
  <2>2. amount' = Changed(amount, step * Step, TRUE)
    BY <1>3 DEF StepInsert
  <2>3. amount' \in [0 .. Steps -> Nat]
    BY <1>0, <2>1, <2>2, ChangedNat
  <2> QED BY <2>1, <2>3, ExtendedType
<1> QED
  BY <1>1, <1>2, <1>3, KeptType, TickType, StartType, EraseType, StepKinds DEF StepKind

-----------------------------------------------------------------------------
(* Notes and their peers.                                                  *)

\* Events without a peer may be added, and the others left as they are.
Unpaired(new) ==
  /\ Listed' = Listed \cup new /\ late \subseteq late'
  /\ \A x \in Listed : event'[x] = event[x]
  /\ \A x \in new : event'[x].peer = NULL

LEMMA PairsKept == ASSUME Paired, NEW new, Unpaired(new) PROVE Paired'
<1> SUFFICES ASSUME NEW x \in Listed', event'[x].peer # NULL
             PROVE  /\ event'[x].peer \in Listed' /\ event'[event'[x].peer].peer = x
                    /\ event'[event'[x].peer].on # event'[x].on
                    /\ late' = {} => event'[event'[x].peer].ts # event'[x].ts
  BY DEF Paired
<1>1. x \in Listed /\ event'[x] = event[x]
  BY DEF Unpaired
<1>2. /\ event[x].peer \in Listed /\ event[event[x].peer].peer = x
      /\ event[event[x].peer].on # event[x].on
      /\ late = {} => event[event[x].peer].ts # event[x].ts
  BY <1>1 DEF Paired
<1>3. event'[event[x].peer] = event[event[x].peer]
  BY <1>2 DEF Unpaired
<1> QED
  BY <1>1, <1>2, <1>3 DEF Unpaired

\* The note off gets the note on that had none as its peer.
LEMMA PairsNoteOff ==
  ASSUME TypeInv, ListInv, Sole, Paired, NEW n \in Notes, NoteOff(n), FindMatching(n) # NULL
  PROVE  Paired'
<1> DEFINE e == used + 1
           m == FindMatching(n)
<1>1. PICK ts \in Nat :
        /\ event' = [event EXCEPT ![e] = [ts |-> ts, note |-> n, on |-> FALSE, peer |-> m],
                                  ![m].peer = e]
        /\ late' = {} => ts # event[m].ts
  BY NoteOffExtends
<1>2. Listed' = Listed \cup {e} /\ late \subseteq late' /\ used < MaxEvents
  BY NoteOffExtends DEF Extended, NoteOff
<1>3. e \in Ids /\ e \notin Listed /\ e # NULL /\ \A x \in Listed : x \in Ids /\ x # e
  BY <1>2, FreeNode
<1>4. m \in Listed /\ event[m].on /\ event[m].peer = NULL /\ m # NULL
  BY MatchFacts
<1> HIDE DEF e, m
<1>5. event \in [Ids -> Event] /\ m \in Ids /\ m # e /\ event[m] \in Event
  BY <1>3, <1>4 DEF TypeInv
<1>6. /\ event'[e] = [ts |-> ts, note |-> n, on |-> FALSE, peer |-> m]
      /\ event'[m] = [event[m] EXCEPT !.peer = e]
      /\ \A x \in Listed : x # m => event'[x] = event[x]
  BY <1>1, <1>3, <1>5
<1>7. /\ event'[m].peer = e /\ event'[m].on = TRUE /\ event'[m].ts = event[m].ts
      /\ event'[e].peer = m /\ event'[e].on = FALSE /\ event'[e].ts = ts
  BY <1>4, <1>5, <1>6 DEF Event
<1> SUFFICES ASSUME NEW x \in Listed', event'[x].peer # NULL
             PROVE  /\ event'[x].peer \in Listed' /\ event'[event'[x].peer].peer = x
                    /\ event'[event'[x].peer].on # event'[x].on
                    /\ late' = {} => event'[event'[x].peer].ts # event'[x].ts
  BY DEF Paired
<1>8. CASE x = e
  <2>1. event'[x].peer = m /\ m \in Listed' /\ event'[m].peer = x
    BY <1>2, <1>4, <1>7, <1>8
  <2>2. event'[m].on # event'[x].on
    BY <1>7, <1>8
  <2>3. late' = {} => event'[m].ts # event'[x].ts
    BY <1>1, <1>7, <1>8
  <2> QED BY <2>1, <2>2, <2>3
<1>9. CASE x = m
  <2>1. event'[x].peer = e /\ e \in Listed' /\ event'[e].peer = x
    BY <1>2, <1>7, <1>9
  <2>2. event'[e].on # event'[x].on
    BY <1>7, <1>9
  <2>3. late' = {} => event'[e].ts # event'[x].ts
    BY <1>1, <1>7, <1>9
  <2> QED BY <2>1, <2>2, <2>3
<1>10. CASE x # e /\ x # m
  <2>1. x \in Listed /\ event'[x] = event[x] /\ x # NULL
    BY <1>2, <1>6, <1>10, NotNull
  <2>2. /\ event[x].peer \in Listed /\ event[event[x].peer].peer = x
        /\ event[event[x].peer].on # event[x].on
        /\ late = {} => event[event[x].peer].ts # event[x].ts
    BY <2>1 DEF Paired
  <2>3. event[x].peer # m
    BY <1>4, <2>1, <2>2
  <2>4. event'[event[x].peer] = event[event[x].peer]
    BY <1>6, <2>2, <2>3
  <2> QED BY <1>2, <2>1, <2>2, <2>4
<1> QED
  BY <1>8, <1>9, <1>10

LEMMA PairStep ==
  ASSUME TypeInv, ListInv, Sole, Paired, [Next]_vars PROVE Sole' /\ Paired'
<1>0. list \in Seq(Ids) /\ Len(list) \in Nat /\ event \in [Ids -> Event]
  BY DEF TypeInv
<1>1. ASSUME NEW n \in Notes, NoteOn(n) PROVE Sole' /\ Paired'
  <2>0. Len(list') = Len(list) + 1
    BY <1>1, NoteOnExtends
  <2>1. Extended({used + 1})
    BY <1>1, NoteOnExtends
  <2>2. event' = [event EXCEPT ![used + 1] = [ts |-> Quantize(tick), note |-> n,
                                              on |-> TRUE, peer |-> NULL]]
    BY <1>1, NoteOnExtends
  <2>3. used + 1 \in Ids /\ \A x \in Listed : x \in Ids /\ x # used + 1
    BY <1>1, FreeNode DEF NoteOn
  <2>4. /\ \A x \in Listed : event'[x] = event[x]
        /\ event'[used + 1].peer = NULL /\ event'[used + 1].on = TRUE
    BY <1>0, <2>2, <2>3
  <2>5. Listed' = Listed \cup {used + 1} /\ late \subseteq late'
    BY <2>1 DEF Extended
  <2>6. Paired'
    <3>1. Unpaired({used + 1})
      BY <2>4, <2>5 DEF Unpaired
    <3> QED BY <3>1, PairsKept
  <2>7. Sole'
    <3>1. SUFFICES ASSUME Len(list') = 1 PROVE event'[list'[1]].on /\ event'[list'[1]].peer = NULL
      BY DEF Sole
    <3>2. Listed = {}
      <4>1. Len(list) = 0
        <5>1. PICK k \in Nat : k = Len(list)
          BY <1>0
        <5>2. k + 1 = 1
          BY <2>0, <3>1, <5>1
        <5> QED BY <5>1, <5>2
      <4>2. DOMAIN list = {}
        BY <1>0, <4>1
      <4> QED BY <4>2 DEF Listed, ToSet
    <3>3. list'[1] \in Listed'
      <4>1. list' \in Seq(Ids)
        BY <2>1 DEF Extended
      <4> QED BY <3>1, <4>1 DEF Listed, ToSet
    <3> QED BY <2>4, <2>5, <3>2, <3>3
  <2> QED BY <2>6, <2>7
<1>2. ASSUME NEW n \in Notes, NoteOff(n), FindMatching(n) # NULL PROVE Sole' /\ Paired'
  <2>1. Len(list') = Len(list) + 1
    BY <1>2, NoteOffExtends
  <2>2. Len(list) # 0
    BY <1>0, <1>2, MatchFacts DEF Listed, ToSet
  <2>3. Sole'
    <3>1. PICK k \in Nat : k = Len(list)
      BY <1>0
    <3>2. Len(list') = k + 1 /\ k # 0
      BY <2>1, <2>2, <3>1
    <3>3. Len(list') # 1
      BY <3>2
    <3> QED BY <3>3 DEF Sole
  <2> QED BY <1>2, <2>3, PairsNoteOff
<1>3. ASSUME NEW n \in Notes, NEW step \in 0 .. Steps - 1, StepInsert(step, n),
             used + 1 # MaxEvents
      PROVE  Sole' /\ Paired'
  <2>0. Len(list') >= 2
    BY <1>3, StepInsertExtends
  <2>1. Extended({used + 1, used + 2})
    BY <1>3, StepInsertExtends
  <2>2. PICK off \in Nat :
          event' = [event EXCEPT ![used + 1] = [ts |-> step * Step, note |-> n,
                                                on |-> TRUE, peer |-> NULL],
                                 ![used + 2] = [ts |-> off, note |-> n,
                                                on |-> FALSE, peer |-> NULL]]
    BY <1>3, StepInsertExtends
  <2>3. /\ \A x \in Listed : x \in Ids /\ x # used + 1 /\ x # used + 2
        /\ used \in Nat
    BY <1>3, FreeNode DEF StepInsert
  <2>4. used + 1 \in Ids /\ used + 2 \in Ids /\ used + 1 # used + 2
    BY <2>1, <2>3 DEF Extended
  <2>5. /\ \A x \in Listed : event'[x] = event[x]
        /\ \A x \in {used + 1, used + 2} : event'[x].peer = NULL
    BY <1>0, <2>2, <2>3, <2>4
  <2>6. Listed' = Listed \cup {used + 1, used + 2} /\ late \subseteq late'
    BY <2>1 DEF Extended
  <2>7. Paired'
    <3>1. Unpaired({used + 1, used + 2})
      BY <2>5, <2>6 DEF Unpaired
    <3> QED BY <3>1, PairsKept
  <2>8. Sole'
    <3>1. Len(list') # 1
      <4>1. Len(list') \in Nat
        BY <2>1 DEF Extended
      <4> QED BY <2>0, <4>1
    <3> QED BY <3>1 DEF Sole
  <2> QED BY <2>7, <2>8
<1>4. CASE Kept \/ Start \/ Tick
  <2>1. list' = list /\ late' = late /\ Listed' = Listed /\ \A x \in Listed : event'[x] = event[x]
    BY <1>4 DEF Kept, Start, Tick, Listed
  <2>2. Paired'
    <3>1. Unpaired({})
      BY <2>1 DEF Unpaired
    <3> QED BY <3>1, PairsKept
  <2>3. Sole'
    <3>1. Len(list) = 1 => list[1] \in Listed
      BY <1>0 DEF Listed, ToSet
    <3> QED BY <2>1, <3>1 DEF Sole
  <2> QED BY <2>2, <2>3
<1>5. CASE Erase
  <2>1. list' = <<>> /\ Listed' = {}
    BY <1>5 DEF Erase, Listed, ToSet
  <2> QED BY <2>1 DEF Sole, Paired
<1> QED
  BY <1>1, <1>2, <1>3, <1>4, <1>5, StepKinds DEF StepKind

\* What all the proofs below build on.
SeqInv == TypeInv /\ ListInv /\ Sole /\ Paired

LEMMA SeqInvariant == Spec => []SeqInv
<1>1. Init => SeqInv
  <2>1. Init => Listed = {}
    BY DEF Init, Listed, ToSet
  <2> QED BY <2>1, ListInit DEF SeqInv, Paired
<1>2. SeqInv /\ [Next]_vars => SeqInv'
  BY ListStep, PairStep DEF SeqInv
<1> QED
  BY <1>1, <1>2, PTL DEF Spec

\* "Insert keeping chronological order" (event_seq.c:111): no event is linked twice, the
\* current pointer is on a linked event, and no event is linked behind a later one
\* unless it was itself placed by a timestamp that was reduced to the loop afterwards.
THEOREM ListKeepsOrder == Spec => []InOrder
<1>1. SeqInv => InOrder
  BY DEF SeqInv, ListInv, InOrder, InTime
<1> QED
  BY <1>1, SeqInvariant, PTL

\* SEQ_insert_note_off: a note off and its note on point at each other and at no other,
\* whatever is recorded, stepped in or erased, and while no timestamp passes the loop's
\* end they differ in time.
THEOREM PeersAreMutual == Spec => []Paired
<1>1. SeqInv => Paired
  BY DEF SeqInv
<1> QED
  BY <1>1, SeqInvariant, PTL

-----------------------------------------------------------------------------
(* The amounts of the steps.                                               *)

\* The note ons of step s.
Ons(s) == {e \in Listed : event[e].on /\ event[e].ts \div Step = s}

LEMMA OnsFinite ==
  ASSUME TypeInv, NEW s PROVE IsFiniteSet(Ons(s)) /\ Cardinality(Ons(s)) \in Nat
<1>1. Ons(s) \in SUBSET (1 .. MaxEvents)
  <2>1. \A x \in Listed : x \in Ids
    BY DEF TypeInv, Listed, ToSet
  <2> QED BY <2>1 DEF Ons, Ids
<1>2. IsFiniteSet(1 .. MaxEvents)
  BY FS_Interval, EventSeqAssumption DEF EventSeqAssumption
<1> QED
  BY <1>1, <1>2, FS_Subset, FS_CardinalityType

LEMMA OneMore ==
  ASSUME NEW x \in Nat, NEW m \in Nat \ {0} PROVE ((x % m) + 1) % m = (x + 1) % m
<1>1. PICK q \in Nat, r \in 0 .. m - 1 : x = m * q + r
  <2>1. x = m * (x \div m) + (x % m) /\ x % m \in 0 .. m - 1 /\ x \div m \in Nat
    BY SMT
  <2> QED BY <2>1
<1>2. \A k \in Nat, j \in 0 .. m - 1 : (m * k + j) % m = j
  OBVIOUS
<1>3. x % m = r
  BY <1>1, <1>2
<1>4. CASE r < m - 1
  <2>1. x + 1 = m * q + (r + 1) /\ r + 1 \in 0 .. m - 1
    BY <1>1, <1>4
  <2>2. (x + 1) % m = r + 1
    BY <1>2, <2>1
  <2>3. (r + 1) % m = r + 1
    BY <2>1
  <2> QED BY <1>3, <2>2, <2>3
<1>5. CASE r = m - 1
  <2>1. x + 1 = m * (q + 1) + 0 /\ q + 1 \in Nat /\ 0 \in 0 .. m - 1
    BY <1>1, <1>5
  <2>2. (x + 1) % m = 0
    BY <1>2, <2>1
  <2>3. r + 1 = m * 1 + 0 /\ 1 \in Nat
    BY <1>5
  <2>4. (r + 1) % m = 0
    BY <1>2, <2>1, <2>3
  <2> QED BY <1>3, <2>2, <2>4
<1> QED
  BY <1>1, <1>4, <1>5

\* A note on counts for its step, and nothing else does.
CountsOn(e, ts) ==
  /\ e \notin Listed /\ amount' = Changed(amount, ts, TRUE)
  /\ \A s : Ons(s)' = IF s = ts \div Step THEN Ons(s) \cup {e} ELSE Ons(s)

LEMMA AmountsOneMore ==
  ASSUME TypeInv, AmountExact, NEW e, NEW ts, CountsOn(e, ts)
  PROVE  AmountExact'
<1> DEFINE t == ts \div Step
<1>1. amount \in [0 .. Steps -> Nat]
  BY DEF TypeInv
<1>2. amount' = [amount EXCEPT ![t] = (amount[t] + 1) % AmountMod]
  BY DEF CountsOn, Changed
<1>3. \A s \in 0 .. Steps : amount[s] = Cardinality(Ons(s)) % AmountMod
  BY <1>1 DEF AmountExact, Ons
<1>4. \A s \in 0 .. Steps : amount'[s] = IF s = t THEN (amount[s] + 1) % AmountMod ELSE amount[s]
  BY <1>1, <1>2
<1>5. \A s : Ons(s)' = IF s = t THEN Ons(s) \cup {e} ELSE Ons(s)
  BY DEF CountsOn
<1>6. DOMAIN amount' = 0 .. Steps
  BY <1>1, <1>2
<1> HIDE DEF t
<1>7. ASSUME NEW s \in 0 .. Steps PROVE amount'[s] = Cardinality(Ons(s)') % AmountMod
  <2>1. CASE s # t
    BY <1>3, <1>4, <1>5, <2>1, Zenon
  <2>2. CASE s = t
    <3>1. PICK x \in Nat : x = Cardinality(Ons(s))
      BY OnsFinite
    <3>2. Cardinality(Ons(s) \cup {e}) = x + 1
      <4>1. e \notin Ons(s)
        BY DEF CountsOn, Ons
      <4> QED BY <3>1, <4>1, OnsFinite, FS_AddElement
    <3>3. amount'[s] = ((x % AmountMod) + 1) % AmountMod
      BY <1>3, <1>4, <2>2, <3>1
    <3>4. ((x % AmountMod) + 1) % AmountMod = (x + 1) % AmountMod
      BY OneMore, EventSeqAssumption DEF EventSeqAssumption
    <3>5. Ons(s)' = Ons(s) \cup {e}
      BY <1>5, <2>2
    <3> QED BY <3>2, <3>3, <3>4, <3>5
  <2> QED BY <2>1, <2>2
<1> QED
  BY <1>6, <1>7 DEF AmountExact, Ons

LEMMA AmountsKept ==
  ASSUME TypeInv, AmountExact, amount' = amount, \A s : Ons(s)' = Ons(s)
  PROVE  AmountExact'
<1>1. \A s \in DOMAIN amount : amount[s] = Cardinality(Ons(s)) % AmountMod
  BY DEF AmountExact, Ons
<1>2. \A s \in DOMAIN amount' : amount'[s] = Cardinality(Ons(s)') % AmountMod
  BY <1>1
<1> QED
  BY <1>2 DEF AmountExact, Ons

LEMMA AmountStep ==
  ASSUME TypeInv, ListInv, Sole, AmountExact, [Next]_vars PROVE AmountExact'
<1>0. event \in [Ids -> Event]
  BY DEF TypeInv
<1>1. ASSUME NEW n \in Notes, NoteOn(n) PROVE AmountExact'
  <2> DEFINE e == used + 1
             ts == Quantize(tick)
  <2>1. Listed' = Listed \cup {e} /\ amount' = Changed(amount, ts, TRUE)
    BY <1>1, NoteOnExtends DEF Extended, NoteOn
  <2>2. event' = [event EXCEPT ![e] = [ts |-> ts, note |-> n, on |-> TRUE, peer |-> NULL]]
    BY <1>1, NoteOnExtends
  <2>3. e \in Ids /\ e \notin Listed /\ \A x \in Listed : x \in Ids /\ x # e
    BY <1>1, FreeNode DEF NoteOn
  <2> HIDE DEF e, ts
  <2>4. event'[e].on = TRUE /\ event'[e].ts = ts /\ \A x \in Listed : event'[x] = event[x]
    BY <1>0, <2>2, <2>3
  <2>5. \A s : Ons(s)' = IF s = ts \div Step THEN Ons(s) \cup {e} ELSE Ons(s)
    BY <2>1, <2>3, <2>4 DEF Ons
  <2> QED BY <2>1, <2>3, <2>5, AmountsOneMore DEF CountsOn
<1>2. ASSUME NEW n \in Notes, NoteOff(n), FindMatching(n) # NULL PROVE AmountExact'
  <2> DEFINE e == used + 1
             m == FindMatching(n)
  <2>1. Listed' = Listed \cup {e} /\ amount' = amount
        /\ \A x \in Listed : event'[x].ts = event[x].ts /\ event'[x].on = event[x].on
    BY <1>2, NoteOffExtends DEF Extended, NoteOff
  <2>2. PICK ts \in Nat :
          event' = [event EXCEPT ![e] = [ts |-> ts, note |-> n, on |-> FALSE, peer |-> m],
                                 ![m].peer = e]
    BY <1>2, NoteOffExtends
  <2>3. e \in Ids /\ e \notin Listed /\ \A x \in Listed : x \in Ids /\ x # e
    BY <1>2, FreeNode DEF NoteOff
  <2>4. m \in Listed
    BY <1>2, MatchFacts
  <2> HIDE DEF e, m
  <2>5. event'[e].on = FALSE
    BY <1>0, <2>2, <2>3, <2>4
  <2>6. \A s : Ons(s)' = Ons(s)
    BY <2>1, <2>3, <2>5 DEF Ons
  <2> QED BY <2>1, <2>6, AmountsKept
<1>3. ASSUME NEW n \in Notes, NEW step \in 0 .. Steps - 1, StepInsert(step, n),
             used + 1 # MaxEvents
      PROVE  AmountExact'
  <2> DEFINE on == used + 1
             off == used + 2
             ts == step * Step
  <2>1. Extended({on, off})
    BY <1>3, StepInsertExtends
  <2>2. PICK o \in Nat :
          event' = [event EXCEPT ![on] = [ts |-> ts, note |-> n, on |-> TRUE, peer |-> NULL],
                                 ![off] = [ts |-> o, note |-> n, on |-> FALSE, peer |-> NULL]]
    BY <1>3, StepInsertExtends
  <2>3. /\ on \notin Listed /\ \A x \in Listed : x \in Ids /\ x # on /\ x # off
        /\ used \in Nat
    BY <1>3, FreeNode DEF StepInsert
  <2>4. on \in Ids /\ off \in Ids /\ on # off
    BY <2>1, <2>3 DEF Extended
  <2>5. Listed' = Listed \cup {on, off} /\ amount' = Changed(amount, ts, TRUE)
    BY <1>3, <2>1 DEF Extended, StepInsert
  <2> HIDE DEF on, off, ts
  <2>6. /\ event'[on].on = TRUE /\ event'[on].ts = ts /\ event'[off].on = FALSE
        /\ \A x \in Listed : event'[x] = event[x]
    BY <1>0, <2>2, <2>3, <2>4
  <2>7. \A s : Ons(s)' = IF s = ts \div Step THEN Ons(s) \cup {on} ELSE Ons(s)
    BY <2>3, <2>4, <2>5, <2>6 DEF Ons
  <2>8. CountsOn(on, ts)
    BY <2>3, <2>5, <2>7 DEF CountsOn
  <2> QED BY <2>8, AmountsOneMore
<1>4. CASE Kept \/ Start \/ Tick
  <2>1. Listed' = Listed /\ amount' = amount /\ \A x \in Listed : event'[x] = event[x]
    BY <1>4 DEF Kept, Start, Tick, Listed
  <2>2. \A s : Ons(s)' = Ons(s)
    BY <2>1 DEF Ons
  <2> QED BY <2>1, <2>2, AmountsKept
<1>5. CASE Erase
  <2>1. Listed' = {} /\ amount' = IF list = <<>> THEN amount ELSE [s \in DOMAIN amount |-> 0]
    BY <1>5 DEF Erase, Listed, ToSet
  <2>2. \A s : Ons(s)' = {}
    BY <2>1 DEF Ons
  <2>3. Cardinality({}) = 0 /\ 0 % AmountMod = 0
    BY FS_EmptySet, EventSeqAssumption DEF EventSeqAssumption
  <2>4. CASE list = <<>>
    <3>1. \A s : Ons(s) = {}
      BY <2>4 DEF Ons, Listed, ToSet
    <3>2. amount' = amount
      BY <2>1, <2>4
    <3> QED BY <2>2, <3>1, <3>2, AmountsKept
  <2>5. CASE list # <<>>
    <3>1. \A s \in DOMAIN amount' : amount'[s] = 0
      BY <2>1, <2>5
    <3>2. \A s \in DOMAIN amount' : amount'[s] = Cardinality(Ons(s)') % AmountMod
      BY <2>2, <2>3, <3>1
    <3> QED BY <3>2 DEF AmountExact, Ons
  <2> QED BY <2>4, <2>5
<1> QED
  BY <1>1, <1>2, <1>3, <1>4, <1>5, StepKinds DEF StepKind

\* step_event_amount (event_seq.c): the amount that a pad shows is the number of note
\* ons of its step, to the width of its counter, through recording, stepping and erasing.
THEOREM AmountsAreExact == Spec => []AmountExact
<1>1. Init => AmountExact
  <2>1. SUFFICES ASSUME Init PROVE AmountExact
    OBVIOUS
  <2>2. Listed = {} /\ amount = [s \in 0 .. Steps |-> 0]
    BY <2>1 DEF Init, Listed, ToSet
  <2>3. Cardinality({}) = 0 /\ 0 % AmountMod = 0
    BY FS_EmptySet, EventSeqAssumption DEF EventSeqAssumption
  <2>4. \A s : {e \in Listed : event[e].on /\ event[e].ts \div Step = s} = {}
    BY <2>2
  <2> QED BY <2>2, <2>3, <2>4 DEF AmountExact
<1>2. SeqInv /\ AmountExact /\ [Next]_vars => AmountExact'
  BY AmountStep DEF SeqInv
<1> QED
  BY <1>1, <1>2, SeqInvariant, PTL DEF Spec

-----------------------------------------------------------------------------
(* A pass through the loop.                                                *)

\* Of what the pass owes, the events before this tick have played once, and no other:
\* those are still ahead of the current pointer.
Progress(e) ==
  /\ event[e].ts < Loop
  /\ IF event[e].ts < tick THEN plays[e] = 1
     ELSE /\ plays[e] = 0 /\ current # NULL
          /\ event[current].ts >= tick /\ Before(list, current, e)

PassInv ==
  /\ owed \in SUBSET Listed
  /\ late = {} => kept /\ \A e \in owed : Progress(e)

\* What one tick does for an owed event.
LEMMA TickPlays ==
  ASSUME TypeInv, ListInv, PassInv, late = {}, NEW e \in owed
  PROVE  /\ event[e].ts <= tick => Played[e] = 1
         /\ event[e].ts > tick =>
              /\ Played[e] = 0 /\ NextCurrent # NULL
              /\ event[NextCurrent].ts > tick /\ Before(list, NextCurrent, e)
<1> DEFINE t(i) == event[list[i]].ts
<1>1. e \in Listed /\ Progress(e)
  BY DEF PassInv
<1>2. list \in Seq(Ids) /\ Len(list) \in Nat /\ event \in [Ids -> Event] /\ tick \in Nat
  BY LoopNat DEF TypeInv
<1>3. \A i \in 1 .. Len(list) : list[i] \in Listed /\ list[i] \in Ids /\ t(i) \in Nat
  BY <1>2 DEF Listed, ToSet, Event
<1>4. PICK j \in 1 .. Len(list) : list[j] = e
  BY <1>1, <1>2 DEF Listed, ToSet
<1>5. current # NULL
  BY <1>2, <1>4 DEF ListInv
<1>6. /\ From \in 1 .. Len(list) /\ list[From] = current /\ StopAt \in From .. Len(list) + 1
      /\ \A i \in From .. StopAt - 1 : event[list[i]].ts = tick
      /\ StopAt <= Len(list) => event[list[StopAt]].ts # tick
  BY <1>5, TickFacts
<1>7. PICK f \in 1 .. Len(list), s \in Nat : f = From /\ s = StopAt
  BY <1>2, <1>6
<1>8. /\ list[f] = current /\ s \in f .. Len(list) + 1
      /\ \A i \in f .. s - 1 : t(i) = tick
      /\ s <= Len(list) => t(s) # tick
  BY <1>6, <1>7
<1>9. \A x, y \in 1 .. Len(list) : x <= y => t(x) <= t(y)
  <2>1. \A x, y \in 1 .. Len(list) : x < y => t(x) <= t(y)
    BY DEF ListInv, InTime
  <2>2. \A x, y \in 1 .. Len(list) : x <= y => x = y \/ x < y
    OBVIOUS
  <2>3. \A x \in 1 .. Len(list) : t(x) <= t(x)
    BY <1>3
  <2> QED BY <2>1, <2>2, <2>3
<1>10. \A x, y \in 1 .. Len(list) : list[x] = list[y] => x = y
  BY <1>2 DEF ListInv, IsInjective
<1>11. e \in Fired <=> \E i \in f .. s - 1 : list[i] = e
  BY <1>1, <1>3, <1>4, <1>5, <1>7 DEF Fired
<1>12. e \in Fired <=> j < s /\ f <= j
  <2>1. j \in f .. s - 1 <=> j < s /\ f <= j
    BY <1>7
  <2>2. \A i \in f .. s - 1 : i \in 1 .. Len(list)
    BY <1>7, <1>8
  <2> QED BY <1>3, <1>4, <1>10, <1>11, <2>1, <2>2
<1>13. e \in Fired => event[e].ts = tick
  BY <1>4, <1>8, <1>12
<1>14. Played[e] = IF e \in Fired /\ plays[e] < 2 THEN plays[e] + 1 ELSE plays[e]
  BY <1>3, <1>4 DEF Played
<1>15. CASE event[e].ts < tick
  <2>1. plays[e] = 1 /\ e \notin Fired
    BY <1>1, <1>2, <1>3, <1>4, <1>13, <1>15 DEF Progress
  <2> QED BY <1>3, <1>4, <1>2, <1>14, <1>15, <2>1
<1>16. CASE ~(event[e].ts < tick)
  <2>1. plays[e] = 0 /\ t(f) >= tick /\ f <= j
    <3>1. plays[e] = 0 /\ event[current].ts >= tick /\ Before(list, current, e)
      BY <1>1, <1>16 DEF Progress
    <3>2. f <= j
      BY <1>4, <1>8, <3>1 DEF Before
    <3> QED BY <1>8, <3>1, <3>2
  <2>2. CASE event[e].ts = tick
    <3>1. j < s
      <4>1. SUFFICES ASSUME ~(j < s) PROVE FALSE
        OBVIOUS
      <4>2. s \in 1 .. Len(list) /\ f <= s /\ s <= j
        BY <1>2, <1>7, <1>8, <4>1
      <4>3. t(f) <= t(s) /\ t(s) <= t(j)
        BY <1>7, <1>9, <4>2
      <4>4. t(s) # tick /\ t(j) = tick /\ t(s) \in Nat /\ t(f) \in Nat
        BY <1>3, <1>4, <1>7, <1>8, <2>2, <4>2
      <4> QED BY <1>2, <2>1, <4>3, <4>4
    <3>2. Played[e] = 1
      <4>1. e \in Fired
        BY <1>12, <2>1, <3>1
      <4> QED BY <1>14, <2>1, <4>1
    <3> QED BY <1>2, <2>2, <3>2
  <2>3. CASE event[e].ts # tick
    <3>1. e \notin Fired /\ Played[e] = 0
      BY <1>13, <1>14, <2>1, <2>3
    <3>2. s <= j
      <4>1. ~(j < s)
        BY <1>12, <2>1, <3>1
      <4> QED BY <1>7, <4>1
    <3>3. s \in 1 .. Len(list) /\ f <= s
      BY <1>2, <1>7, <1>8, <3>2
    <3>4. NextCurrent = list[s] /\ list[s] # NULL
      <4>1. ~(StopAt > Len(list))
        BY <1>2, <1>7, <3>3
      <4> QED BY <1>3, <1>5, <1>7, <3>3, <4>1, NotNull DEF NextCurrent
    <3>5. t(s) > tick
      <4>1. t(f) <= t(s) /\ t(s) # tick /\ t(s) \in Nat /\ t(f) \in Nat
        BY <1>3, <1>7, <1>8, <1>9, <3>3
      <4> QED BY <1>2, <2>1, <4>1
    <3>6. Before(list, list[s], e)
      BY <1>4, <1>10, <3>2, <3>3 DEF Before
    <3>7. event[e].ts > tick
      BY <1>2, <1>3, <1>4, <1>16, <2>3
    <3>8. ~(event[e].ts <= tick)
      BY <1>2, <1>3, <1>4, <3>7
    <3> QED BY <3>1, <3>4, <3>5, <3>6, <3>8
  <2> QED BY <2>2, <2>3
<1> QED
  BY <1>15, <1>16

\* A pass starts at the head of the list.
PassStarts ==
  /\ UNCHANGED <<list, event, late>> /\ tick' = 0 /\ owed' = Due /\ plays' = NoPlays
  /\ current' = IF list = <<>> THEN NULL ELSE Head(list)
  /\ late = {} => kept'

LEMMA PassStartsAtHead ==
  ASSUME TypeInv, ListInv, PassStarts PROVE PassInv'
<1>1. Listed' = Listed /\ event' = event /\ late' = late /\ list' = list /\ tick' = 0
      /\ owed' = Due /\ plays' = NoPlays /\ (late = {} => kept')
  BY DEF PassStarts, Listed
<1>2. list \in Seq(Ids) /\ event \in [Ids -> Event] /\ Len(list) \in Nat
  BY DEF TypeInv
<1>3. ASSUME NEW e \in Due PROVE Progress(e)'
  <2>1. e \in Listed /\ event[e].ts < Loop
    BY DEF Due
  <2>2. e \in Ids /\ list # <<>> /\ event[e].ts \in Nat
    BY <1>2, <2>1 DEF Listed, ToSet, Event
  <2>3. Head(list) = list[1] /\ Head(list) \in Listed /\ Head(list) # NULL /\ 1 \in 1 .. Len(list)
    BY <2>2, HeadListed, NotNull
  <2>4. current' = list[1]
    BY <2>2, <2>3 DEF PassStarts
  <2>5. Before(list, list[1], e)
    <3>1. \A i \in 1 .. Len(list) : list[i] = list[1] => i = 1
      BY <1>2, <2>3 DEF ListInv, IsInjective
    <3> QED BY <3>1 DEF Before
  <2>6. event[list[1]].ts \in Nat
    BY <1>2, <2>3 DEF Event
  <2>7. ~(event[e].ts < 0) /\ event[list[1]].ts >= 0
    BY <2>2, <2>6
  <2>8. NoPlays[e] = 0
    BY <2>2 DEF NoPlays
  <2> QED BY <1>1, <2>1, <2>3, <2>4, <2>5, <2>7, <2>8 DEF Progress
<1>4. Due \subseteq Listed
  BY DEF Due
<1> QED
  BY <1>1, <1>3, <1>4 DEF PassInv

\* What is put into the list during a pass does not disturb it.
LEMMA PassExtended ==
  ASSUME TypeInv, ListInv, PassInv, NEW new, Extended(new) PROVE PassInv'
<1>1. /\ UNCHANGED <<owed, plays, kept, tick>> /\ Listed' = Listed \cup new
      /\ late \subseteq late' /\ \A x \in Listed : event'[x].ts = event[x].ts
      /\ \A x, y \in Listed : Before(list, x, y) => Before(list', x, y)
      /\ list # <<>> => current' = current
  BY DEF Extended, passVars
<1>2. ASSUME NEW e \in owed, late' = {} PROVE Progress(e)'
  <2>1. e \in Listed /\ Progress(e)
    BY <1>1, <1>2 DEF PassInv
  <2>2. list # <<>>
    BY <2>1 DEF Listed, ToSet
  <2>3. current' = current /\ current # NULL /\ current \in Listed
    BY <1>1, <2>2 DEF ListInv
  <2>4. event'[e].ts = event[e].ts /\ event'[current].ts = event[current].ts
    BY <1>1, <2>1, <2>3
  <2>5. Before(list, current, e) => Before(list', current, e)
    BY <1>1, <2>1, <2>3
  <2> QED BY <1>1, <2>1, <2>3, <2>4, <2>5 DEF Progress
<1>3. owed' \in SUBSET Listed'
  BY <1>1 DEF PassInv
<1>4. late' = {} => kept'
  BY <1>1 DEF PassInv
<1> QED
  BY <1>1, <1>2, <1>3, <1>4 DEF PassInv

LEMMA PassTick ==
  ASSUME TypeInv, ListInv, PassInv, Tick PROVE PassInv'
<1>1. UNCHANGED <<list, event, late>> /\ Listed' = Listed
  BY DEF Tick, Listed
<1>2. Loop \in Nat /\ tick \in Nat /\ \A e \in Listed : event[e].ts \in Nat
  <2>1. \A e \in Listed : e \in Ids
    BY DEF TypeInv, Listed, ToSet
  <2> QED BY <2>1, LoopNat DEF TypeInv, Event
<1>3. CASE tick + 1 < Loop
  <2>1. tick' = tick + 1 /\ current' = NextCurrent /\ plays' = Played /\ UNCHANGED <<owed, kept>>
    BY <1>3 DEF Tick
  <2>2. ASSUME NEW e \in owed, late = {} PROVE Progress(e)'
    <3>1. e \in Listed /\ event[e].ts < Loop /\ event[e].ts \in Nat
      BY <1>2, <2>2 DEF PassInv, Progress
    <3>2. CASE event[e].ts <= tick
      <4>1. Played[e] = 1
        BY <2>2, <3>2, TickPlays
      <4>2. event[e].ts < tick + 1
        BY <1>2, <3>1, <3>2
      <4> QED BY <1>1, <2>1, <3>1, <4>1, <4>2 DEF Progress
    <3>3. CASE ~(event[e].ts <= tick)
      <4>1. event[e].ts > tick /\ ~(event[e].ts < tick + 1)
        BY <1>2, <3>1, <3>3
      <4>2. /\ Played[e] = 0 /\ NextCurrent # NULL
            /\ event[NextCurrent].ts > tick /\ Before(list, NextCurrent, e)
        BY <2>2, <4>1, TickPlays
      <4>3. event[NextCurrent].ts >= tick + 1
        <5>1. NextCurrent \in Listed
          <6>1. current' \in Listed \cup {NULL}
            BY <1>1, TickType DEF ListInv
          <6> QED BY <2>1, <4>2, <6>1
        <5>2. event[NextCurrent].ts \in Nat
          BY <1>2, <5>1
        <5> QED BY <1>2, <4>2, <5>2
      <4> QED BY <1>1, <2>1, <3>1, <4>1, <4>2, <4>3 DEF Progress
    <3> QED BY <3>2, <3>3
  <2> QED BY <1>1, <2>1, <2>2 DEF PassInv
<1>4. CASE ~(tick + 1 < Loop)
  <2>1. /\ tick' = 0 /\ current' = IF list = <<>> THEN NULL ELSE Head(list)
        /\ kept' = (kept /\ \A e \in owed : Played[e] = 1)
        /\ owed' = Due /\ plays' = NoPlays
    BY <1>4 DEF Tick
  <2>2. ASSUME late = {}, NEW e \in owed PROVE Played[e] = 1
    <3>1. e \in Listed /\ event[e].ts < Loop /\ event[e].ts \in Nat
      BY <1>2, <2>2 DEF PassInv, Progress
    <3>2. event[e].ts <= tick
      BY <1>2, <1>4, <3>1
    <3> QED BY <2>2, <3>2, TickPlays
  <2>3. late = {} => kept'
    BY <2>1, <2>2 DEF PassInv
  <2> QED BY <1>1, <2>1, <2>3, PassStartsAtHead DEF PassStarts
<1> QED
  BY <1>3, <1>4

LEMMA PassStep ==
  ASSUME TypeInv, ListInv, Sole, PassInv, [Next]_vars PROVE PassInv'
<1>1. ASSUME NEW n \in Notes, NoteOn(n) PROVE PassInv'
  BY <1>1, NoteOnExtends, PassExtended
<1>2. ASSUME NEW n \in Notes, NoteOff(n), FindMatching(n) # NULL PROVE PassInv'
  BY <1>2, NoteOffExtends, PassExtended
<1>3. ASSUME NEW n \in Notes, NEW step \in 0 .. Steps - 1, StepInsert(step, n),
             used + 1 # MaxEvents
      PROVE  PassInv'
  BY <1>3, StepInsertExtends, PassExtended
<1>4. CASE Kept
  <2>1. UNCHANGED <<list, current, late, owed, plays, kept, tick>> /\ Listed' = Listed
        /\ \A x \in Listed : event'[x] = event[x]
    BY <1>4 DEF Kept, passVars, Listed
  <2>2. ASSUME NEW e \in owed, late = {} PROVE Progress(e)'
    <3>1. e \in Listed /\ Progress(e) /\ current \in Listed \cup {NULL}
      BY <2>2 DEF PassInv, ListInv
    <3> QED BY <2>1, <3>1 DEF Progress, Before
  <2> QED BY <2>1, <2>2 DEF PassInv
<1>5. CASE Start
  <2>1. PassStarts
    BY <1>5 DEF Start, PassStarts, PassInv
  <2> QED BY <2>1, PassStartsAtHead
<1>6. CASE Erase
  BY <1>6 DEF Erase, PassInv
<1> QED
  BY <1>1, <1>2, <1>3, <1>4, <1>5, <1>6, PassTick, StepKinds DEF StepKind

\* SEQ_tick: while no timestamp at or past the loop's end was inserted, each pass plays
\* every event that was in the list at its start exactly once, whatever is recorded,
\* stepped in, erased, stopped or started meanwhile.
THEOREM NoEventSkipped == Spec => []PassPlaysAll
<1>1. Init => PassInv
  BY DEF Init, PassInv
<1>2. SeqInv /\ PassInv /\ [Next]_vars => PassInv'
  BY PassStep DEF SeqInv
<1>3. PassInv => PassPlaysAll
  BY DEF PassInv, PassPlaysAll
<1> QED
  BY <1>1, <1>2, <1>3, SeqInvariant, PTL DEF Spec
=============================================================================
