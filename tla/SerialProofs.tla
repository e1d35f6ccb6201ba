---------------------------- MODULE SerialProofs ----------------------------
(***************************************************************************)
(* Proofs about the serial links, the panel's service at the end of one    *)
(* and the MIDI parser at the end of the other, for every length of        *)
(* messages, FIFO, queues, buffer and stream.  UartTx: the callback has    *)
(* one user at a time, and the handler never writes more than the FIFO     *)
(* holds; no wake-up is lost and the byte stream is framed but for the     *)
(* messages the limit of the FIFO refuses a byte.  Panel: the cache is     *)
(* what the LEDs come to show, and answers and events reach the callbacks  *)
(* they are for.  MidiFsm: the messages reported are those the stream      *)
(* contains.                                                               *)
(***************************************************************************)
EXTENDS UartTx, Panel, MidiFsm, SequenceTheorems, FiniteSetTheorems, NaturalsInduction,
        WellFoundedInduction, TLAPS

-----------------------------------------------------------------------------
(* Mutual exclusion between main and the handler.                          *)

\* While tx_complete is set the interrupt is disabled and the handler, if it is
\* still running, has nothing left to write: so the main loop, which tests the
\* flag, may run the callback.
ExclusiveInv ==
  /\ complete \in BOOLEAN /\ intEn \in BOOLEAN
  /\ pc \in {"idle", "check"} \cup Calling
  /\ Exclusive
  /\ complete => ~intEn
  /\ pc \in {"buffer", "length", "enable"} => ~complete
  /\ complete /\ isr = "fill" => length = 0
  /\ isr = "put" => ~complete
  /\ isr # "off" => pc \in {"idle", "check"}

LEMMA ExclusiveInit == Init => ExclusiveInv
BY DEF Init, ExclusiveInv, Exclusive, Calling

LEMMA ExclusiveStep == ASSUME ExclusiveInv, [Next]_vars PROVE ExclusiveInv'
<1> USE DEF ExclusiveInv, Exclusive, Calling
<1>1. CASE EnqueuePut
  BY <1>1 DEF EnqueuePut, driver, uart
<1>2. CASE EnqueueCheck
  BY <1>2 DEF EnqueueCheck, driver, uart
<1>3. CASE StartDequeue
  BY <1>3 DEF StartDequeue, uart
<1>4. CASE StartClaim
  BY <1>4 DEF StartClaim, uart
<1>5. CASE StartBuffer
  BY <1>5 DEF StartBuffer, uart
<1>6. CASE StartLength
  BY <1>6 DEF StartLength, uart
<1>7. CASE StartEnable
  BY <1>7 DEF StartEnable, Enable, driver
<1>8. CASE IsrEnter
  BY <1>8 DEF IsrEnter, Pending, driver, uart
<1>9. CASE IsrStatus
  BY <1>9 DEF IsrStatus, Pending, driver
<1>10. CASE IsrFill
  BY <1>10 DEF IsrFill, uart
<1>11. CASE IsrPutByte
  BY <1>11 DEF IsrPutByte
<1>12. CASE IsrPutLast
  BY <1>12 DEF IsrPutLast
<1>13. CASE Shift
  BY <1>13 DEF Shift, driver
<1>14. CASE UNCHANGED vars
  BY <1>14 DEF vars, driver, uart
<1> QED
  BY <1>1, <1>2, <1>3, <1>4, <1>5, <1>6, <1>7, <1>8, <1>9, <1>10, <1>11, <1>12,
     <1>13, <1>14 DEF Next, Main, Isr

\* Whatever the sizes, the main loop and the interrupt handler are never both
\* inside the transmit callback (dev_mcu.c, dev_trs.c: tx_complete).
THEOREM CallbackExclusive == Spec => []Exclusive
<1>1. ExclusiveInv => Exclusive
  BY DEF ExclusiveInv
<1> QED
  BY ExclusiveInit, ExclusiveStep, <1>1, PTL DEF Spec

-----------------------------------------------------------------------------
(* The transmit FIFO.                                                      *)

\* The handler fills only after a transmitter-empty event, which is latched over
\* an empty FIFO, and counts every byte it has written since.
RoomInv ==
  /\ fifo \in Seq(Bytes)
  /\ level \in Nat /\ msg \in 0 .. MaxMsgs /\ pos \in Nat
  /\ ring \in Seq(0 .. MaxMsgs) /\ sent \in 0 .. MaxMsgs
  /\ thre \in BOOLEAN
  /\ thre => fifo = <<>>
  /\ isr = "fill" => Len(fifo) <= level /\ level <= FifoLength
  /\ isr = "put" => Len(fifo) + 1 <= level /\ level <= FifoLength
  /\ FifoRoom

LEMMA RoomInit == Init => RoomInv
<1> SUFFICES ASSUME Init PROVE RoomInv
  OBVIOUS
<1>1. fifo \in Seq(Bytes) /\ ring \in Seq(0 .. MaxMsgs) /\ Len(fifo) = 0
  BY DEF Init
<1>2. thre \in BOOLEAN /\ (thre => fifo = <<>>)
  BY DEF Init
<1>3. level \in Nat /\ msg \in 0 .. MaxMsgs /\ pos \in Nat /\ sent \in 0 .. MaxMsgs
  BY UartTxAssumption DEF Init, UartTxAssumption
<1>4. isr # "fill" /\ isr # "put"
  BY DEF Init
<1> QED
  BY <1>1, <1>2, <1>3, <1>4, UartTxAssumption DEF RoomInv, FifoRoom, UartTxAssumption

LEMMA RoomStep == ASSUME RoomInv, [Next]_vars PROVE RoomInv'
<1> USE UartTxAssumption DEF UartTxAssumption, RoomInv, FifoRoom
<1>1. CASE EnqueuePut
  BY <1>1 DEF EnqueuePut, driver, uart
<1>2. CASE EnqueueCheck
  BY <1>2 DEF EnqueueCheck, driver, uart
<1>0. ASSUME ring # <<>>
      PROVE  Head(ring) \in 0 .. MaxMsgs /\ Tail(ring) \in Seq(0 .. MaxMsgs)
  BY <1>0
<1>3. CASE StartDequeue
  <2>1. msg' \in 0 .. MaxMsgs /\ ring' \in Seq(0 .. MaxMsgs)
    BY <1>0, <1>3 DEF StartDequeue
  <2>2. UNCHANGED <<pos, isr, level, thre, fifo, sent>>
    BY <1>3 DEF StartDequeue, uart
  <2> QED
    BY <2>1, <2>2
<1>4. CASE StartClaim
  BY <1>4 DEF StartClaim, uart
<1>5. CASE StartBuffer
  BY <1>5 DEF StartBuffer, uart
<1>6. CASE StartLength
  BY <1>6 DEF StartLength, uart
<1>7. CASE StartEnable
  BY <1>7 DEF StartEnable, Enable, driver
<1>8. CASE IsrEnter
  BY <1>8 DEF IsrEnter, Pending, driver, uart
<1>9. CASE IsrStatus
  BY <1>9 DEF IsrStatus, Pending, driver
<1>10. CASE IsrFill
  BY <1>10 DEF IsrFill, uart
<1>11. ASSUME isr = "put", PutByte
       PROVE  fifo' \in Seq(Bytes) /\ Len(fifo') = Len(fifo) + 1
  BY <1>11 DEF PutByte, Bytes
<1>12. CASE IsrPutByte
  <2>1. fifo' \in Seq(Bytes) /\ Len(fifo') = Len(fifo) + 1
    BY <1>11, <1>12 DEF IsrPutByte
  <2>2. Len(fifo') \in Nat /\ Len(fifo') <= level' /\ level' <= FifoLength
    BY <2>1, <1>12 DEF IsrPutByte
  <2>3. /\ isr' = "fill" /\ thre' = FALSE /\ pos' \in Nat
        /\ UNCHANGED <<level, msg, ring, sent>>
    BY <1>12 DEF IsrPutByte
  <2>4. thre' \in BOOLEAN /\ (thre' => fifo' = <<>>)
    BY <2>3
  <2>5. /\ isr' = "fill" => Len(fifo') <= level' /\ level' <= FifoLength
        /\ isr' # "put" /\ level' \in Nat /\ Len(fifo') <= FifoLength
    BY <2>2, <2>3
  <2>6. msg' \in 0 .. MaxMsgs /\ ring' \in Seq(0 .. MaxMsgs) /\ sent' \in 0 .. MaxMsgs
    BY <2>3
  <2> QED
    BY <2>1, <2>3, <2>4, <2>5, <2>6
<1>13. CASE IsrPutLast
  <2>1. fifo' \in Seq(Bytes) /\ Len(fifo') = Len(fifo) + 1
    BY <1>11, <1>13 DEF IsrPutLast
  <2>2. Len(fifo') \in Nat /\ Len(fifo') <= level' /\ level' <= FifoLength
    BY <2>1, <1>13 DEF IsrPutLast
  <2>3. /\ isr' = "fill" /\ thre' = FALSE /\ pos' \in Nat
        /\ UNCHANGED <<level, sent>>
    BY <1>13 DEF IsrPutLast
  <2>4. msg' \in 0 .. MaxMsgs /\ ring' \in Seq(0 .. MaxMsgs)
    BY <1>0, <1>13 DEF IsrPutLast
  <2>5. thre' \in BOOLEAN /\ (thre' => fifo' = <<>>)
    BY <2>3
  <2>6. /\ isr' = "fill" => Len(fifo') <= level' /\ level' <= FifoLength
        /\ isr' # "put" /\ level' \in Nat /\ Len(fifo') <= FifoLength
    BY <2>2, <2>3
  <2> QED
    BY <2>1, <2>3, <2>4, <2>5, <2>6
<1>14. CASE Shift
  BY <1>14 DEF Shift, driver
<1>15. CASE UNCHANGED vars
  BY <1>15 DEF vars, driver, uart
<1> QED
  BY <1>1, <1>2, <1>3, <1>4, <1>5, <1>6, <1>7, <1>8, <1>9, <1>10, <1>12,
     <1>13, <1>14, <1>15 DEF Next, Main, Isr

\* Whatever the message length and however many messages are queued, the handler
\* never writes into a full transmit FIFO (per_uart.c: tx_fifo_level).
THEOREM FifoNeverOverfilled == Spec => []FifoRoom
<1>1. RoomInv => FifoRoom
  BY DEF RoomInv
<1> QED
  BY RoomInit, RoomStep, <1>1, PTL DEF Spec

-----------------------------------------------------------------------------
(* No lost wake-up.                                                        *)

\* A message waits for the handler: it is started, and the callback has returned.
Waiting == ~complete /\ pc \in {"idle", "check"} /\ isr \in {"off", "status"}

\* n more bytes of the message are to be written, all it has left or fewer if it was
\* refused some.
Left(n) == pos < MsgLen /\ pos + n <= MsgLen /\ (pos + n = MsgLen \/ msg \in refused)

\* The handler has found the length at zero and counted it down once more.
Stopped == length = LenMod - 1 /\ msg \in refused /\ fifo = <<>> /\ ~thre

\* A waiting message has the interrupt enabled and the event latched or to come, or
\* the transmitter has stopped for good.  The handler's loop begins over an empty
\* FIFO, and from its first byte on the event is latched or to come.
WakeInv ==
  /\ length \in Nat
  /\ complete /\ (pc = "idle" \/ isr # "off") => ring = <<>>
  /\ pc \in {"length", "enable"} => pos = 0
  /\ pc = "enable" => length = MsgLen
  /\ Waiting => intEn /\ ((Left(length) /\ (thre \/ fifo # <<>>)) \/ Stopped)
  /\ ~complete /\ isr = "fill" =>
       /\ intEn /\ Left(length)
       /\ IF level = 0 THEN fifo = <<>> /\ ~thre
                       ELSE length # 0 /\ (thre \/ fifo # <<>>)
  /\ isr = "put" => intEn /\ Left(length + 1)

LEMMA WakeInit == Init => WakeInv
BY DEF Init, WakeInv, Waiting

LEMMA WakeStep ==
  ASSUME ExclusiveInv, RoomInv, WakeInv, [Next]_vars PROVE WakeInv'
<1> USE UartTxAssumption DEF UartTxAssumption, WakeInv, Waiting, Left, Stopped
<1>0. /\ complete \in BOOLEAN /\ intEn \in BOOLEAN /\ thre \in BOOLEAN
      /\ level \in Nat /\ pos \in Nat /\ length \in Nat /\ MsgLen \in Nat \ {0}
      /\ (thre => fifo = <<>>)
  BY DEF ExclusiveInv, RoomInv
<1>1. CASE EnqueuePut
  BY <1>0, <1>1 DEF EnqueuePut, driver, uart
<1>2. CASE EnqueueCheck
  BY <1>2, <1>0 DEF EnqueueCheck, driver, uart
<1>3. CASE StartDequeue
  BY <1>0, <1>3 DEF StartDequeue, uart
<1>4. CASE StartClaim
  BY <1>4, <1>0 DEF StartClaim, uart
<1>5. CASE StartBuffer
  BY <1>5, <1>0 DEF StartBuffer, uart
<1>6. CASE StartLength
  BY <1>6, <1>0 DEF StartLength, uart
<1>7. CASE StartEnable
  <2>1. ~intEn /\ isr = "off" /\ pos = 0 /\ length = MsgLen /\ ~complete
    BY <1>7 DEF StartEnable, ExclusiveInv, Exclusive, Calling
  <2>2. /\ UNCHANGED <<complete, msg, pos, length, isr, fifo, refused>>
        /\ intEn' = TRUE /\ pc' = "idle" /\ thre' = (thre \/ fifo = <<>>)
    BY <1>0, <1>7, <2>1 DEF StartEnable, Enable, driver
  <2>3. thre' \/ fifo' # <<>>
    BY <2>2
  <2>4. Left(length)'
    BY <1>0, <2>1, <2>2
  <2> QED
    BY <1>0, <2>1, <2>2, <2>3, <2>4
<1>8. CASE IsrEnter
  BY <1>8, <1>0 DEF IsrEnter, Pending, driver, uart, ExclusiveInv
<1>9. CASE IsrStatus
  BY <1>9, <1>0 DEF IsrStatus, Pending, driver, ExclusiveInv
<1>10. CASE IsrFill
  <2>1. pc \in {"idle", "check"} /\ UNCHANGED <<ring, complete, pos, msg, pc, intEn, thre, fifo>>
    BY <1>10 DEF IsrFill, ExclusiveInv, uart
  <2>2. CASE complete
    BY <1>0, <1>10, <2>1, <2>2 DEF IsrFill, ExclusiveInv
  <2>3. CASE ~complete /\ length = 0
    <3>1. level = 0 /\ length' = LenMod - 1 /\ isr' = "status" /\ refused' = refused
      BY <1>10, <2>3 DEF IsrFill
    <3> QED BY <1>0, <1>10, <2>1, <2>3, <3>1 DEF IsrFill
  <2>4. CASE ~complete /\ length # 0 /\ level < FifoLength
    <3>1. length' = length - 1 /\ isr' = "put" /\ refused' = refused
      BY <1>0, <1>10, <2>4 DEF IsrFill
    <3> QED BY <1>0, <1>10, <2>1, <2>4, <3>1 DEF IsrFill
  <2>5. CASE ~complete /\ length # 0 /\ level >= FifoLength
    <3>1. length' = length - 1 /\ isr' = "status" /\ refused' = refused \cup {msg} /\ level # 0
      BY <1>0, <1>10, <2>5 DEF IsrFill
    <3> QED BY <1>0, <1>10, <2>1, <2>5, <3>1 DEF IsrFill
  <2> QED BY <1>0, <2>2, <2>3, <2>4, <2>5
<1>11. ASSUME isr = "put", PutByte PROVE fifo' # <<>> /\ level # 0
  <2>1. fifo \in Seq(Bytes) /\ Len(fifo) + 1 <= level /\ <<msg, pos>> \in Bytes
    BY <1>11 DEF RoomInv, Bytes
  <2>2. Len(Append(fifo, <<msg, pos>>)) = Len(fifo) + 1 /\ Len(fifo) \in Nat
    BY <2>1, AppendProperties, LenProperties
  <2>3. Len(fifo') # 0
    BY <1>11, <2>2 DEF PutByte
  <2>4. Len(<<>>) = 0
    OBVIOUS
  <2> QED BY <1>0, <2>1, <2>2, <2>3, <2>4
<1>12. CASE IsrPutByte
  BY <1>0, <1>11, <1>12 DEF IsrPutByte, ExclusiveInv
<1>13. CASE IsrPutLast
  BY <1>0, <1>11, <1>13 DEF IsrPutLast, ExclusiveInv
<1>14. CASE Shift
  <2>1. /\ UNCHANGED <<ring, complete, msg, pos, length, pc, isr, level, intEn, refused>>
        /\ fifo # <<>>
    BY <1>14 DEF Shift, driver
  <2>2. thre' \/ fifo' # <<>>
    <3>1. fifo # <<>> /\ fifo' = Tail(fifo) /\ thre' = (thre \/ Len(fifo) = 1)
      BY <1>14 DEF Shift
    <3>2. Len(fifo') = Len(fifo) - 1 /\ Len(fifo) \in Nat \ {0}
      <4>1. fifo \in Seq(Bytes)
        BY DEF RoomInv
      <4> QED BY <3>1, <4>1, HeadTailProperties, EmptySeq
    <3>3. Len(fifo) # 1 => Len(fifo') # 0
      BY <3>2
    <3> QED BY <1>0, <3>1, <3>3
  <2> QED BY <1>0, <2>1, <2>2
<1>15. CASE UNCHANGED vars
  BY <1>15 DEF vars, driver, uart
<1> QED
  BY <1>1, <1>2, <1>3, <1>4, <1>5, <1>6, <1>7, <1>8, <1>9, <1>10, <1>12,
     <1>13, <1>14, <1>15 DEF Next, Main, Isr

\* A queued message always has an interrupt on its way whenever main is between
\* enqueues and no handler runs, however many are queued, unless a message was
\* refused its last byte (dev_mcu.c, dev_trs.c: tx_complete; per_uart.c: the loop
\* over tx_length and tx_fifo_level, UARTIntEnable).
THEOREM WakeupNeverLost == Spec => []NoLostWakeup
<1>1. WakeInv => NoLostWakeup
  BY DEF WakeInv, NoLostWakeup, Waiting, Stopped
<1> QED
  BY <1>1, ExclusiveInit, ExclusiveStep, RoomInit, RoomStep, WakeInit, WakeStep, PTL DEF Spec

-----------------------------------------------------------------------------
(* The byte stream.                                                        *)

\* The bytes on the wire and on their way to it.
Stream == wire \o fifo

\* Each byte of the stream s follows the one before it.
Linked(s) == \A k \in 1 .. Len(s) :
               IF k = 1 THEN s[k] = <<0, 0>> ELSE Follows(s[k - 1], s[k])

\* The stream s ends with all that is written of the messages below n.
Ended(s, n) ==
  IF n = 0 THEN s = <<>>
  ELSE /\ s # <<>> /\ s[Len(s)][1] = n - 1
       /\ s[Len(s)][2] + 1 = MsgLen \/ n - 1 \in refused

\* It ends before byte p of message n.
EndsBefore(s, n, p) ==
  IF p = 0 THEN Ended(s, n) ELSE s # <<>> /\ s[Len(s)] = <<n, p - 1>>

\* The callback holds a message that is not completely written.
Held == ~complete \/ pc = "claim"

\* The bytes of it that are written.
Written == IF ~complete /\ pc # "buffer" THEN pos ELSE 0

\* The messages written: those enqueued but for the ones queued and the one held.
Whole == sent - Len(ring) - (IF Held THEN 1 ELSE 0)

\* The queue holds the messages enqueued last, in order; the one held is the one
\* before them; and the stream goes as far as this says is written.
StreamInv ==
  /\ wire \in Seq(Bytes) /\ sent \in Nat /\ Len(ring) <= sent
  /\ \A i \in 1 .. Len(ring) : ring[i] + Len(ring) + 1 = sent + i
  /\ Held => msg + Len(ring) + 1 = sent
  /\ pc \in {"dequeue", "claim"} => complete
  /\ EndsBefore(Stream, Whole, Written)
  /\ Linked(Stream)

\* A byte leaves the FIFO for the wire: the stream is the same.
LEMMA StreamShift ==
  ASSUME wire \in Seq(Bytes), fifo \in Seq(Bytes), Shift
  PROVE  wire' \in Seq(Bytes) /\ Stream' = Stream
<1> DEFINE h == Head(fifo)  t == Tail(fifo)
<1>1. fifo # <<>> /\ wire' = Append(wire, h) /\ fifo' = t
  BY DEF Shift
<1>2. h \in Bytes /\ t \in Seq(Bytes) /\ <<h>> \in Seq(Bytes) /\ fifo = <<h>> \o t
  <2>1. h \in Bytes /\ t \in Seq(Bytes) /\ Len(t) = Len(fifo) - 1
        /\ \A i \in 1 .. Len(t) : t[i] = fifo[i + 1]
    BY <1>1, HeadTailProperties
  <2>2. <<h>> \in Seq(Bytes) /\ Len(<<h>>) = 1 /\ <<h>>[1] = h /\ h = fifo[1]
    BY <2>1, <1>1
  <2>3. /\ <<h>> \o t \in Seq(Bytes) /\ Len(<<h>> \o t) = 1 + Len(t)
        /\ \A i \in 1 .. 1 + Len(t) :
             (<<h>> \o t)[i] = IF i <= 1 THEN <<h>>[i] ELSE t[i - 1]
    BY <2>1, <2>2, ConcatProperties
  <2>4. Len(fifo) \in Nat \ {0} /\ Len(t) \in Nat
    BY <1>1, <2>1, EmptySeq, LenProperties
  <2> HIDE DEF h, t
  <2>5. \A i \in 1 .. Len(fifo) : fifo[i] = (<<h>> \o t)[i]
    <3> SUFFICES ASSUME NEW i \in 1 .. Len(fifo) PROVE fifo[i] = (<<h>> \o t)[i]
      OBVIOUS
    <3>1. CASE i = 1
      BY <3>1, <2>2, <2>3, <2>4
    <3>2. CASE i # 1
      <4>1. i - 1 \in 1 .. Len(t) /\ i \in 1 .. 1 + Len(t) /\ (i - 1) + 1 = i
        BY <2>1, <2>4, <3>2
      <4> QED BY <4>1, <2>1, <2>3, <3>2
    <3> QED BY <3>1, <3>2
  <2>6. Len(fifo) = Len(<<h>> \o t)
    BY <2>1, <2>3, <2>4
  <2> QED BY <2>1, <2>2, <2>3, <2>5, <2>6, SeqEqual
<1> HIDE DEF h, t
<1>3. wire' = wire \o <<h>> /\ wire' \in Seq(Bytes)
  BY <1>1, <1>2, AppendProperties, AppendIsConcat
<1>4. (wire \o <<h>>) \o t = wire \o (<<h>> \o t)
  BY <1>2, ConcatAssociative
<1> QED BY <1>1, <1>2, <1>3, <1>4 DEF Stream

\* A byte written to the FIFO is added to the stream.
LEMMA StreamPut ==
  ASSUME wire \in Seq(Bytes), fifo \in Seq(Bytes), NEW b \in Bytes,
         fifo' = Append(fifo, b), wire' = wire
  PROVE  Stream' = Append(Stream, b) /\ Stream \in Seq(Bytes)
<1>1. <<b>> \in Seq(Bytes) /\ Stream \in Seq(Bytes)
  BY ConcatProperties DEF Stream
<1>2. Append(fifo, b) = fifo \o <<b>>
  BY AppendIsConcat
<1>3. Append(Stream, b) = Stream \o <<b>>
  BY <1>1, AppendIsConcat
<1>4. (wire \o fifo) \o <<b>> = wire \o (fifo \o <<b>>)
  BY <1>1, ConcatAssociative
<1> QED BY <1>1, <1>2, <1>3, <1>4 DEF Stream

\* The byte the stream ends before keeps it linked.
LEMMA LinkedAppend ==
  ASSUME NEW s \in Seq(Bytes), Linked(s), NEW m \in 0 .. MaxMsgs, NEW p \in Nat,
         p < MsgLen, EndsBefore(s, m, p)
  PROVE  Linked(Append(s, <<m, p>>)) /\ EndsBefore(Append(s, <<m, p>>), m, p + 1)
<1> DEFINE b == <<m, p>>
           t == Append(s, b)
<1>1. b \in Bytes /\ b[1] = m /\ b[2] = p /\ m \in Nat
  BY UartTxAssumption DEF Bytes, UartTxAssumption
<1>2. /\ Len(t) = Len(s) + 1 /\ \A i \in 1 .. Len(s) : t[i] = s[i]
      /\ t[Len(s) + 1] = b /\ Len(s) \in Nat
  BY <1>1, AppendProperties, LenProperties
<1>3. CASE s = <<>>
  <2>1. m = 0 /\ p = 0 /\ Len(s) = 0
    BY <1>3 DEF EndsBefore, Ended
  <2>2. Len(t) = 1 /\ t[1] = <<0, 0>>
    <3> HIDE DEF t
    <3> QED BY <1>2, <2>1
  <2> HIDE DEF t
  <2>3. Linked(t)
    BY <2>2 DEF Linked
  <2>4. t # <<>>
    <3>1. Len(<<>>) # 1
      OBVIOUS
    <3> QED BY <2>2, <3>1
  <2>5. t[Len(t)] = <<m, (p + 1) - 1>> /\ p + 1 # 0
    BY <2>1, <2>2
  <2> QED BY <2>3, <2>4, <2>5 DEF EndsBefore, t
<1>4. CASE s # <<>>
  <2>0. PICK n \in Nat : n = Len(s) /\ n # 0
    BY <1>2, <1>4, EmptySeq
  <2>1. Follows(s[n], b)
    <3>1. s[n] \in (0 .. MaxMsgs) \X Nat
      BY <2>0, ElementOfSeq DEF Bytes
    <3>2. PICK x \in Nat, y \in Nat : s[n] = <<x, y>>
      BY <3>1, UartTxAssumption DEF UartTxAssumption
    <3>3. CASE p = 0
      <4>1. m # 0 /\ x = m - 1 /\ (y + 1 = MsgLen \/ x \in refused)
        BY <1>4, <2>0, <3>2, <3>3 DEF EndsBefore, Ended
      <4>2. x + 1 = m
        BY <1>1, <4>1
      <4> QED BY <3>2, <3>3, <4>1, <4>2 DEF Follows
    <3>4. CASE p # 0
      <4>1. x = m /\ y = p - 1
        BY <2>0, <3>2, <3>4 DEF EndsBefore
      <4>2. y + 1 = p
        BY <4>1
      <4> QED BY <3>2, <4>1, <4>2 DEF Follows
    <3> QED BY <3>3, <3>4
  <2> HIDE DEF t, b
  <2>2. ASSUME NEW k \in 1 .. Len(t)
        PROVE  IF k = 1 THEN t[k] = <<0, 0>> ELSE Follows(t[k - 1], t[k])
    <3>1. CASE k = n + 1
      <4>1. k # 1 /\ t[k] = b /\ k - 1 = n /\ t[n] = s[n]
        BY <1>2, <2>0, <3>1
      <4> QED BY <2>1, <4>1
    <3>2. CASE k # n + 1
      <4>1. k \in 1 .. n /\ t[k] = s[k]
        BY <1>2, <2>0, <3>2
      <4>2. k # 1 => k - 1 \in 1 .. n /\ t[k - 1] = s[k - 1]
        BY <1>2, <2>0, <4>1
      <4> QED BY <2>0, <4>1, <4>2 DEF Linked
    <3> QED BY <3>1, <3>2
  <2>3. Linked(t)
    BY <2>2 DEF Linked
  <2>4. Len(t) # 0 /\ t[Len(t)] = b /\ p + 1 # 0 /\ (p + 1) - 1 = p
    BY <1>2, <2>0
  <2> QED BY <2>3, <2>4 DEF EndsBefore, t, b
<1> QED BY <1>3, <1>4

LEMMA StreamInit == Init => StreamInv
<1> SUFFICES ASSUME Init PROVE StreamInv
  OBVIOUS
<1>1. /\ ring = <<>> /\ wire = <<>> /\ fifo = <<>> /\ sent = 0
      /\ complete = TRUE /\ pc = "idle"
  BY DEF Init
<1>2. ~Held /\ Whole = 0 /\ Written = 0
  <2>1. ~Held /\ Written = 0 /\ Len(ring) = 0
    BY <1>1 DEF Held, Written
  <2>2. Whole = 0 - 0 - 0
    BY <1>1, <2>1 DEF Whole
  <2> QED BY <2>1, <2>2
<1>3. wire \in Seq(Bytes) /\ Stream = <<>> /\ Len(Stream) = 0
  BY <1>1, ConcatEmptySeq DEF Stream
<1> QED
  BY <1>1, <1>2, <1>3 DEF StreamInv, Linked, EndsBefore, Ended

\* A step that writes nothing and changes neither the queue nor what is held; it may
\* refuse a message a byte.
LEMMA StreamSame ==
  ASSUME StreamInv, UNCHANGED <<ring, msg, sent>>, Held' = Held, Written' = Written,
         wire' \in Seq(Bytes), Stream' = Stream, refused \subseteq refused',
         pc' \in {"dequeue", "claim"} => complete'
  PROVE  StreamInv'
<1>1. Whole' = Whole
  BY DEF Whole
<1>2. Linked(Stream)'
  BY DEF StreamInv, Linked, Follows
<1>3. EndsBefore(Stream, Whole, Written)'
  BY <1>1 DEF StreamInv, EndsBefore, Ended
<1> QED
  BY <1>1, <1>2, <1>3 DEF StreamInv

\* The callback takes the first message off the queue: it is the one after the one
\* held before, and those left follow it.
LEMMA StreamTake ==
  ASSUME StreamInv, ring \in Seq(0 .. MaxMsgs), ring # <<>>
  PROVE  LET r == Tail(ring)
         IN /\ \A i \in 1 .. Len(r) : r[i] + Len(r) + 1 = sent + i
            /\ Head(ring) + Len(r) + 1 = sent
            /\ Len(r) <= sent /\ Len(r) = Len(ring) - 1
            /\ Len(r) \in Nat
<1> DEFINE r == Tail(ring)
<1>1. Len(ring) \in Nat \ {0}
  BY EmptySeq
<1>2. /\ r \in Seq(0 .. MaxMsgs) /\ Len(r) = Len(ring) - 1
      /\ \A i \in 1 .. Len(r) : r[i] = ring[i + 1]
  BY HeadTailProperties
<1>3. Head(ring) = ring[1]
  OBVIOUS
<1>4. \A i \in 1 .. Len(ring) : ring[i] \in Nat /\ ring[i] + Len(ring) + 1 = sent + i
  BY ElementOfSeq, UartTxAssumption DEF StreamInv, UartTxAssumption
<1>5. Len(ring) <= sent /\ sent \in Nat
  BY DEF StreamInv
<1> HIDE DEF r
<1>6. ASSUME NEW i \in 1 .. Len(r)
      PROVE  r[i] + Len(r) + 1 = sent + i
  <2>1. i + 1 \in 1 .. Len(ring)
    BY <1>1, <1>2
  <2>2. PICK v \in Nat : v = r[i] /\ v + Len(ring) + 1 = sent + (i + 1)
    BY <1>2, <1>4, <2>1
  <2>3. PICK l \in Nat, n \in Nat : l = Len(r) /\ n = sent /\ Len(ring) = l + 1
    BY <1>1, <1>2, <1>5
  <2>4. i \in Nat /\ v + (l + 1) + 1 = n + (i + 1)
    BY <2>2, <2>3, <1>1, <1>2
  <2>5. v + l + 1 = n + i
    BY <2>4
  <2> QED BY <2>2, <2>3, <2>5
<1>7. 1 \in 1 .. Len(ring)
  BY <1>1
<1>8. ring[1] \in Nat /\ ring[1] + Len(ring) + 1 = sent + 1
  BY <1>4, <1>7
<1>9. Head(ring) + Len(r) + 1 = sent /\ Len(r) <= sent /\ Len(r) \in Nat
  BY <1>1, <1>2, <1>3, <1>5, <1>8
<1> QED BY <1>2, <1>6, <1>9 DEF r

LEMMA StreamStep ==
  ASSUME ExclusiveInv, RoomInv, WakeInv, StreamInv, [Next]_vars PROVE StreamInv'
<1>0. /\ fifo \in Seq(Bytes) /\ wire \in Seq(Bytes) /\ ring \in Seq(0 .. MaxMsgs)
      /\ pos \in Nat /\ msg \in 0 .. MaxMsgs /\ msg \in Nat /\ sent \in Nat
      /\ complete \in BOOLEAN /\ Len(ring) \in Nat /\ Len(ring) <= sent
      /\ MsgLen \in Nat \ {0}
  BY UartTxAssumption, LenProperties
  DEF RoomInv, StreamInv, ExclusiveInv, UartTxAssumption
<1>1. CASE EnqueuePut
  <2>1. ring' = Append(ring, sent) /\ sent' = sent + 1 /\ pc = "idle" /\ pc' = "check"
        /\ UNCHANGED <<driver, isr, uart, refused>>
    BY <1>1 DEF EnqueuePut
  <2>2. Held' = Held /\ Written' = Written
    BY <2>1 DEF Held, Written, driver
  <2>3. /\ Len(ring') = Len(ring) + 1 /\ ring'[Len(ring) + 1] = sent
        /\ \A i \in 1 .. Len(ring) : ring'[i] = ring[i]
    <3>1. ring \in Seq(Nat)
      BY <1>0, UartTxAssumption, SeqMonotonic DEF UartTxAssumption
    <3> QED BY <1>0, <2>1, <3>1, AppendProperties
  <2>4. Whole' = Whole
    BY <1>0, <2>1, <2>2, <2>3 DEF Whole
  <2>5. ASSUME NEW i \in 1 .. Len(ring') PROVE ring'[i] + Len(ring') + 1 = sent' + i
    <3>1. CASE i = Len(ring) + 1
      BY <1>0, <2>1, <2>3, <3>1
    <3>2. CASE i # Len(ring) + 1
      <4>1. i \in 1 .. Len(ring)
        BY <1>0, <2>3, <3>2
      <4>2. ring[i] \in Nat /\ ring[i] + Len(ring) + 1 = sent + i
        <5>1. ring[i] \in 0 .. MaxMsgs
          BY <1>0, <4>1, ElementOfSeq
        <5>2. ring[i] \in Nat
          BY <5>1, UartTxAssumption DEF UartTxAssumption
        <5>3. \A k \in 1 .. Len(ring) : ring[k] + Len(ring) + 1 = sent + k
          BY DEF StreamInv
        <5> QED BY <4>1, <5>2, <5>3
      <4> QED BY <1>0, <2>1, <2>3, <4>1, <4>2
    <3> QED BY <3>1, <3>2
  <2>6. Held' => msg' + Len(ring') + 1 = sent'
    <3>1. Held => msg + Len(ring) + 1 = sent
      BY DEF StreamInv
    <3>2. msg' = msg
      BY <2>1 DEF driver
    <3>3. Len(ring') = Len(ring) + 1 /\ sent' = sent + 1
      BY <2>1, <2>3
    <3>4. ASSUME Held PROVE msg' + Len(ring') + 1 = sent'
      <4>1. PICK l \in Nat, m \in Nat, n \in Nat :
              l = Len(ring) /\ m = msg /\ n = sent /\ m + l + 1 = n
        BY <1>0, <3>1, <3>4
      <4>2. m + (l + 1) + 1 = n + 1
        BY <4>1
      <4> QED BY <3>2, <3>3, <4>1, <4>2
    <3> QED BY <2>2, <3>4
  <2>7. /\ Linked(Stream)' /\ EndsBefore(Stream, Whole, Written)'
        /\ wire' \in Seq(Bytes) /\ sent' \in Nat /\ Len(ring') <= sent'
    <3>1. Stream' = Stream /\ refused' = refused
      BY <2>1 DEF Stream, uart
    <3>2. Linked(Stream)' /\ EndsBefore(Stream, Whole, Written)'
      BY <2>2, <2>4, <3>1 DEF StreamInv, Linked, Follows, EndsBefore, Ended
    <3> QED BY <1>0, <2>1, <2>3, <3>2 DEF uart
  <2> QED BY <2>1, <2>2, <2>4, <2>5, <2>6, <2>7 DEF StreamInv
<1>2. CASE EnqueueCheck
  <2>1. Held' = Held /\ Written' = Written /\ (pc' = "dequeue" => complete')
    BY <1>2 DEF EnqueueCheck, Held, Written, driver
  <2>2. pc' # "claim" /\ UNCHANGED <<ring, msg, sent, wire, refused>> /\ Stream' = Stream
    BY <1>2 DEF EnqueueCheck, driver, uart, Stream
  <2> QED BY <1>0, <2>1, <2>2, StreamSame
<1>3. CASE StartDequeue
  <2>1. isr = "off" /\ UNCHANGED <<isr, pos, wire, sent>> /\ complete /\ complete'
        /\ pc = "dequeue" /\ Stream' = Stream /\ refused' = refused
    BY <1>3 DEF StartDequeue, StreamInv, uart, Stream
  <2>2. Written = 0 /\ Written' = 0 /\ ~Held
    BY <2>1 DEF Written, Held
  <2>3. CASE ring = <<>>
    <3>1. UNCHANGED <<ring, msg>> /\ pc' = "idle"
      BY <1>3, <2>3 DEF StartDequeue
    <3> QED BY <1>0, <2>1, <2>2, <3>1, StreamSame DEF Held
  <2>4. CASE ring # <<>>
    <3>1. msg' = Head(ring) /\ ring' = Tail(ring) /\ pc' = "claim" /\ Held'
      BY <1>3, <2>4 DEF StartDequeue, Held
    <3>2. /\ \A i \in 1 .. Len(ring') : ring'[i] + Len(ring') + 1 = sent + i
          /\ msg' + Len(ring') + 1 = sent
          /\ Len(ring') <= sent /\ Len(ring') = Len(ring) - 1
      BY <1>0, <2>4, <3>1, StreamTake
    <3>3. Whole' = Whole
      <4>1. Whole = sent - Len(ring)
        BY <1>0, <2>2 DEF Whole
      <4>2. Whole' = sent - Len(ring') - 1
        BY <2>1, <3>1 DEF Whole
      <4> QED BY <1>0, <3>2, <4>1, <4>2
    <3>4. Linked(Stream)' /\ EndsBefore(Stream, Whole, Written)'
      BY <2>1, <2>2, <3>3 DEF StreamInv, Linked, Follows, EndsBefore, Ended
    <3> QED BY <1>0, <2>1, <2>2, <3>1, <3>2, <3>4 DEF StreamInv
  <2> QED BY <2>3, <2>4
<1>4. CASE StartClaim
  <2>1. Held' = Held /\ Written' = Written /\ pc' = "buffer"
    <3>1. pc = "claim" /\ pc' = "buffer" /\ complete /\ complete' = FALSE
      BY <1>4 DEF StartClaim, StreamInv
    <3> QED BY <3>1 DEF Held, Written
  <2>2. UNCHANGED <<ring, msg, sent, wire, refused>> /\ Stream' = Stream
    BY <1>4 DEF StartClaim, uart, Stream
  <2> QED BY <1>0, <2>1, <2>2, StreamSame
<1>5. CASE StartBuffer \/ StartLength \/ StartEnable
  <2>1. /\ UNCHANGED <<complete, ring, msg, sent, wire, fifo, refused>> /\ ~complete
        /\ pc \in {"buffer", "length", "enable"} /\ pc' \in {"length", "enable", "idle"}
    BY <1>5 DEF StartBuffer, StartLength, StartEnable, driver, uart, ExclusiveInv
  <2>2. Held' = Held /\ Stream' = Stream
    BY <2>1 DEF Held, Stream
  <2>3. Written' = Written
    BY <1>5, <2>1 DEF Written, StartBuffer, StartLength, StartEnable, driver
  <2> QED BY <1>0, <2>1, <2>2, <2>3, StreamSame
<1>6. CASE IsrEnter \/ IsrStatus \/ IsrFill
  <2>1. UNCHANGED <<complete, pos, pc, ring, msg, sent, wire, fifo>> /\ refused \subseteq refused'
    BY <1>6 DEF IsrEnter, IsrStatus, IsrFill, driver, uart
  <2>2. /\ Held' = Held /\ Stream' = Stream /\ Written' = Written
        /\ pc' \in {"dequeue", "claim"} => complete'
    BY <2>1 DEF Held, Stream, Written, StreamInv
  <2> QED BY <1>0, <2>1, <2>2, StreamSame
\* A byte is written: it is byte pos of the message held.
<1>7. ASSUME isr = "put", PutByte, wire' = wire
      PROVE  /\ Held /\ ~complete /\ pc \in {"idle", "check"} /\ Whole = msg
             /\ msg + Len(ring) + 1 = sent /\ pos < MsgLen /\ length \in Nat
             /\ length = 0 => pos + 1 = MsgLen \/ msg \in refused
             /\ Linked(Stream') /\ EndsBefore(Stream', msg, pos + 1)
  <2>1. ~complete /\ pc \in {"idle", "check"}
    BY <1>7 DEF ExclusiveInv
  <2>2. length \in Nat /\ pos < MsgLen /\ (length = 0 => pos + 1 = MsgLen \/ msg \in refused)
    BY <1>7 DEF WakeInv, Left
  <2>3. Held /\ Written = pos
    BY <2>1 DEF Held, Written
  <2>4. msg + Len(ring) + 1 = sent
    BY <2>3 DEF StreamInv
  <2>5. Whole = msg
    BY <1>0, <2>3, <2>4 DEF Whole
  <2>6. EndsBefore(Stream, msg, pos) /\ Linked(Stream)
    BY <2>3, <2>5 DEF StreamInv
  <2>7. <<msg, pos>> \in Bytes
    BY <1>0 DEF Bytes
  <2>8. Stream' = Append(Stream, <<msg, pos>>) /\ Stream \in Seq(Bytes)
    BY <1>0, <1>7, <2>7, StreamPut DEF PutByte
  <2>9. Linked(Append(Stream, <<msg, pos>>)) /\ EndsBefore(Append(Stream, <<msg, pos>>), msg, pos + 1)
    BY <1>0, <2>2, <2>6, <2>8, LinkedAppend
  <2> QED BY <2>1, <2>2, <2>3, <2>4, <2>5, <2>8, <2>9
<1>8. CASE IsrPutByte
  <2>1. /\ isr = "put" /\ pos' = pos + 1 /\ PutByte
        /\ UNCHANGED <<wire, ring, complete, msg, pc, sent, refused>>
    BY <1>8 DEF IsrPutByte
  <2>2. Held' /\ Held /\ Written' = pos + 1
    BY <1>7, <2>1 DEF Held, Written
  <2>3. Whole' = msg
    BY <1>7, <2>1, <2>2 DEF Whole
  <2>4. Linked(Stream)' /\ EndsBefore(Stream, Whole, Written)'
    BY <1>7, <2>1, <2>2, <2>3 DEF Linked, Follows, EndsBefore, Ended
  <2> QED BY <1>0, <1>7, <2>1, <2>2, <2>4 DEF StreamInv
<1>9. CASE IsrPutLast
  <2>1. /\ isr = "put" /\ length = 0 /\ PutByte
        /\ UNCHANGED <<wire, pc, sent, refused>>
    BY <1>9 DEF IsrPutLast
  <2>2. Linked(Stream)' /\ Ended(Stream', msg + 1) /\ pc \in {"idle", "check"}
    <3>1. /\ Linked(Stream') /\ Stream' # <<>> /\ Stream'[Len(Stream')] = <<msg, (pos + 1) - 1>>
          /\ pos + 1 = MsgLen \/ msg \in refused
      BY <1>0, <1>7, <2>1 DEF EndsBefore
    <3>2. (pos + 1) - 1 = pos /\ (msg + 1) - 1 = msg /\ msg + 1 # 0
      BY <1>0
    <3>3. Ended(Stream', msg + 1)
      BY <3>1, <3>2 DEF Ended
    <3> QED BY <1>7, <2>1, <3>1, <3>3 DEF Linked, Follows
  <2>3. ASSUME Whole' = msg + 1, Written' = 0 PROVE EndsBefore(Stream, Whole, Written)'
    BY <2>1, <2>2, <2>3 DEF EndsBefore, Ended
  <2>4. msg + Len(ring) + 1 = sent
    BY <1>7, <2>1
  <2>6. CASE ring = <<>>
    <3>1. complete' = TRUE /\ UNCHANGED <<ring, msg>>
      BY <1>9, <2>6 DEF IsrPutLast
    <3>2. ~Held' /\ Written' = 0
      BY <2>1, <2>2, <3>1 DEF Held, Written
    <3>3. Whole' = msg + 1
      <4>1. Len(ring) = 0 /\ Whole' = sent - Len(ring) - 0
        BY <2>1, <2>6, <3>1, <3>2 DEF Whole
      <4>2. msg + 0 + 1 = sent
        BY <2>4, <4>1
      <4> QED BY <1>0, <4>1, <4>2
    <3> QED BY <1>0, <2>1, <2>2, <2>3, <3>1, <3>2, <3>3 DEF StreamInv
  <2>7. CASE ring # <<>>
    <3>1. complete' = FALSE /\ msg' = Head(ring) /\ ring' = Tail(ring) /\ pos' = 0
      BY <1>9, <2>7 DEF IsrPutLast
    <3>2. /\ \A i \in 1 .. Len(ring') : ring'[i] + Len(ring') + 1 = sent + i
          /\ msg' + Len(ring') + 1 = sent
          /\ Len(ring') <= sent /\ Len(ring') = Len(ring) - 1
      BY <1>0, <2>7, <3>1, StreamTake
    <3>3. Held' /\ Written' = 0
      BY <3>1 DEF Held, Written
    <3>4. Whole' = msg + 1
      <4>1. Whole' = sent - Len(ring') - 1
        BY <2>1, <3>3 DEF Whole
      <4>2. PICK l \in Nat, m \in Nat, n \in Nat :
              l = Len(ring) /\ m = msg /\ n = sent /\ m + l + 1 = n
        BY <1>0, <2>4
      <4>3. Len(ring') = l - 1
        BY <3>2, <4>2
      <4>4. n - (l - 1) - 1 = m + 1
        BY <4>2
      <4> QED BY <4>1, <4>2, <4>3, <4>4
    <3>5. pc' \notin {"dequeue", "claim"}
      BY <2>1, <2>2
    <3> QED BY <1>0, <2>1, <2>2, <2>3, <3>2, <3>3, <3>4, <3>5 DEF StreamInv
  <2> QED BY <2>6, <2>7
<1>10. CASE Shift
  <2>1. wire' \in Seq(Bytes) /\ Stream' = Stream
    BY <1>0, <1>10, StreamShift
  <2>2. UNCHANGED <<ring, complete, msg, pos, pc, isr, sent, refused>>
    BY <1>10 DEF Shift, driver
  <2>3. Held' = Held /\ Written' = Written /\ (pc' \in {"dequeue", "claim"} => complete')
    BY <2>2 DEF Held, Written, StreamInv
  <2> QED BY <2>1, <2>2, <2>3, StreamSame
<1>11. CASE UNCHANGED vars
  <2>1. UNCHANGED <<ring, complete, msg, pos, pc, isr, sent, wire, fifo, refused>>
    BY <1>11 DEF vars, driver, uart
  <2>2. /\ Held' = Held /\ Written' = Written /\ Stream' = Stream
        /\ pc' \in {"dequeue", "claim"} => complete'
    BY <2>1 DEF Held, Written, Stream, StreamInv
  <2> QED BY <1>0, <2>1, <2>2, StreamSame
<1> QED
  BY <1>1, <1>2, <1>3, <1>4, <1>5, <1>6, <1>8, <1>9, <1>10, <1>11 DEF Next, Main, Isr

\* Whatever is transmitted is in the order it was queued, in whole messages but for
\* the ends of those the FIFO's limit refused, however many are queued (per_uart.c: the
\* loop over tx_length and tx_fifo_level; dev_mcu.c, dev_trs.c: the callback).
THEOREM StreamFramed == Spec => []Framed
<1>1. StreamInv => Framed
  BY DEF StreamInv, Linked, Framed, Stream
<1> QED
  BY <1>1, ExclusiveInit, ExclusiveStep, RoomInit, RoomStep, WakeInit, WakeStep,
     StreamInit, StreamStep, PTL DEF Spec

-----------------------------------------------------------------------------
(* The cache of LED brightnesses.                                          *)

Brightness == Levels \cup {0, Full}

\* What the service sends.
Commands ==
  [id : {"init", "buttons"}] \cup [id : {"mode"}, continuous : BOOLEAN]
    \cup [id : {"led"}, led : Leds, level : Brightness]

PanelTypes ==
  /\ led \in [Leds -> Brightness]
  /\ mcu \in [led : [Leds -> Brightness], continuous : BOOLEAN]
  /\ tx \in Seq(Commands) /\ Len(tx) <= TxLen
  /\ txDropped \in BOOLEAN

\* Command m sets LED l.
SetsLed(m, l) == m.id = "led" /\ m.led = l

\* Where the last command for l is in q, 0 for nowhere.
LastFor(q, l) == SelectLastInSeq(q, LAMBDA m : m.id = "led" /\ m.led = l)

\* What l will show when it now shows what `shown' says and q is still to come.
Shows(q, shown, l) == IF LastFor(q, l) = 0 THEN shown[l] ELSE q[LastFor(q, l)].level

LEMMA ComingIsShows == ASSUME NEW l PROVE Coming(l) = Shows(tx, mcu.led, l)
BY DEF Coming, Shows, LastFor

LEMMA ComingIsShowsNext ==
  ASSUME NEW l PROVE Coming(l)' = Shows(tx', mcu'.led, l)
BY DEF Coming, Shows, LastFor, SelectLastInSeq

\* A set of numbers up to n has a largest, if it has any.
LEMMA Largest ==
  ASSUME NEW n \in Nat, NEW S \in SUBSET (1 .. n), S # {}
  PROVE  Max(S) \in S /\ \A i \in S : i <= Max(S)
<1> DEFINE T == {n - i : i \in S}
<1>1. T \subseteq Nat /\ T # {}
  <2>1. \A i \in S : i \in 1 .. n /\ n - i \in Nat
    OBVIOUS
  <2>2. PICK i : i \in S
    OBVIOUS
  <2>3. n - i \in T
    BY <2>2
  <2> QED BY <2>1, <2>3
<1>2. \E x \in T : \A y \in T : ~(<<y, x>> \in OpToRel(<, Nat))
  <2> HIDE DEF T
  <2> QED BY <1>1, NatLessThanWellFounded, WFMin
<1>3. PICK x \in T : \A y \in T : ~(y < x)
  BY <1>1, <1>2 DEF OpToRel
<1>4. PICK i \in S : x = n - i
  OBVIOUS
<1>5. \A j \in S : i >= j
  <2> TAKE j \in S
  <2>1. ~(n - j < x)
    BY <1>3
  <2> QED BY <2>1, <1>4
<1>6. \E k \in S : \A j \in S : k >= j
  BY <1>5
<1>7. Max(S) \in S /\ \A j \in S : Max(S) >= j
  BY <1>6 DEF Max
<1> QED BY <1>7

LEMMA LastForSound ==
  ASSUME NEW q \in Seq(Commands), NEW l
  PROVE  /\ LastFor(q, l) \in 0 .. Len(q)
         /\ LastFor(q, l) # 0 => SetsLed(q[LastFor(q, l)], l)
         /\ \A i \in 1 .. Len(q) : SetsLed(q[i], l) => i <= LastFor(q, l)
<1> DEFINE I == {i \in 1 .. Len(q) : q[i].id = "led" /\ q[i].led = l}
<1>1. LastFor(q, l) = IF I # {} THEN Max(I) ELSE 0
  BY DEF LastFor, SelectLastInSeq
<1>2. I \in SUBSET (1 .. Len(q)) /\ Len(q) \in Nat
  OBVIOUS
<1>3. CASE I = {}
  BY <1>1, <1>2, <1>3 DEF SetsLed
<1>4. CASE I # {}
  <2>1. Max(I) \in I /\ \A i \in I : i <= Max(I)
    <3> HIDE DEF I
    <3> QED BY <1>2, <1>4, Largest
  <2> QED BY <1>1, <1>2, <1>4, <2>1 DEF SetsLed
<1> QED BY <1>3, <1>4

\* The place that nothing later supersedes is the last.
LEMMA LastForUnique ==
  ASSUME NEW q \in Seq(Commands), NEW l, NEW p \in 0 .. Len(q),
         p # 0 => SetsLed(q[p], l), \A i \in p + 1 .. Len(q) : ~SetsLed(q[i], l)
  PROVE  LastFor(q, l) = p
<1> PICK n \in Nat : n = LastFor(q, l)
  BY LastForSound
<1>1. /\ n \in 0 .. Len(q) /\ (n # 0 => SetsLed(q[n], l))
      /\ \A i \in 1 .. Len(q) : SetsLed(q[i], l) => i <= n
  BY LastForSound
<1>2. ~(n < p)
  BY <1>1
<1>3. ~(p < n)
  BY <1>1
<1> QED BY <1>2, <1>3

\* What a command appended to the queue does to what an LED will show.
LEMMA ShowsAppend ==
  ASSUME NEW q \in Seq(Commands), NEW m \in Commands, NEW shown, NEW l
  PROVE  Shows(Append(q, m), shown, l)
           = IF SetsLed(m, l) THEN m.level ELSE Shows(q, shown, l)
<1> DEFINE r == Append(q, m)
<1>1. /\ r \in Seq(Commands) /\ Len(r) = Len(q) + 1 /\ r[Len(q) + 1] = m
      /\ \A i \in 1 .. Len(q) : r[i] = q[i]
  OBVIOUS
<1>2. CASE SetsLed(m, l)
  <2>1. LastFor(r, l) = Len(q) + 1
    <3> HIDE DEF r
    <3>1. Len(q) + 1 \in 0 .. Len(r) /\ SetsLed(r[Len(q) + 1], l)
      BY <1>1, <1>2
    <3>2. \A i \in (Len(q) + 1) + 1 .. Len(r) : FALSE
      BY <1>1
    <3> QED BY <1>1, <3>1, <3>2, LastForUnique
  <2> QED BY <1>1, <1>2, <2>1 DEF Shows
<1>3. CASE ~SetsLed(m, l)
  <2> PICK p \in 0 .. Len(q) : p = LastFor(q, l)
    BY LastForSound
  <2>1. /\ p # 0 => SetsLed(q[p], l)
        /\ \A i \in 1 .. Len(q) : SetsLed(q[i], l) => i <= p
    BY LastForSound
  <2>2. /\ p \in 0 .. Len(r) /\ (p # 0 => SetsLed(r[p], l))
        /\ \A i \in p + 1 .. Len(r) : ~SetsLed(r[i], l)
    <3> HIDE DEF r
    <3> QED BY <1>1, <1>3, <2>1
  <2>3. LastFor(r, l) = p
    <3> HIDE DEF r
    <3> QED BY <1>1, <2>2, LastForUnique
  <2> QED BY <1>1, <1>3, <2>3 DEF Shows
<1> QED BY <1>2, <1>3

\* What the MCU does by taking the first command.
LEMMA ShowsTail ==
  ASSUME NEW q \in Seq(Commands), q # <<>>, NEW shown, NEW after, NEW l,
         after[l] = IF SetsLed(Head(q), l) THEN Head(q).level ELSE shown[l]
  PROVE  Shows(Tail(q), after, l) = Shows(q, shown, l)
<1> DEFINE r == Tail(q)
<1>1. /\ r \in Seq(Commands) /\ Len(q) \in Nat \ {0} /\ Len(r) = Len(q) - 1 /\ Head(q) = q[1]
      /\ \A i \in 1 .. Len(q) - 1 : r[i] = q[i + 1]
  OBVIOUS
<1> PICK p \in 0 .. Len(q) : p = LastFor(q, l)
  BY LastForSound
<1>2. /\ p # 0 => SetsLed(q[p], l)
      /\ \A i \in 1 .. Len(q) : SetsLed(q[i], l) => i <= p
  BY LastForSound
<1>3. \A i \in p .. Len(r) : i # 0 => ~SetsLed(r[i], l)
  <2> HIDE DEF r
  <2> QED BY <1>1, <1>2
<1>4. CASE p \in {0, 1}
  <2>1. LastFor(r, l) = 0
    <3> HIDE DEF r
    <3>1. \A i \in 0 + 1 .. Len(r) : ~SetsLed(r[i], l)
      BY <1>1, <1>3, <1>4
    <3> QED BY <1>1, <3>1, LastForUnique
  <2>2. p = 0 => ~SetsLed(q[1], l)
    BY <1>1, <1>2
  <2> QED BY <1>1, <1>2, <1>4, <2>1, <2>2 DEF Shows
<1>5. CASE p \notin {0, 1}
  <2>1. p - 1 \in 1 .. Len(r) /\ r[p - 1] = q[p]
    <3> HIDE DEF r
    <3> QED BY <1>1, <1>5
  <2>2. LastFor(r, l) = p - 1
    <3> HIDE DEF r
    <3>0. (p - 1) + 1 = p /\ 0 \notin p .. Len(r)
      BY <1>1, <1>5
    <3>1. \A i \in (p - 1) + 1 .. Len(r) : ~SetsLed(r[i], l)
      BY <1>3, <3>0
    <3> QED BY <1>1, <1>2, <2>1, <3>1, LastForUnique
  <2> QED BY <1>1, <1>5, <2>1, <2>2 DEF Shows
<1> QED BY <1>4, <1>5

-----------------------------------------------------------------------------
CacheInv == PanelTypes /\ CacheCoherent

LEMMA CacheStart == PanelStart => CacheInv
<1> SUFFICES ASSUME PanelStart PROVE CacheInv
  OBVIOUS
<1>1. PanelTypes
  <2>1. led \in [Leds -> Brightness] /\ tx = <<>> /\ txDropped = FALSE
    BY DEF PanelStart, Brightness
  <2>2. mcu \in [led : [Leds -> Brightness], continuous : BOOLEAN]
    <3>1. [l \in Leds |-> 0] \in [Leds -> Brightness]
      BY DEF Brightness
    <3> QED BY <3>1 DEF PanelStart
  <2>3. <<>> \in Seq(Commands) /\ Len(<<>>) <= TxLen
    BY PanelAssumption
  <2> QED BY <2>1, <2>2, <2>3 DEF PanelTypes
<1>2. \A l \in Leds : led[l] = Coming(l)
  <2> TAKE l \in Leds
  <2>1. <<>> \in Seq(Commands) /\ 0 .. Len(<<>>) = {0}
    OBVIOUS
  <2>2. LastFor(<<>>, l) = 0
    BY <2>1, LastForSound
  <2> QED BY <2>2, ComingIsShows DEF PanelStart, Shows
<1> QED BY <1>1, <1>2 DEF CacheInv, CacheCoherent

\* A queued command, and the cache that goes with it.
LEMMA CacheSend ==
  ASSUME CacheInv, NEW m \in Commands, Send(m), mcu' = mcu,
         led' \in [Leds -> Brightness],
         \A l \in Leds : led'[l] = IF SetsLed(m, l) THEN m.level ELSE led[l]
  PROVE  CacheInv'
<1> USE DEF CacheInv, PanelTypes
<1>1. CASE Len(tx) < TxLen
  <2>1. tx' = Append(tx, m) /\ (txDropped' <=> txDropped)
    BY <1>1, PanelAssumption DEF Send, Queued
  <2>2. PanelTypes'
    <3>1. tx' \in Seq(Commands) /\ Len(tx') = Len(tx) + 1
      BY <2>1
    <3>2. txDropped' \in BOOLEAN
      BY <1>1 DEF Send
    <3>3. Len(tx') <= TxLen
      BY <1>1, <3>1, PanelAssumption
    <3> QED BY <3>1, <3>2, <3>3
  <2>3. ASSUME NEW l \in Leds, ~txDropped PROVE led'[l] = Coming(l)'
    <3>1. led[l] = Shows(tx, mcu.led, l)
      BY <2>3, ComingIsShows DEF CacheCoherent
    <3>2. Shows(tx', mcu.led, l) = IF SetsLed(m, l) THEN m.level ELSE Shows(tx, mcu.led, l)
      BY <2>1, ShowsAppend
    <3> QED BY <3>1, <3>2, ComingIsShowsNext
  <2> QED BY <2>1, <2>2, <2>3 DEF CacheCoherent
<1>2. CASE Len(tx) = TxLen
  <2>1. ~(Len(tx) < TxLen) /\ Len(tx) \in Nat \ {0} /\ tx # <<>>
    BY <1>2, PanelAssumption
  <2>2. tx' = Append(Tail(tx), m) /\ (txDropped' <=> TRUE)
    BY <1>2, <2>1 DEF Send, Queued
  <2>3. txDropped' \in BOOLEAN
    BY <1>2 DEF Send
  <2>4. Tail(tx) \in Seq(Commands) /\ Len(Tail(tx)) = Len(tx) - 1
    BY <2>1
  <2>5. tx' \in Seq(Commands) /\ Len(tx') = Len(Tail(tx)) + 1
    BY <2>2, <2>4
  <2>6. Len(tx') <= TxLen
    BY <1>2, <2>1, <2>4, <2>5, PanelAssumption
  <2>7. PanelTypes'
    BY <2>3, <2>5, <2>6
  <2> QED BY <2>2, <2>7 DEF CacheCoherent
<1> QED BY <1>1, <1>2, PanelAssumption

LEMMA CacheStep == ASSUME CacheInv, [PanelNext]_panelVars PROVE CacheInv'
<1>0. led \in [Leds -> Brightness]
  BY DEF CacheInv, PanelTypes
<1>1. CASE UNCHANGED <<led, tx, mcu, txDropped>>
  <2>1. PanelTypes'
    BY <1>1 DEF CacheInv, PanelTypes
  <2>2. \A l \in Leds : Coming(l)' = Coming(l)
    BY <1>1, ComingIsShows, ComingIsShowsNext
  <2> QED BY <1>1, <2>1, <2>2 DEF CacheInv, CacheCoherent
<1>2. CASE PanelInit
  <2> DEFINE m == [id |-> "init"]
  <2>1. m \in Commands /\ \A l : ~SetsLed(m, l)
    BY DEF Commands, SetsLed
  <2>2. Send(m) /\ mcu' = mcu /\ led' = led
    BY <1>2 DEF PanelInit, mcuVars
  <2> HIDE DEF m
  <2> QED BY <1>0, <2>1, <2>2, CacheSend
<1>3. CASE RequestButtons
  <2> DEFINE m == [id |-> "buttons"]
  <2>1. m \in Commands /\ \A l : ~SetsLed(m, l)
    BY DEF Commands, SetsLed
  <2>2. Send(m) /\ mcu' = mcu /\ led' = led
    BY <1>3 DEF RequestButtons, Calls, mcuVars
  <2> HIDE DEF m
  <2> QED BY <1>0, <2>1, <2>2, CacheSend
<1>4. CASE \E on \in BOOLEAN : SetTriggerMode(on)
  <2> PICK on \in BOOLEAN : SetTriggerMode(on)
    BY <1>4
  <2> DEFINE m == [id |-> "mode", continuous |-> on]
  <2>1. m \in Commands /\ \A l : ~SetsLed(m, l)
    BY DEF Commands, SetsLed
  <2>2. Send(m) /\ mcu' = mcu /\ led' = led
    BY DEF SetTriggerMode, Calls, mcuVars
  <2> HIDE DEF m
  <2> QED BY <1>0, <2>1, <2>2, CacheSend
<1>5. ASSUME NEW l \in Leds, ToggleLed(l) PROVE CacheInv'
  <2> DEFINE brightness == IF led[l] # 0 THEN 0 ELSE Full
             m == [id |-> "led", led |-> l, level |-> brightness]
  <2>1. m \in Commands /\ brightness \in Brightness
    BY DEF Commands, Brightness
  <2>2. Send(m) /\ mcu' = mcu /\ led' = [led EXCEPT ![l] = brightness]
    BY <1>5 DEF ToggleLed, Calls, mcuVars
  <2>3. \A k : SetsLed(m, k) <=> k = l
    BY DEF SetsLed
  <2>4. m.level = brightness
    OBVIOUS
  <2> HIDE DEF m, brightness
  <2> QED BY <1>0, <2>1, <2>2, <2>3, <2>4, CacheSend
<1>6. ASSUME NEW l \in Leds, NEW brightness \in Levels, SetLed(l, brightness) PROVE CacheInv'
  <2> DEFINE m == [id |-> "led", led |-> l, level |-> brightness]
  <2>1. m \in Commands /\ brightness \in Brightness
    BY DEF Commands, Brightness
  <2>2. Send(m) /\ mcu' = mcu /\ led' = [led EXCEPT ![l] = brightness]
    BY <1>6 DEF SetLed, Calls, mcuVars
  <2>3. \A k : SetsLed(m, k) <=> k = l
    BY DEF SetsLed
  <2>4. m.level = brightness
    OBVIOUS
  <2> HIDE DEF m
  <2> QED BY <1>0, <2>1, <2>2, <2>3, <2>4, CacheSend
<1>7. CASE McuTake
  <2>1. /\ tx # <<>> /\ tx' = Tail(tx) /\ led' = led /\ txDropped' = txDropped
        /\ tx \in Seq(Commands) /\ Len(tx) <= TxLen
    BY <1>7 DEF McuTake, McuSteps, history, CacheInv, PanelTypes
  <2>2. Head(tx) \in Commands
    BY <2>1
  <2>3. /\ mcu' \in [led : [Leds -> Brightness], continuous : BOOLEAN]
        /\ \A l \in Leds : mcu'.led[l]
             = IF SetsLed(Head(tx), l) THEN Head(tx).level ELSE mcu.led[l]
    <3> DEFINE m == Head(tx)
    <3>1. mcu \in [led : [Leds -> Brightness], continuous : BOOLEAN]
      BY DEF CacheInv, PanelTypes
    <3>2. CASE m.id = "led"
      <4>1. mcu' = [mcu EXCEPT !.led[m.led] = m.level]
        BY <1>7, <3>2 DEF McuTake
      <4>2. m.led \in Leds /\ m.level \in Brightness
        BY <2>2, <3>2 DEF Commands
      <4> QED BY <3>1, <3>2, <4>1, <4>2 DEF SetsLed
    <3>3. CASE m.id = "mode"
      <4>1. mcu' = [mcu EXCEPT !.continuous = m.continuous]
        BY <1>7, <3>3 DEF McuTake
      <4>2. m.continuous \in BOOLEAN
        BY <2>2, <3>3 DEF Commands
      <4> QED BY <3>1, <3>3, <4>1, <4>2 DEF SetsLed
    <3>4. CASE m.id \notin {"led", "mode"}
      BY <1>7, <3>1, <3>4 DEF McuTake, SetsLed
    <3> QED BY <3>2, <3>3, <3>4
  <2>4. PanelTypes'
    <3>1. Tail(tx) \in Seq(Commands) /\ Len(Tail(tx)) <= TxLen
      BY <2>1, PanelAssumption
    <3>2. txDropped \in BOOLEAN
      BY DEF CacheInv, PanelTypes
    <3> QED BY <2>1, <2>3, <3>1, <3>2, <1>0 DEF PanelTypes
  <2>5. ASSUME NEW l \in Leds PROVE Coming(l)' = Coming(l)
    <3>1. Shows(tx', mcu'.led, l) = Shows(tx, mcu.led, l)
      <4>1. mcu'.led[l] = IF SetsLed(Head(tx), l) THEN Head(tx).level ELSE mcu.led[l]
        BY <2>3
      <4>2. Shows(Tail(tx), mcu'.led, l) = Shows(tx, mcu.led, l)
        BY <2>1, <4>1, ShowsTail
      <4> QED BY <2>1, <4>2
    <3> QED BY <3>1, ComingIsShows, ComingIsShowsNext
  <2> QED BY <2>1, <2>4, <2>5 DEF CacheInv, CacheCoherent
<1>8. CASE Task \/ McuHigh \/ (\E i \in Inputs : Input(i))
  BY <1>1, <1>8 DEF Task, McuHigh, Input, McuSteps, mcuVars, history
<1>9. CASE Register
  BY <1>1, <1>9 DEF Register, Calls, mcuVars, history
<1>10. CASE UNCHANGED panelVars
  BY <1>1, <1>10 DEF panelVars, mcuVars, history
<1> QED
  BY <1>2, <1>3, <1>4, <1>5, <1>6, <1>7, <1>8, <1>9, <1>10 DEF PanelNext, Mcu

\* The cache holds what each LED shows or is about to show, for any LEDs, levels
\* and queue lengths.
THEOREM CacheIsShown == PanelSpec => []CacheCoherent
<1>1. CacheInv => CacheCoherent
  BY DEF CacheInv
<1> QED BY <1>1, CacheStart, CacheStep, PTL DEF PanelSpec

-----------------------------------------------------------------------------
(* The answers to requests and the events.                                 *)

\* What the MCU sends: a knob's identity may stand for a pad, a pad's stands for
\* nothing else.
Messages ==
  {m \in [id : {"event"}, input : Inputs, event : {"trigger", "knob"}] :
      m.event = "trigger" => m.input = "pad"}
    \cup [id : {"ack"}] \cup [id : {"low", "high"}, answer : Nat]

AnswerTypes ==
  /\ rx \in Seq(Messages) /\ Len(rx) <= RxLen
  /\ held \in Nat \X Nat /\ answers \in Nat
  /\ highDue \in BOOLEAN /\ rxDropped \in BOOLEAN

\* When the first n messages of q have been taken, and `low' was there before, the
\* low word is that of answer x.
LowAfter(q, low, n, x) ==
  \/ /\ low = x
     /\ \A j \in 1 .. n : q[j].id # "low"
  \/ \E j \in 1 .. n :
       /\ q[j].id = "low" /\ q[j].answer = x
       /\ \A k \in j + 1 .. n : q[k].id # "low"

\* Each high word comes when the low word is of the same answer: those on their
\* way, and the one the MCU still has to send.
WordsMeet ==
  /\ \A i \in 1 .. Len(rx) : rx[i].id = "high" =>
       rx[i].answer > 0 /\ LowAfter(rx, held[1], i - 1, rx[i].answer)
  /\ highDue => answers > 0 /\ LowAfter(rx, held[1], Len(rx), answers)

AnswerInv == AnswerTypes /\ (~rxDropped => WordsMeet)

LEMMA AnswerStart == PanelStart => AnswerInv
<1> SUFFICES ASSUME PanelStart PROVE AnswerInv
  OBVIOUS
<1>1. /\ <<>> \in Seq(Messages) /\ 0 <= RxLen /\ Len(<<>>) = 0
      /\ <<0, 0>> \in Nat \X Nat
  BY PanelAssumption
<1>2. AnswerTypes
  BY <1>1 DEF PanelStart, AnswerTypes
<1>3. WordsMeet
  BY <1>1 DEF PanelStart, WordsMeet
<1> QED BY <1>2, <1>3 DEF AnswerInv

\* A message that is not a low word, appended, leaves the low word there was; one
\* that is replaces it.
LEMMA LowAppend ==
  ASSUME NEW q \in Seq(Messages), NEW m \in Messages, NEW low, NEW x
  PROVE  /\ \A n \in 0 .. Len(q) :
              LowAfter(q, low, n, x) => LowAfter(Append(q, m), low, n, x)
         /\ m.id # "low" /\ LowAfter(q, low, Len(q), x)
              => LowAfter(Append(q, m), low, Len(q) + 1, x)
         /\ m.id = "low" => LowAfter(Append(q, m), low, Len(q) + 1, m.answer)
<1> DEFINE r == Append(q, m)
<1>1. /\ Len(q) \in Nat /\ Len(r) = Len(q) + 1 /\ r[Len(q) + 1] = m
      /\ \A i \in 1 .. Len(q) : r[i] = q[i]
  OBVIOUS
<1> HIDE DEF r
<1>2. ASSUME NEW n \in 0 .. Len(q), LowAfter(q, low, n, x) PROVE LowAfter(r, low, n, x)
  BY <1>1, <1>2 DEF LowAfter
<1>3. ASSUME m.id # "low", LowAfter(q, low, Len(q), x) PROVE LowAfter(r, low, Len(q) + 1, x)
  BY <1>1, <1>3 DEF LowAfter
<1>4. ASSUME m.id = "low" PROVE LowAfter(r, low, Len(q) + 1, m.answer)
  BY <1>1, <1>4 DEF LowAfter
<1> QED BY <1>2, <1>3, <1>4 DEF r

\* Taking the first message stores its low word.
LEMMA LowTail ==
  ASSUME NEW q \in Seq(Messages), q # <<>>, NEW low, NEW x, NEW n \in 1 .. Len(q),
         LowAfter(q, low, n, x)
  PROVE  LowAfter(Tail(q), IF Head(q).id = "low" THEN Head(q).answer ELSE low, n - 1, x)
<1> DEFINE r == Tail(q)
           after == IF Head(q).id = "low" THEN Head(q).answer ELSE low
<1>1. /\ Len(q) \in Nat \ {0} /\ Len(r) = Len(q) - 1 /\ Head(q) = q[1]
      /\ \A i \in 1 .. Len(q) - 1 : r[i] = q[i + 1]
  OBVIOUS
<1> HIDE DEF r
<1>2. CASE low = x /\ \A j \in 1 .. n : q[j].id # "low"
  BY <1>1, <1>2 DEF LowAfter
<1>3. ASSUME NEW j \in 1 .. n, q[j].id = "low", q[j].answer = x,
             \A k \in j + 1 .. n : q[k].id # "low"
      PROVE  LowAfter(r, after, n - 1, x)
  <2>1. CASE j = 1
    BY <1>1, <1>3, <2>1 DEF LowAfter
  <2>2. CASE j # 1
    <3>1. j - 1 \in 1 .. n - 1 /\ r[j - 1] = q[j]
      BY <1>1, <2>2
    <3>2. \A k \in (j - 1) + 1 .. n - 1 : r[k].id # "low"
      BY <1>1, <1>3, <2>2
    <3> QED BY <1>3, <3>1, <3>2 DEF LowAfter
  <2> QED BY <2>1, <2>2
<1> HIDE DEF after
<1> QED BY <1>2, <1>3 DEF LowAfter, r, after

\* A message that arrives: a low word is that of the answer the MCU goes on with,
\* a high word that of the answer whose low word it was sent after.
LEMMA AnswerReceive ==
  ASSUME AnswerInv, NEW m \in Messages, Receive(m), held' = held,
         answers' \in Nat, highDue' \in BOOLEAN,
         m.id = "low" => ~highDue /\ answers' > 0 /\ m.answer = answers',
         m.id = "high" => highDue /\ m.answer = answers,
         m.id # "low" => answers' = answers /\ (highDue' => highDue)
  PROVE  AnswerInv'
<1>1. /\ rx \in Seq(Messages) /\ Len(rx) <= RxLen /\ Len(rx) \in Nat
      /\ held \in Nat \X Nat /\ answers \in Nat
  BY DEF AnswerInv, AnswerTypes
<1>2. rxDropped' \in BOOLEAN
  BY DEF Receive
<1>3. CASE Len(rx) < RxLen
  <2>1. rx' = Append(rx, m)
    BY <1>3 DEF Receive, Queued
  <2>2. ~rxDropped' => ~rxDropped
    BY DEF Receive
  <2>3. /\ rx' \in Seq(Messages) /\ Len(rx') = Len(rx) + 1 /\ rx'[Len(rx) + 1] = m
        /\ \A i \in 1 .. Len(rx) : rx'[i] = rx[i]
    BY <1>1, <2>1
  <2>4. Len(rx') <= RxLen
    BY <1>1, <1>3, <2>3, PanelAssumption
  <2>5. AnswerTypes'
    BY <1>1, <1>2, <2>3, <2>4 DEF AnswerTypes
  <2>6. ASSUME ~rxDropped, NEW i \in 1 .. Len(rx), rx[i].id = "high"
        PROVE  rx[i].answer > 0 /\ LowAfter(rx', held[1], i - 1, rx[i].answer)
    <3>1. rx[i].answer > 0 /\ LowAfter(rx, held[1], i - 1, rx[i].answer)
      BY <2>6 DEF AnswerInv, WordsMeet
    <3>2. i - 1 \in 0 .. Len(rx)
      BY <1>1
    <3> QED BY <1>1, <2>1, <3>1, <3>2, LowAppend
  <2>7. ASSUME ~rxDropped, m.id = "high"
        PROVE  m.answer > 0 /\ LowAfter(rx', held[1], Len(rx), m.answer)
    <3>1. answers > 0 /\ LowAfter(rx, held[1], Len(rx), answers)
      BY <2>7 DEF AnswerInv, WordsMeet
    <3>2. Len(rx) \in 0 .. Len(rx)
      BY <1>1
    <3> QED BY <1>1, <2>1, <2>7, <3>1, <3>2, LowAppend
  <2>8. ASSUME ~rxDropped, highDue'
        PROVE  answers' > 0 /\ LowAfter(rx', held[1], Len(rx) + 1, answers')
    <3>1. CASE m.id = "low"
      BY <1>1, <2>1, <3>1, LowAppend
    <3>2. CASE m.id # "low"
      <4>1. answers > 0 /\ LowAfter(rx, held[1], Len(rx), answers)
        BY <2>8, <3>2 DEF AnswerInv, WordsMeet
      <4> QED BY <1>1, <2>1, <3>2, <4>1, LowAppend
    <3> QED BY <3>1, <3>2
  <2>9. ASSUME ~rxDropped' PROVE WordsMeet'
    <3>1. ASSUME NEW i \in 1 .. Len(rx'), rx'[i].id = "high"
          PROVE  rx'[i].answer > 0 /\ LowAfter(rx', held[1], i - 1, rx'[i].answer)
      <4>1. CASE i = Len(rx) + 1
        <5>1. i - 1 = Len(rx)
          BY <1>1, <4>1
        <5> QED BY <2>2, <2>3, <2>7, <2>9, <3>1, <4>1, <5>1
      <4>2. CASE i # Len(rx) + 1
        <5>1. i \in 1 .. Len(rx)
          BY <1>1, <2>3, <4>2
        <5> QED BY <2>2, <2>3, <2>6, <2>9, <3>1, <5>1
      <4> QED BY <4>1, <4>2
    <3> QED BY <2>2, <2>3, <2>8, <2>9, <3>1 DEF WordsMeet
  <2> QED BY <2>5, <2>9 DEF AnswerInv
<1>4. CASE Len(rx) = RxLen
  <2>1. ~(Len(rx) < RxLen) /\ rx # <<>>
    BY <1>1, <1>4, PanelAssumption
  <2>2. rx' = Append(Tail(rx), m) /\ (rxDropped' <=> TRUE)
    BY <1>4, <2>1 DEF Receive, Queued
  <2>3. Tail(rx) \in Seq(Messages) /\ Len(Tail(rx)) = Len(rx) - 1
    BY <1>1, <2>1
  <2>4. rx' \in Seq(Messages) /\ Len(rx') = Len(Tail(rx)) + 1
    BY <2>2, <2>3
  <2>5. Len(rx') <= RxLen
    BY <1>1, <1>4, <2>3, <2>4
  <2>6. AnswerTypes'
    BY <1>1, <1>2, <2>4, <2>5 DEF AnswerTypes
  <2> QED BY <2>2, <2>6 DEF AnswerInv
<1> QED BY <1>1, <1>3, <1>4, PanelAssumption

LEMMA AnswerStep == ASSUME AnswerInv, [PanelNext]_panelVars PROVE AnswerInv'
<1>0. /\ rx \in Seq(Messages) /\ Len(rx) <= RxLen /\ Len(rx) \in Nat
      /\ held \in Nat \X Nat /\ answers \in Nat
      /\ highDue \in BOOLEAN /\ rxDropped \in BOOLEAN
  BY DEF AnswerInv, AnswerTypes
<1>1. CASE UNCHANGED <<held, rx, answers, highDue, rxDropped>>
  BY <1>1 DEF AnswerInv, AnswerTypes, WordsMeet, LowAfter
<1>2. CASE Task
  <2>1. rx # <<>> /\ rx' = Tail(rx) /\ held' = Stored(Head(rx))
        /\ UNCHANGED <<answers, highDue, rxDropped>>
    BY <1>2 DEF Task, mcuVars
  <2>2. /\ Len(rx) \in Nat \ {0} /\ rx' \in Seq(Messages) /\ Len(rx') = Len(rx) - 1
        /\ Head(rx) = rx[1] /\ Head(rx) \in Messages
        /\ \A i \in 1 .. Len(rx) - 1 : rx'[i] = rx[i + 1]
    BY <1>0, <2>1
  <2>3. held' \in Nat \X Nat
        /\ held'[1] = IF Head(rx).id = "low" THEN Head(rx).answer ELSE held[1]
    <3>1. Head(rx).id \in {"low", "high"} => Head(rx).answer \in Nat
      BY <2>2 DEF Messages
    <3> QED BY <1>0, <2>1, <3>1 DEF Stored
  <2>4. AnswerTypes'
    <3>1. Len(rx') <= RxLen
      BY <1>0, <2>2, PanelAssumption
    <3> QED BY <1>0, <2>1, <2>2, <2>3, <3>1 DEF AnswerTypes
  <2>5. ASSUME ~rxDropped, NEW i \in 1 .. Len(rx'), rx'[i].id = "high"
        PROVE  rx'[i].answer > 0 /\ LowAfter(rx', held'[1], i - 1, rx'[i].answer)
    <3>1. i + 1 \in 1 .. Len(rx) /\ i \in 1 .. Len(rx) /\ (i + 1) - 1 = i /\ rx'[i] = rx[i + 1]
      BY <2>2
    <3>2. rx[i + 1].answer > 0 /\ LowAfter(rx, held[1], i, rx[i + 1].answer)
      BY <2>5, <3>1 DEF AnswerInv, WordsMeet
    <3> QED BY <1>0, <2>1, <2>3, <3>1, <3>2, LowTail
  <2>6. ASSUME ~rxDropped, highDue
        PROVE  answers > 0 /\ LowAfter(rx', held'[1], Len(rx'), answers)
    <3>1. answers > 0 /\ LowAfter(rx, held[1], Len(rx), answers)
      BY <2>6 DEF AnswerInv, WordsMeet
    <3>2. Len(rx) \in 1 .. Len(rx)
      BY <2>2
    <3> QED BY <1>0, <2>1, <2>2, <2>3, <3>1, <3>2, LowTail
  <2> QED BY <2>1, <2>4, <2>5, <2>6 DEF AnswerInv, WordsMeet
<1>3. ASSUME NEW i \in Inputs, Input(i) PROVE AnswerInv'
  <2> DEFINE e == IF i = "pad" /\ ~mcu.continuous THEN "trigger"
                  ELSE IF i = "pad" THEN "knob" ELSE i
             m == [id |-> "event", input |-> i, event |-> e]
  <2>1. m \in Messages
    BY DEF Messages, Inputs
  <2>2. Receive(m) /\ UNCHANGED <<held, answers, highDue>>
    BY <1>3 DEF Input, McuSteps, mcuVars
  <2>3. m.id = "event"
    OBVIOUS
  <2> HIDE DEF m
  <2> QED BY <1>0, <2>1, <2>2, <2>3, AnswerReceive
<1>4. CASE McuHigh
  <2> DEFINE m == [id |-> "high", answer |-> answers]
  <2>1. m \in Messages
    BY <1>0 DEF Messages
  <2>2. Receive(m) /\ UNCHANGED <<held, answers>> /\ highDue /\ highDue' = FALSE
    BY <1>4 DEF McuHigh, McuSteps
  <2>3. m.id = "high" /\ m.answer = answers
    OBVIOUS
  <2> HIDE DEF m
  <2> QED BY <1>0, <2>1, <2>2, <2>3, AnswerReceive
<1>5. CASE McuTake
  <2>0. held' = held /\ ~highDue /\ highDue' \in BOOLEAN
    BY <1>5 DEF McuTake, McuSteps
  <2>1. CASE Head(tx).id = "buttons"
    <3> DEFINE m == [id |-> "low", answer |-> answers']
    <3>1. answers' = answers + 1 /\ Receive(m)
      BY <1>5, <2>1 DEF McuTake
    <3>2. answers' \in Nat /\ answers' > 0
      BY <1>0, <3>1
    <3>3. m \in Messages /\ m.id = "low" /\ m.answer = answers'
      BY <3>2 DEF Messages
    <3> HIDE DEF m
    <3> QED BY <2>0, <3>1, <3>2, <3>3, AnswerReceive
  <2>2. CASE Head(tx).id = "init"
    <3> DEFINE m == [id |-> "ack"]
    <3>1. answers' = answers /\ Receive(m) /\ highDue' = FALSE
      BY <1>5, <2>2 DEF McuTake
    <3>2. m \in Messages /\ m.id = "ack"
      BY DEF Messages
    <3> HIDE DEF m
    <3> QED BY <1>0, <2>0, <3>1, <3>2, AnswerReceive
  <2>3. CASE Head(tx).id \notin {"buttons", "init"}
    <3>1. answers' = answers /\ rx' = rx /\ rxDropped' = rxDropped /\ highDue' = FALSE
      BY <1>5, <2>3 DEF McuTake
    <3>2. AnswerTypes'
      BY <1>0, <2>0, <3>1 DEF AnswerTypes
    <3>3. WordsMeet => WordsMeet'
      BY <2>0, <3>1 DEF WordsMeet, LowAfter
    <3> QED BY <3>1, <3>2, <3>3 DEF AnswerInv
  <2> QED BY <2>1, <2>2, <2>3
<1>6. CASE PanelInit \/ RequestButtons \/ Register \/ (\E on \in BOOLEAN : SetTriggerMode(on))
           \/ (\E l \in Leds : ToggleLed(l) \/ \E brightness \in Levels : SetLed(l, brightness))
  BY <1>1, <1>6 DEF PanelInit, RequestButtons, Register, SetTriggerMode, ToggleLed, SetLed,
                    Calls, mcuVars
<1>7. CASE UNCHANGED panelVars
  BY <1>1, <1>7 DEF panelVars, mcuVars
<1> QED BY <1>2, <1>3, <1>4, <1>5, <1>6, <1>7 DEF PanelNext, Mcu

LEMMA AnswerExact == AnswerInv => CallbacksExact
<1> SUFFICES ASSUME AnswerInv PROVE CallbacksExact
  OBVIOUS
<1>0. rx \in Seq(Messages) /\ held \in Nat \X Nat
  BY DEF AnswerInv, AnswerTypes
<1>1. ASSUME rx # <<>>, Event(Head(rx)) = "held", ~rxDropped
      PROVE  LET words == Stored(Head(rx)) IN words[1] = words[2] /\ words[1] > 0
  <2>1. 1 \in 1 .. Len(rx) /\ 1 - 1 = 0 /\ rx[1] = Head(rx) /\ Head(rx) \in Messages
    BY <1>0, <1>1
  <2>2. Head(rx).id = "high"
    BY <1>1, <2>1 DEF Event, Messages
  <2>3. rx[1].answer > 0 /\ LowAfter(rx, held[1], 0, rx[1].answer)
    BY <1>1, <2>1, <2>2 DEF AnswerInv, WordsMeet
  <2>4. held[1] = rx[1].answer
    BY <2>3 DEF LowAfter
  <2> QED BY <1>0, <2>1, <2>2, <2>3, <2>4 DEF Stored
<1>2. ASSUME NEW i \in 1 .. Len(rx), rx[i].id = "event"
      PROVE  Event(rx[i]) = IF rx[i].input = "pad" THEN "trigger" ELSE "knob"
  <2>1. rx[i] \in Messages
    BY <1>0
  <2> QED BY <1>2, <2>1 DEF Event, Messages, Inputs
<1> QED BY <1>1, <1>2 DEF CallbacksExact

\* Each callback gets what is its own: two words of one answer, a pad's events or a
\* knob's, for any queue lengths and any number of requests.
THEOREM CallbacksGetTheirOwn == PanelSpec => []CallbacksExact
<1> QED BY AnswerStart, AnswerStep, AnswerExact, PTL DEF PanelSpec

-----------------------------------------------------------------------------
(* MIDI: the words of the definition of a stream's meaning, and what one   *)
(* more byte does to them.                                                 *)

\* A stream of bytes, with one more.
LEMMA StreamAppend ==
  ASSUME NEW s \in Seq(Nat), NEW b \in Nat
  PROVE /\ Append(s, b) \in Seq(Nat) /\ Len(Append(s, b)) = Len(s) + 1
        /\ Append(s, b)[Len(s) + 1] = b
        /\ \A i \in 1 .. Len(s) : Append(s, b)[i] = s[i] /\ s[i] \in Nat
OBVIOUS

\* A byte is of one kind only.
LEMMA ByteKinds ==
  ASSUME NEW b \in Nat
  PROVE /\ Realtime(b) => ~Common(b) /\ ~Channel(b) /\ ~Data(b) /\ ~Status(b)
        /\ Common(b) => ~Channel(b) /\ ~Data(b)
        /\ Channel(b) => ~Data(b) /\ Status(b) /\ b # SysexStart /\ b # SysexEnd
        /\ Data(b) => ~Status(b) /\ b # SysexStart /\ b # SysexEnd
        /\ Realtime(b) \/ Common(b) \/ Channel(b) \/ Data(b)
        /\ Common(b) => (Status(b) <=> b = SysexStart \/ b = SysexEnd)
        /\ Common(SysexStart) /\ Common(SysexEnd) /\ SysexStart # SysexEnd
        /\ Status(SysexStart) /\ Status(SysexEnd)
BY DEF Realtime, Common, Channel, Data, Status, SysexStart, SysexEnd

\* The type of a channel byte is a channel byte's.
LEMMA TypeBelow == ASSUME NEW b \in Nat, Channel(b) PROVE Type(b) \in Nat /\ ~Realtime(Type(b))
BY DEF Channel, Type, Realtime

\* At most one byte governs a place.
LEMMA OneGoverns ==
  ASSUME NEW s, NEW k \in Nat, NEW i \in Nat, NEW j \in Nat, Governs(s, i, k), Governs(s, j, k)
  PROVE i = j
BY DEF Governs

\* A stream's past does not change: which byte governs a place in it, ...
LEMMA GovernsPast ==
  ASSUME NEW s \in Seq(Nat), NEW b \in Nat, NEW j \in 1 .. Len(s), NEW k \in 1 .. Len(s) + 1
  PROVE Governs(Append(s, b), j, k) <=> Governs(s, j, k)
<1>1. \A i \in j + 1 .. k - 1 : i \in 1 .. Len(s)
  BY LenProperties
<1> QED  BY <1>1, StreamAppend DEF Governs

\* ... and which byte governs the next place, after the new byte.
LEMMA GovernsNext ==
  ASSUME NEW s \in Seq(Nat), NEW b \in Nat
  PROVE /\ \A j \in 1 .. Len(s) : Governs(Append(s, b), j, Len(s) + 2)
                                   <=> Governs(s, j, Len(s) + 1) /\ ~Status(b)
        /\ Governs(Append(s, b), Len(s) + 1, Len(s) + 2) <=> Status(b)
<1> DEFINE t == Append(s, b)
<1>0. Len(s) \in Nat
  BY LenProperties
<1>1. ASSUME NEW j \in 1 .. Len(s)
      PROVE Governs(t, j, Len(s) + 2) <=> Governs(s, j, Len(s) + 1) /\ ~Status(b)
  <2>1. j + 1 .. Len(s) + 2 - 1 = (j + 1 .. Len(s) + 1 - 1) \cup {Len(s) + 1}
    BY <1>0
  <2>2. Len(s) + 1 \notin j + 1 .. Len(s) + 1 - 1
    BY <1>0
  <2>3. \A i \in j + 1 .. Len(s) + 1 - 1 : t[i] = s[i]
    BY <1>0, StreamAppend
  <2>4. t[j] = s[j] /\ t[Len(s) + 1] = b
    BY <1>0, StreamAppend
  <2>5. j < Len(s) + 2 /\ j < Len(s) + 1
    BY <1>0
  <2> HIDE DEF t
  <2>6. (\A i \in j + 1 .. Len(s) + 2 - 1 : ~Status(t[i]))
          <=> (\A i \in j + 1 .. Len(s) + 1 - 1 : ~Status(s[i])) /\ ~Status(b)
    BY <2>1, <2>3, <2>4
  <2> QED  BY <2>4, <2>5, <2>6 DEF Governs
<1>2. Governs(t, Len(s) + 1, Len(s) + 2) <=> Status(b)
  <2>1. Len(s) + 1 + 1 .. Len(s) + 2 - 1 = {} /\ Len(s) + 1 < Len(s) + 2
    BY <1>0
  <2>2. t[Len(s) + 1] = b
    BY <1>0, StreamAppend
  <2> HIDE DEF t
  <2> QED  BY <2>1, <2>2 DEF Governs
<1> QED  BY <1>1, <1>2

\* The data bytes of an interval are finitely many.
LEMMA DataFinite ==
  ASSUME NEW s, NEW j \in Nat, NEW k \in Nat
  PROVE /\ IsFiniteSet(DataIn(s, j, k)) /\ DataCount(s, j, k) \in Nat
        /\ \A i \in DataIn(s, j, k) : i \in Nat /\ j < i /\ i <= k
        /\ k <= j => DataIn(s, j, k) = {} /\ DataCount(s, j, k) = 0
<1>1. IsFiniteSet(j + 1 .. k)
  BY FS_Interval
<1>2. DataIn(s, j, k) \subseteq j + 1 .. k
  BY DEF DataIn
<1>3. IsFiniteSet(DataIn(s, j, k))
  BY <1>1, <1>2, FS_Subset
<1>4. DataCount(s, j, k) \in Nat
  BY <1>3, FS_CardinalityType DEF DataCount
<1>5. k <= j => DataIn(s, j, k) = {}
  BY DEF DataIn
<1>6. k <= j => DataCount(s, j, k) = 0
  BY <1>5, FS_EmptySet DEF DataCount
<1> QED  BY <1>2, <1>3, <1>4, <1>5, <1>6

\* One place more holds a data byte, or not.
LEMMA DataStep ==
  ASSUME NEW s, NEW j \in Nat, NEW k \in Nat, j <= k
  PROVE /\ Data(s[k + 1]) => /\ DataIn(s, j, k + 1) = DataIn(s, j, k) \cup {k + 1}
                             /\ DataCount(s, j, k + 1) = DataCount(s, j, k) + 1
        /\ ~Data(s[k + 1]) => /\ DataIn(s, j, k + 1) = DataIn(s, j, k)
                              /\ DataCount(s, j, k + 1) = DataCount(s, j, k)
<1>1. j + 1 .. k + 1 = (j + 1 .. k) \cup {k + 1} /\ k + 1 \notin j + 1 .. k
  OBVIOUS
<1>2. CASE Data(s[k + 1])
  <2>1. DataIn(s, j, k + 1) = DataIn(s, j, k) \cup {k + 1} /\ k + 1 \notin DataIn(s, j, k)
    BY <1>1, <1>2 DEF DataIn
  <2> QED  BY <1>2, <2>1, DataFinite, FS_AddElement DEF DataCount
<1>3. CASE ~Data(s[k + 1])
  <2>1. DataIn(s, j, k + 1) = DataIn(s, j, k)
    BY <1>1, <1>3 DEF DataIn
  <2> QED  BY <1>3, <2>1 DEF DataCount
<1> QED  BY <1>2, <1>3

\* The data bytes of an interval are numbered from 1 to their count.
LEMMA DataNumbered ==
  ASSUME NEW s, NEW j \in Nat, NEW k \in Nat, NEW i \in DataIn(s, j, k)
  PROVE DataCount(s, j, i) \in 1 .. DataCount(s, j, k)
<1>1. i \in Nat /\ j < i /\ i <= k /\ Data(s[i])
  BY DataFinite DEF DataIn
<1>2. i \in DataIn(s, j, i) /\ DataIn(s, j, i) \subseteq DataIn(s, j, k)
  BY <1>1 DEF DataIn
<1>3. IsFiniteSet(DataIn(s, j, i)) /\ IsFiniteSet(DataIn(s, j, k))
  BY <1>1, DataFinite
<1>4. DataCount(s, j, i) <= DataCount(s, j, k)
  BY <1>2, <1>3, FS_Subset DEF DataCount
<1>5. DataCount(s, j, i) # 0
  BY <1>2, <1>3, FS_EmptySet DEF DataCount
<1> QED  BY <1>1, <1>4, <1>5, DataFinite

\* What data the past holds does not change.
LEMMA DataPast ==
  ASSUME NEW s \in Seq(Nat), NEW b \in Nat, NEW j \in Nat, NEW k \in 0 .. Len(s)
  PROVE /\ DataIn(Append(s, b), j, k) = DataIn(s, j, k)
        /\ DataCount(Append(s, b), j, k) = DataCount(s, j, k)
<1>1. \A i \in j + 1 .. k : i \in 1 .. Len(s)
  BY LenProperties
<1>2. DataIn(Append(s, b), j, k) = DataIn(s, j, k)
  BY <1>1, StreamAppend DEF DataIn
<1> QED  BY <1>2 DEF DataCount

\* The new byte, if it is a data byte, is one more.
LEMMA DataNext ==
  ASSUME NEW s \in Seq(Nat), NEW b \in Nat, NEW j \in 1 .. Len(s)
  PROVE /\ Data(b) => /\ DataIn(Append(s, b), j, Len(s) + 1) = DataIn(s, j, Len(s)) \cup {Len(s) + 1}
                      /\ DataCount(Append(s, b), j, Len(s) + 1) = DataCount(s, j, Len(s)) + 1
        /\ ~Data(b) => /\ DataIn(Append(s, b), j, Len(s) + 1) = DataIn(s, j, Len(s))
                       /\ DataCount(Append(s, b), j, Len(s) + 1) = DataCount(s, j, Len(s))
<1>1. Len(s) \in Nat /\ j \in Nat /\ j <= Len(s) /\ Len(s) \in 0 .. Len(s)
  BY LenProperties
<1>2. Append(s, b)[Len(s) + 1] = b
  BY StreamAppend
<1>3. /\ DataIn(Append(s, b), j, Len(s)) = DataIn(s, j, Len(s))
      /\ DataCount(Append(s, b), j, Len(s)) = DataCount(s, j, Len(s))
  BY <1>1, DataPast
<1> HIDE DEF Data
<1>4. /\ Data(b) => /\ DataIn(Append(s, b), j, Len(s) + 1) = DataIn(Append(s, b), j, Len(s)) \cup {Len(s) + 1}
                    /\ DataCount(Append(s, b), j, Len(s) + 1) = DataCount(Append(s, b), j, Len(s)) + 1
      /\ ~Data(b) => /\ DataIn(Append(s, b), j, Len(s) + 1) = DataIn(Append(s, b), j, Len(s))
                     /\ DataCount(Append(s, b), j, Len(s) + 1) = DataCount(Append(s, b), j, Len(s))
  BY <1>1, <1>2, DataStep
<1> QED  BY <1>3, <1>4

\* A list of the past's data bytes stays one; a list up to the end grows with the stream.
LEMMA ListedPast ==
  ASSUME NEW s \in Seq(Nat), NEW b \in Nat, NEW d, NEW j \in Nat, NEW k \in 0 .. Len(s)
  PROVE Listed(Append(s, b), d, j, k) <=> Listed(s, d, j, k)
<1>1. /\ DataIn(Append(s, b), j, k) = DataIn(s, j, k)
      /\ DataCount(Append(s, b), j, k) = DataCount(s, j, k)
  BY DataPast
<1>2. ASSUME NEW i \in DataIn(s, j, k)
      PROVE i \in 1 .. Len(s) /\ Append(s, b)[i] = s[i] /\ DataCount(Append(s, b), j, i) = DataCount(s, j, i)
  <2>1. i \in 1 .. Len(s) /\ i \in 0 .. Len(s)
    BY LenProperties, DataFinite
  <2> QED  BY <2>1, StreamAppend, DataPast
<1> QED  BY <1>1, <1>2 DEF Listed

LEMMA ListedNext ==
  ASSUME NEW s \in Seq(Nat), NEW b \in Nat, NEW d \in Seq(Nat), NEW j \in 1 .. Len(s),
         Listed(s, d, j, Len(s))
  PROVE /\ ~Data(b) => Listed(Append(s, b), d, j, Len(s) + 1)
        /\ Data(b) => Listed(Append(s, b), Append(d, b), j, Len(s) + 1)
<1> DEFINE t == Append(s, b)
<1>1. Len(s) \in Nat /\ j \in Nat /\ Len(s) \in 0 .. Len(s) /\ Len(s) + 1 \in Nat /\ Len(d) \in Nat
  BY LenProperties
<1>2. Listed(t, d, j, Len(s))
  BY <1>1, ListedPast
<1>3. /\ DataIn(t, j, Len(s)) = DataIn(s, j, Len(s)) /\ DataCount(t, j, Len(s)) = DataCount(s, j, Len(s))
  BY <1>1, DataPast
<1>4. t[Len(s) + 1] = b
  BY StreamAppend
<1> HIDE DEF t
<1>5. CASE ~Data(b)
  <2>1. DataIn(t, j, Len(s) + 1) = DataIn(t, j, Len(s)) /\ DataCount(t, j, Len(s) + 1) = DataCount(t, j, Len(s))
    BY <1>3, <1>5, DataNext DEF t
  <2>2. Listed(t, d, j, Len(s) + 1)
    BY <1>2, <2>1 DEF Listed
  <2> QED  BY <1>5, <2>2 DEF t
<1>6. CASE Data(b)
  <2>1. /\ DataIn(t, j, Len(s) + 1) = DataIn(t, j, Len(s)) \cup {Len(s) + 1}
        /\ DataCount(t, j, Len(s) + 1) = DataCount(t, j, Len(s)) + 1
    BY <1>3, <1>6, DataNext DEF t
  <2>2. Len(d) = DataCount(t, j, Len(s))
    BY <1>2 DEF Listed
  <2>3. /\ Len(Append(d, b)) = Len(d) + 1 /\ Append(d, b)[Len(d) + 1] = b
        /\ \A i \in 1 .. Len(d) : Append(d, b)[i] = d[i]
    BY StreamAppend
  <2>4. \A i \in DataIn(t, j, Len(s)) : Append(d, b)[DataCount(t, j, i)] = t[i]
    <3> TAKE i \in DataIn(t, j, Len(s))
    <3>1. DataCount(t, j, i) \in 1 .. Len(d)
      BY <1>1, <2>2, DataNumbered
    <3>2. d[DataCount(t, j, i)] = t[i]
      BY <1>2 DEF Listed
    <3> QED  BY <2>3, <3>1, <3>2
  <2>5. Append(d, b)[DataCount(t, j, Len(s) + 1)] = t[Len(s) + 1]
    BY <1>4, <2>1, <2>2, <2>3
  <2>6. \A i \in DataIn(t, j, Len(s) + 1) : Append(d, b)[DataCount(t, j, i)] = t[i]
    BY <2>1, <2>4, <2>5
  <2>7. Listed(t, Append(d, b), j, Len(s) + 1)
    BY <2>1, <2>2, <2>3, <2>6 DEF Listed
  <2> QED  BY <1>6, <2>7 DEF t
<1> QED  BY <1>5, <1>6 DEF t

\* Where the past's messages end, and which they are, does not change.
LEMMA EndsPast ==
  ASSUME NEW s \in Seq(Nat), NEW b \in Nat, NEW k \in 0 .. Len(s)
  PROVE /\ \A j \in 1 .. k - 1 : Completes(Append(s, b), j, k) <=> Completes(s, j, k)
        /\ Ends(Append(s, b), k) = Ends(s, k)
<1>1. ASSUME NEW l \in 1 .. Len(s), NEW j \in 1 .. l - 1
      PROVE Completes(Append(s, b), j, l) <=> Completes(s, j, l)
  <2>1. j \in 1 .. Len(s) /\ j \in Nat /\ l \in 1 .. Len(s) + 1 /\ l \in 0 .. Len(s)
    BY LenProperties
  <2>2. Append(s, b)[j] = s[j] /\ Append(s, b)[l] = s[l]
    BY <2>1, StreamAppend
  <2>3. Governs(Append(s, b), j, l) <=> Governs(s, j, l)
    BY <2>1, GovernsPast
  <2>4. DataCount(Append(s, b), j, l) = DataCount(s, j, l)
    BY <2>1, DataPast
  <2> QED  BY <2>2, <2>3, <2>4 DEF Completes
<1>2. \A l \in 1 .. k : l \in 1 .. Len(s)
  BY LenProperties
<1>3. Ends(Append(s, b), k) = Ends(s, k)
  BY <1>1, <1>2 DEF Ends
<1>4. k > 0 => k \in 1 .. Len(s)
  OBVIOUS
<1>5. k \in Int /\ (k <= 0 => 1 .. k - 1 = {})
  BY LenProperties
<1> QED  BY <1>1, <1>3, <1>4, <1>5

LEMMA MessagePast ==
  ASSUME NEW s \in Seq(Nat), NEW b \in Nat, NEW e, NEW k \in 1 .. Len(s), NEW j \in 1 .. k - 1,
         IsMessage(s, e, j, k)
  PROVE IsMessage(Append(s, b), e, j, k)
<1>1. j \in 1 .. Len(s) /\ j \in Nat /\ k \in 0 .. Len(s) /\ k \in Nat
  BY LenProperties
<1>2. Append(s, b)[j] = s[j] /\ Append(s, b)[k] = s[k]
  BY <1>1, StreamAppend
<1>3. DataIn(Append(s, b), j, k) = DataIn(s, j, k) /\ DataCount(Append(s, b), j, k) = DataCount(s, j, k)
  BY <1>1, DataPast
<1>4. ASSUME NEW i \in DataIn(s, j, k)
      PROVE Append(s, b)[i] = s[i] /\ DataCount(Append(s, b), j, i) = DataCount(s, j, i)
  <2>1. i \in 1 .. Len(s) /\ i \in 0 .. Len(s)
    BY <1>1, LenProperties, DataFinite
  <2> QED  BY <1>1, <2>1, StreamAppend, DataPast
<1> QED  BY <1>2, <1>3, <1>4 DEF IsMessage

\* The places where messages end are finitely many, and numbered from 1.
LEMMA EndsFinite ==
  ASSUME NEW s, NEW n \in Nat
  PROVE /\ IsFiniteSet(Ends(s, n)) /\ Cardinality(Ends(s, n)) \in Nat
        /\ \A k \in Ends(s, n) : /\ k \in 1 .. n
                                 /\ Cardinality(Ends(s, k)) \in 1 .. Cardinality(Ends(s, n))
<1>1. ASSUME NEW k \in Nat PROVE IsFiniteSet(Ends(s, k)) /\ Cardinality(Ends(s, k)) \in Nat
  <2>1. IsFiniteSet(1 .. k)
    BY FS_Interval
  <2>2. Ends(s, k) \subseteq 1 .. k
    BY DEF Ends
  <2> QED  BY <2>1, <2>2, FS_Subset, FS_CardinalityType
<1>2. ASSUME NEW k \in Ends(s, n)
      PROVE k \in 1 .. n /\ Cardinality(Ends(s, k)) \in 1 .. Cardinality(Ends(s, n))
  <2>1. k \in 1 .. n /\ k \in Nat /\ k \in Ends(s, k) /\ Ends(s, k) \subseteq Ends(s, n)
    BY DEF Ends
  <2>2. Cardinality(Ends(s, k)) <= Cardinality(Ends(s, n))
    BY <1>1, <2>1, FS_Subset
  <2>3. Cardinality(Ends(s, k)) # 0
    BY <1>1, <2>1, FS_EmptySet
  <2> QED  BY <1>1, <2>1, <2>2, <2>3
<1> QED  BY <1>1, <1>2

\* The new byte ends a message or does not.
LEMMA EndsNext ==
  ASSUME NEW s \in Seq(Nat), NEW b \in Nat
  PROVE /\ (\E j \in 1 .. Len(s) : Completes(Append(s, b), j, Len(s) + 1))
           => /\ Ends(Append(s, b), Len(s) + 1) = Ends(s, Len(s)) \cup {Len(s) + 1}
              /\ Cardinality(Ends(Append(s, b), Len(s) + 1)) = Cardinality(Ends(s, Len(s))) + 1
        /\ ~(\E j \in 1 .. Len(s) : Completes(Append(s, b), j, Len(s) + 1))
           => Ends(Append(s, b), Len(s) + 1) = Ends(s, Len(s))
<1> DEFINE t == Append(s, b)
<1>1. Len(s) \in Nat /\ Len(s) \in 0 .. Len(s)
  BY LenProperties
<1>2. Ends(t, Len(s)) = Ends(s, Len(s))
  BY <1>1, EndsPast
<1>3. /\ 1 .. Len(s) + 1 = (1 .. Len(s)) \cup {Len(s) + 1} /\ Len(s) + 1 \notin 1 .. Len(s)
      /\ 1 .. Len(s) + 1 - 1 = 1 .. Len(s)
  BY <1>1
<1>4. Len(s) + 1 \notin Ends(s, Len(s))
  BY <1>3 DEF Ends
<1>5. IsFiniteSet(Ends(s, Len(s)))
  BY <1>1, EndsFinite
<1> HIDE DEF t
<1>6. Ends(t, Len(s) + 1) = Ends(t, Len(s)) \cup
        {k \in {Len(s) + 1} : \E j \in 1 .. Len(s) : Completes(t, j, k)}
  BY <1>3 DEF Ends
<1>7. (\E j \in 1 .. Len(s) : Completes(t, j, Len(s) + 1))
        => Ends(t, Len(s) + 1) = Ends(s, Len(s)) \cup {Len(s) + 1}
  BY <1>2, <1>6
<1>8. ~(\E j \in 1 .. Len(s) : Completes(t, j, Len(s) + 1)) => Ends(t, Len(s) + 1) = Ends(s, Len(s))
  BY <1>2, <1>6
<1>9. Cardinality(Ends(s, Len(s)) \cup {Len(s) + 1}) = Cardinality(Ends(s, Len(s))) + 1
  BY <1>4, <1>5, FS_AddElement
<1> QED  BY <1>7, <1>8, <1>9 DEF t

-----------------------------------------------------------------------------
(* MIDI: what a byte does to the parser.                                   *)

Awaits == {"status", "first", "second", "sysex"}

MidiMessages == Nat \X Nat \X Nat \X Nat
Types == {t \in Nat : ~Realtime(t)}

MidiState ==
  [await : Awaits, type : Types, channel : Nat, one : Nat, two : Nat,
   sysex : Seq(Nat), events : Seq(MidiMessages), sysexes : Seq(Seq(Nat))]

\* Two parsers await the same and have collected and reported the same.
SameFraming(m, p) ==
  /\ m.await = p.await /\ m.type = p.type /\ m.channel = p.channel
  /\ m.sysex = p.sysex /\ m.sysexes = p.sysexes

LEMMA MidiStateFields ==
  ASSUME NEW m \in MidiState
  PROVE /\ m.await \in Awaits /\ m.type \in Types /\ m.channel \in Nat /\ m.one \in Nat /\ m.two \in Nat
        /\ m.sysex \in Seq(Nat) /\ m.events \in Seq(MidiMessages) /\ m.sysexes \in Seq(Seq(Nat))
BY DEF MidiState

\* A real-time byte and an ignored one leave all but the data bytes as they are.
LEMMA StepRealtime ==
  ASSUME NEW m \in MidiState, NEW b \in Nat, Realtime(b)
  PROVE /\ Step(m, b) \in MidiState /\ SameFraming(Step(m, b), m)
        /\ Step(m, b).events = m.events
<1> DEFINE q == [m EXCEPT !.events = m.events, !.one = 0, !.two = 0]
<1>1. Step(m, b) = q
  BY ByteKinds DEF Step, Invoke
<1>2. /\ q \in MidiState /\ q.await = m.await /\ q.type = m.type /\ q.channel = m.channel
      /\ q.sysex = m.sysex /\ q.sysexes = m.sysexes /\ q.events = m.events
  BY DEF MidiState
<1> HIDE DEF q
<1> QED  BY <1>1, <1>2 DEF SameFraming

LEMMA StepIgnored ==
  ASSUME NEW m \in MidiState, NEW b \in Nat, Common(b), ~Status(b)
  PROVE Step(m, b) = m
<1>1. Step(m, b) = RxCommon(m, b)
  BY ByteKinds DEF Step
<1>2. b # SysexStart /\ b # SysexEnd
  BY ByteKinds
<1> QED  BY <1>1, <1>2 DEF RxCommon

LEMMA StepStart ==
  ASSUME NEW m \in MidiState, NEW b \in Nat, b = SysexStart
  PROVE /\ Step(m, b) \in MidiState /\ Step(m, b).await = "sysex" /\ Step(m, b).sysex = <<>>
        /\ Step(m, b).sysexes = m.sysexes /\ Step(m, b).events = m.events
        /\ Step(m, b).type = m.type /\ Step(m, b).channel = m.channel
<1> DEFINE q == [m EXCEPT !.sysex = <<>>, !.await = "sysex"]
<1>1. Step(m, b) = RxCommon(m, b)
  BY ByteKinds DEF Step
<1>2. RxCommon(m, b) = q
  BY ByteKinds DEF RxCommon
<1>3. <<>> \in Seq(Nat) /\ "sysex" \in Awaits
  BY DEF Awaits
<1>4. /\ q \in MidiState /\ q.await = "sysex" /\ q.sysex = <<>>
      /\ q.sysexes = m.sysexes /\ q.events = m.events /\ q.type = m.type /\ q.channel = m.channel
  BY <1>3 DEF MidiState
<1> HIDE DEF q
<1> QED  BY <1>1, <1>2, <1>4

LEMMA StepEnd ==
  ASSUME NEW m \in MidiState, NEW b \in Nat, b = SysexEnd
  PROVE /\ Step(m, b) \in MidiState /\ Step(m, b).await = "status" /\ Step(m, b).sysex = m.sysex
        /\ Step(m, b).events = m.events /\ Step(m, b).type = m.type /\ Step(m, b).channel = m.channel
        /\ m.sysex # <<>> => Step(m, b).sysexes = Append(m.sysexes, m.sysex)
        /\ m.sysex = <<>> => Step(m, b).sysexes = m.sysexes
<1>1. Step(m, b) = RxCommon(m, b)
  BY ByteKinds DEF Step
<1> DEFINE x == IF m.sysex # <<>> THEN Append(m.sysexes, m.sysex) ELSE m.sysexes
<1>2. RxCommon(m, b) = [m EXCEPT !.sysexes = x, !.await = "status"]
  BY ByteKinds DEF RxCommon
<1>3. m.sysexes \in Seq(Seq(Nat)) /\ m.sysex \in Seq(Nat) /\ "status" \in Awaits
  BY MidiStateFields DEF Awaits
<1>4. x \in Seq(Seq(Nat))
  BY <1>3, AppendProperties
<1>5. (m.sysex # <<>> => x = Append(m.sysexes, m.sysex)) /\ (m.sysex = <<>> => x = m.sysexes)
  OBVIOUS
<1> HIDE DEF x
<1> DEFINE q == [m EXCEPT !.sysexes = x, !.await = "status"]
<1>6. /\ q \in MidiState /\ q.await = "status" /\ q.sysex = m.sysex
      /\ q.events = m.events /\ q.type = m.type /\ q.channel = m.channel /\ q.sysexes = x
  BY <1>3, <1>4 DEF MidiState
<1> HIDE DEF q
<1> QED  BY <1>1, <1>2, <1>5, <1>6 DEF q

LEMMA StepChannel ==
  ASSUME NEW m \in MidiState, NEW b \in Nat, Channel(b)
  PROVE /\ Step(m, b) \in MidiState /\ Step(m, b).await = "first" /\ Step(m, b).type = Type(b)
        /\ Step(m, b).channel = b % 16
        /\ m.await = "sysex" => Step(m, b).sysex = <<>>
        /\ m.await # "sysex" => Step(m, b).sysex = m.sysex
        /\ Step(m, b).sysexes = m.sysexes /\ Step(m, b).events = m.events
<1>1. Step(m, b) = RxChannel(m, b)
  BY ByteKinds DEF Step
<1> DEFINE x == IF m.await = "sysex" THEN <<>> ELSE m.sysex
<1>2. x \in Seq(Nat) /\ "first" \in Awaits
  BY MidiStateFields DEF Awaits
<1>3. (m.await = "sysex" => x = <<>>) /\ (m.await # "sysex" => x = m.sysex)
  OBVIOUS
<1>4. PICK ty \in Types : ty = Type(b)
  BY TypeBelow DEF Types
<1>5. PICK c \in Nat : c = b % 16
  OBVIOUS
<1>6. RxChannel(m, b) = [m EXCEPT !.channel = c, !.type = ty, !.await = "first", !.sysex = x]
  BY <1>4, <1>5 DEF RxChannel
<1> HIDE DEF x
<1> DEFINE q == [m EXCEPT !.channel = c, !.type = ty, !.await = "first", !.sysex = x]
<1>7. /\ q \in MidiState /\ q.await = "first" /\ q.type = ty /\ q.channel = c /\ q.sysex = x
      /\ q.sysexes = m.sysexes /\ q.events = m.events
  BY <1>2 DEF MidiState
<1>8. Step(m, b) = q
  BY <1>1, <1>6
<1> HIDE DEF q
<1> QED  BY <1>3, <1>4, <1>5, <1>7, <1>8

\* A reported message clears the data bytes; what is awaited afterwards is up to the caller.
LEMMA InvokeFields ==
  ASSUME NEW m \in MidiState, NEW a \in Awaits
  PROVE LET q == [Invoke(m, m.type) EXCEPT !.await = a] IN
        /\ q \in MidiState /\ q.await = a /\ q.type = m.type /\ q.channel = m.channel
        /\ q.sysex = m.sysex /\ q.sysexes = m.sysexes
        /\ q.events = Append(m.events, <<m.type, m.channel, m.one, m.two>>)
<1>1. ~Realtime(m.type) /\ m.type \in Nat /\ m.channel \in Nat /\ m.one \in Nat /\ m.two \in Nat
  BY MidiStateFields DEF Types
<1>2. <<m.type, m.channel, m.one, m.two>> \in MidiMessages
  BY <1>1 DEF MidiMessages
<1>3. PICK x \in Seq(MidiMessages) : x = Append(m.events, <<m.type, m.channel, m.one, m.two>>)
  BY <1>2, MidiStateFields, AppendProperties
<1>4. Invoke(m, m.type) = [m EXCEPT !.events = x, !.one = 0, !.two = 0]
  BY <1>1, <1>3 DEF Invoke
<1> DEFINE q == [[m EXCEPT !.events = x, !.one = 0, !.two = 0] EXCEPT !.await = a]
<1>5. /\ q \in MidiState /\ q.await = a /\ q.type = m.type /\ q.channel = m.channel
      /\ q.sysex = m.sysex /\ q.sysexes = m.sysexes /\ q.events = x
  BY DEF MidiState
<1>6. [Invoke(m, m.type) EXCEPT !.await = a] = q
  BY <1>4
<1> HIDE DEF q
<1> QED  BY <1>3, <1>5, <1>6

\* A data byte: of a message of one byte, the first of two, the second, of a system
\* exclusive that fits or no longer fits, or of nothing.
LEMMA StepData ==
  ASSUME NEW m \in MidiState, NEW b \in Nat, Data(b)
  PROVE LET q == Step(m, b) IN
        /\ q \in MidiState /\ q.type = m.type /\ q.channel = m.channel /\ q.sysexes = m.sysexes
        /\ m.await = "first" /\ m.type \in OneByteTypes =>
             /\ q.await = "first" /\ q.sysex = m.sysex
             /\ q.events = Append(m.events, <<m.type, m.channel, b, 0>>)
        /\ m.await = "first" /\ m.type \notin OneByteTypes =>
             q.await = "second" /\ q.sysex = m.sysex /\ q.events = m.events /\ q.one = b
        /\ m.await = "second" =>
             /\ q.await = "first" /\ q.sysex = m.sysex
             /\ q.events = Append(m.events, <<m.type, m.channel, m.one, b>>)
        /\ m.await = "sysex" /\ Len(m.sysex) < SysexLength =>
             q.await = "sysex" /\ q.sysex = Append(m.sysex, b) /\ q.events = m.events
        /\ m.await = "sysex" /\ ~(Len(m.sysex) < SysexLength) =>
             q.await = "status" /\ q.sysex = <<>> /\ q.events = m.events
        /\ m.await = "status" =>
             q.await = "status" /\ q.sysex = m.sysex /\ q.events = m.events
<1>1. Step(m, b) = RxData(m, b)
  BY ByteKinds DEF Step
<1>2. m.await \in Awaits /\ Len(m.sysex) \in Nat /\ m.sysex \in Seq(Nat) /\ SysexLength \in Nat
  BY MidiStateFields, LenProperties, MidiAssumption
<1>3. m.await = "status" \/ m.await = "first" \/ m.await = "second" \/ m.await = "sysex"
  BY <1>2 DEF Awaits
<1>4. "status" \in Awaits /\ "first" \in Awaits /\ "second" \in Awaits /\ "sysex" \in Awaits
  BY DEF Awaits
<1>5. CASE m.await = "first" /\ m.type \in OneByteTypes
  <2> DEFINE n == [m EXCEPT !.one = b, !.two = 0]
             q == [Invoke(n, n.type) EXCEPT !.await = "first"]
  <2>1. n \in MidiState /\ n.channel = m.channel /\ n.one = b /\ n.two = 0 /\ n.events = m.events
        /\ n.sysex = m.sysex /\ n.sysexes = m.sysexes /\ n.type = m.type /\ n.await = "first"
    BY <1>5 DEF MidiState
  <2>2. RxData(m, b) = Invoke(n, n.type)
    BY <1>5, <2>1 DEF RxData
  <2> HIDE DEF n
  <2>3. Invoke(n, n.type) = q
    <3>1. DOMAIN Invoke(n, n.type) = DOMAIN n /\ "await" \in DOMAIN n /\ Invoke(n, n.type).await = "first"
      BY <2>1 DEF Invoke, MidiState
    <3>2. Invoke(n, n.type) = [i \in DOMAIN n |-> Invoke(n, n.type)[i]]
      BY DEF Invoke
    <3> QED  BY <3>1, <3>2
  <2>4. /\ q \in MidiState /\ q.await = "first" /\ q.type = n.type /\ q.channel = n.channel
        /\ q.sysex = n.sysex /\ q.sysexes = n.sysexes
        /\ q.events = Append(n.events, <<n.type, n.channel, n.one, n.two>>)
    BY ONLY <1>4, <2>1, InvokeFields
  <2>5. Step(m, b) = q
    BY <1>1, <2>2, <2>3
  <2> HIDE DEF q
  <2> QED  BY <1>5, <2>1, <2>4, <2>5
<1>6. CASE m.await = "first" /\ m.type \notin OneByteTypes
  <2> DEFINE q == [m EXCEPT !.one = b, !.await = "second"]
  <2>1. RxData(m, b) = q
    BY <1>6 DEF RxData
  <2>2. /\ q \in MidiState /\ q.type = m.type /\ q.channel = m.channel /\ q.sysexes = m.sysexes
        /\ q.await = "second" /\ q.sysex = m.sysex /\ q.events = m.events /\ q.one = b
    BY <1>4 DEF MidiState
  <2> HIDE DEF q
  <2> QED  BY <1>1, <1>6, <2>1, <2>2
<1>7. CASE m.await = "second"
  <2> DEFINE n == [m EXCEPT !.two = b]
             q == [Invoke(n, n.type) EXCEPT !.await = "first"]
  <2>1. n \in MidiState /\ n.channel = m.channel /\ n.one = m.one /\ n.two = b /\ n.events = m.events
        /\ n.sysex = m.sysex /\ n.sysexes = m.sysexes /\ n.type = m.type
    BY DEF MidiState
  <2>2. RxData(m, b) = q
    BY <1>7, <2>1 DEF RxData
  <2> HIDE DEF n
  <2>3. /\ q \in MidiState /\ q.await = "first" /\ q.type = n.type /\ q.channel = n.channel
        /\ q.sysex = n.sysex /\ q.sysexes = n.sysexes
        /\ q.events = Append(n.events, <<n.type, n.channel, n.one, n.two>>)
    BY ONLY <1>4, <2>1, InvokeFields
  <2> HIDE DEF q
  <2> QED  BY <1>1, <1>7, <2>1, <2>2, <2>3
<1>8. CASE m.await = "sysex" /\ Len(m.sysex) < SysexLength
  <2>1. ~(Len(m.sysex) >= SysexLength)
    BY <1>2, <1>8
  <2>2. PICK x \in Seq(Nat) : x = Append(m.sysex, b)
    BY <1>2, AppendProperties
  <2> DEFINE q == [m EXCEPT !.sysex = x]
  <2>3. RxData(m, b) = q
    BY <1>8, <2>1, <2>2 DEF RxData
  <2>4. /\ q \in MidiState /\ q.type = m.type /\ q.channel = m.channel /\ q.sysexes = m.sysexes
        /\ q.await = m.await /\ q.sysex = x /\ q.events = m.events
    BY DEF MidiState
  <2> HIDE DEF q
  <2> QED  BY <1>1, <1>8, <2>2, <2>3, <2>4
<1>9. CASE m.await = "sysex" /\ ~(Len(m.sysex) < SysexLength)
  <2>1. Len(m.sysex) >= SysexLength
    BY <1>2, <1>9
  <2> DEFINE q == [m EXCEPT !.sysex = <<>>, !.await = "status"]
  <2>2. RxData(m, b) = q
    BY <1>9, <2>1 DEF RxData
  <2>3. <<>> \in Seq(Nat)
    OBVIOUS
  <2>4. /\ q \in MidiState /\ q.type = m.type /\ q.channel = m.channel /\ q.sysexes = m.sysexes
        /\ q.await = "status" /\ q.sysex = <<>> /\ q.events = m.events
    BY <1>4, <2>3 DEF MidiState
  <2> HIDE DEF q
  <2> QED  BY <1>1, <1>9, <2>2, <2>4
<1>10. CASE m.await = "status"
  <2> DEFINE q == [m EXCEPT !.one = 0, !.two = 0]
  <2>1. RxData(m, b) = q
    BY <1>10 DEF RxData
  <2>2. /\ q \in MidiState /\ q.type = m.type /\ q.channel = m.channel /\ q.sysexes = m.sysexes
        /\ q.await = m.await /\ q.sysex = m.sysex /\ q.events = m.events
    BY DEF MidiState
  <2> HIDE DEF q
  <2> QED  BY <1>1, <1>10, <2>1, <2>2
<1> QED  BY <1>3, <1>5, <1>6, <1>7, <1>8, <1>9, <1>10

-----------------------------------------------------------------------------
(* MIDI: the parser awaits what the stream says, and has reported what is  *)
(* in it.                                                                  *)

NoRealtime(s) == \A k \in 1 .. Len(s) : ~Realtime(s[k])

\* A data byte would be the first or second of a message of the status byte at j; the
\* first one is kept, unless a real-time byte cleared it.
AwaitsFor(m, s, j) ==
  /\ Governs(s, j, Len(s) + 1) /\ Channel(s[j])
  /\ m.type = Type(s[j]) /\ m.channel = s[j] % 16
  /\ m.type \in OneByteTypes => m.await = "first"
  /\ m.type \notin OneByteTypes =>
       (m.await = "first" <=> DataCount(s, j, Len(s)) % 2 = 0)
  /\ m.await = "second" /\ NoRealtime(s) =>
       \E i \in DataIn(s, j, Len(s)) :
         DataCount(s, j, i) = DataCount(s, j, Len(s)) /\ m.one = s[i]

\* The status byte at j began a system exclusive, the bytes of which are collected.
Collects(m, s, j) ==
  Governs(s, j, Len(s) + 1) /\ s[j] = SysexStart /\ Listed(s, m.sysex, j, Len(s))

\* The last status byte is of no message, or of a system exclusive that was too long.
NothingAwaited(s) ==
  \A j \in 1 .. Len(s) : Governs(s, j, Len(s) + 1) =>
    ~Channel(s[j]) /\ (s[j] = SysexStart => DataCount(s, j, Len(s)) > SysexLength)

AwaitInv(m, s) ==
  /\ m.await = "status" => NothingAwaited(s)
  /\ m.await = "sysex" => \E j \in 1 .. Len(s) : Collects(m, s, j)
  /\ m.await = "first" \/ m.await = "second" => \E j \in 1 .. Len(s) : AwaitsFor(m, s, j)

\* The sequence d is a system exclusive of the stream.
IsSysex(s, d) ==
  \E j \in 1 .. Len(s), k \in 1 .. Len(s) :
    /\ s[j] = SysexStart /\ s[k] = SysexEnd /\ Governs(s, j, k)
    /\ Listed(s, d, j, k)

\* What is left in the buffer after a message would be reported again by an end byte.
BufferInv(m, s) ==
  /\ Len(m.sysex) <= SysexLength
  /\ m.await # "sysex" /\ m.sysex # <<>> => IsSysex(s, m.sysex)

Sound(x, s) ==
  \A n \in 1 .. Len(x) : IsSysex(s, x[n]) /\ Len(x[n]) \in 1 .. SysexLength

Complete(x, s) ==
  \A j \in 1 .. Len(s) : \A k \in 1 .. Len(s) :
    /\ s[j] = SysexStart /\ s[k] = SysexEnd /\ Governs(s, j, k)
    /\ DataCount(s, j, k) \in 1 .. SysexLength
    => \E n \in 1 .. Len(x) : Listed(s, x[n], j, k)

\* The message that ends at k is the next one of e.
Reported(e, s, k) ==
  \E j \in 1 .. k - 1 : Completes(s, j, k) /\ IsMessage(s, e[Cardinality(Ends(s, k))], j, k)

Exact(e, s) ==
  NoRealtime(s) =>
    /\ Len(e) = Cardinality(Ends(s, Len(s)))
    /\ \A k \in Ends(s, Len(s)) : Reported(e, s, k)

MidiInv(m, s) ==
  /\ m \in MidiState /\ AwaitInv(m, s) /\ BufferInv(m, s)
  /\ Sound(m.sysexes, s) /\ Complete(m.sysexes, s) /\ Exact(m.events, s)

\* What was a system exclusive stays one.
LEMMA SysexPast ==
  ASSUME NEW s \in Seq(Nat), NEW b \in Nat, NEW d, IsSysex(s, d)
  PROVE IsSysex(Append(s, b), d)
<1>1. PICK j \in 1 .. Len(s), k \in 1 .. Len(s) :
        /\ s[j] = SysexStart /\ s[k] = SysexEnd /\ Governs(s, j, k)
        /\ Listed(s, d, j, k)
  BY DEF IsSysex
<1>2. j \in Nat /\ k \in 1 .. Len(s) + 1 /\ k \in 0 .. Len(s)
  BY LenProperties
<1>3. Append(s, b)[j] = s[j] /\ Append(s, b)[k] = s[k]
  BY StreamAppend
<1>4. Governs(Append(s, b), j, k)
  BY <1>1, <1>2, GovernsPast
<1>5. Listed(Append(s, b), d, j, k)
  BY <1>1, <1>2, ListedPast
<1>6. j \in 1 .. Len(Append(s, b)) /\ k \in 1 .. Len(Append(s, b))
  BY LenProperties, StreamAppend
<1> QED  BY <1>1, <1>3, <1>4, <1>5, <1>6 DEF IsSysex

LEMMA SoundPast ==
  ASSUME NEW s \in Seq(Nat), NEW b \in Nat, NEW x, Sound(x, s)
  PROVE Sound(x, Append(s, b))
BY SysexPast DEF Sound

\* Only an end byte completes a system exclusive.
LEMMA CompletePast ==
  ASSUME NEW s \in Seq(Nat), NEW b \in Nat, NEW x, NEW y, Complete(x, s),
         \A n \in 1 .. Len(x) : n \in 1 .. Len(y) /\ y[n] = x[n],
         b = SysexEnd => \A j \in 1 .. Len(s) :
           /\ s[j] = SysexStart /\ Governs(s, j, Len(s) + 1) /\ DataCount(s, j, Len(s)) \in 1 .. SysexLength
           => \E n \in 1 .. Len(y) : Listed(s, y[n], j, Len(s)) /\ y[n] \in Seq(Nat)
  PROVE Complete(y, Append(s, b))
<1> DEFINE t == Append(s, b)
<1>0. Len(s) \in Nat /\ Len(s) + 1 \in 1 .. Len(s) + 1 /\ Len(t) = Len(s) + 1 /\ t[Len(s) + 1] = b
  BY LenProperties, StreamAppend
<1> SUFFICES ASSUME NEW j \in 1 .. Len(t), NEW k \in 1 .. Len(t),
                    t[j] = SysexStart, t[k] = SysexEnd, Governs(t, j, k),
                    DataCount(t, j, k) \in 1 .. SysexLength
             PROVE \E n \in 1 .. Len(y) : Listed(t, y[n], j, k)
  BY DEF Complete
<1>1. j \in Nat /\ k \in Nat /\ j < k /\ j \in 1 .. Len(s)
  BY <1>0 DEF Governs
<1>2. t[j] = s[j]
  BY <1>1, StreamAppend
<1>3. CASE k \in 1 .. Len(s)
  <2>1. k \in 1 .. Len(s) + 1 /\ k \in 0 .. Len(s) /\ t[k] = s[k]
    BY <1>0, <1>3, StreamAppend
  <2>2. Governs(s, j, k) /\ DataCount(s, j, k) = DataCount(t, j, k)
    BY <1>1, <2>1, GovernsPast, DataPast
  <2>3. PICK n \in 1 .. Len(x) : Listed(s, x[n], j, k)
    BY <1>1, <1>2, <1>3, <2>1, <2>2 DEF Complete
  <2>4. Listed(t, x[n], j, k)
    BY <1>1, <2>1, <2>3, ListedPast
  <2> QED  BY <2>4
<1>4. CASE k = Len(s) + 1
  <2>1. b = SysexEnd /\ Governs(s, j, Len(s) + 1)
    BY <1>0, <1>1, <1>4, GovernsPast
  <2>2. ~Data(b)
    BY <2>1, ByteKinds
  <2>3. DataCount(t, j, Len(s) + 1) = DataCount(s, j, Len(s))
    BY <1>1, <2>2, DataNext
  <2>4. PICK n \in 1 .. Len(y) : Listed(s, y[n], j, Len(s)) /\ y[n] \in Seq(Nat)
    BY <1>1, <1>2, <1>4, <2>1, <2>3
  <2>5. Listed(t, y[n], j, Len(s) + 1)
    BY <1>1, <2>2, <2>4, ListedNext
  <2> QED  BY <1>4, <2>5
<1> QED  BY <1>0, <1>3, <1>4

\* What was reported stays so.
LEMMA ReportedPast ==
  ASSUME NEW s \in Seq(Nat), NEW b \in Nat, NEW e, NEW f, NEW k \in Ends(s, Len(s)), Reported(e, s, k),
         f[Cardinality(Ends(s, k))] = e[Cardinality(Ends(s, k))]
  PROVE Reported(f, Append(s, b), k)
<1>1. k \in 1 .. Len(s) /\ k \in 0 .. Len(s)
  BY LenProperties DEF Ends
<1>2. PICK j \in 1 .. k - 1 : Completes(s, j, k) /\ IsMessage(s, e[Cardinality(Ends(s, k))], j, k)
  BY DEF Reported
<1>3. Completes(Append(s, b), j, k) /\ Ends(Append(s, b), k) = Ends(s, k)
  BY <1>1, <1>2, EndsPast
<1>4. IsMessage(Append(s, b), e[Cardinality(Ends(s, k))], j, k)
  BY <1>1, <1>2, MessagePast
<1> QED  BY <1>3, <1>4 DEF Reported

LEMMA NoRealtimePast ==
  ASSUME NEW s \in Seq(Nat), NEW b \in Nat
  PROVE NoRealtime(Append(s, b)) <=> NoRealtime(s) /\ ~Realtime(b)
<1>1. Len(s) \in Nat
  BY LenProperties
<1>2. 1 .. Len(s) + 1 = (1 .. Len(s)) \cup {Len(s) + 1}
  BY <1>1
<1> QED  BY <1>2, StreamAppend DEF NoRealtime

\* A byte that completes no message adds none to those reported; ...
LEMMA ExactPast ==
  ASSUME NEW s \in Seq(Nat), NEW b \in Nat, NEW e, Exact(e, s),
         ~ \E j \in 1 .. Len(s) : Completes(Append(s, b), j, Len(s) + 1)
  PROVE Exact(e, Append(s, b))
<1>1. Ends(Append(s, b), Len(s) + 1) = Ends(s, Len(s)) /\ Len(Append(s, b)) = Len(s) + 1
  BY EndsNext, StreamAppend
<1> QED  BY <1>1, NoRealtimePast, ReportedPast DEF Exact

\* ... and one that completes a message adds it.
LEMMA ExactNext ==
  ASSUME NEW s \in Seq(Nat), NEW b \in Nat, NEW e \in Seq(MidiMessages), NEW r, NEW f, Exact(e, s),
         f = Append(e, r), r \in MidiMessages, NEW j \in 1 .. Len(s),
         NoRealtime(s) => Completes(Append(s, b), j, Len(s) + 1) /\ IsMessage(Append(s, b), r, j, Len(s) + 1)
  PROVE Exact(f, Append(s, b))
<1> DEFINE t == Append(s, b)
           n == Cardinality(Ends(s, Len(s)))
<1> SUFFICES ASSUME NoRealtime(t)
             PROVE Len(f) = Cardinality(Ends(t, Len(t))) /\ \A k \in Ends(t, Len(t)) : Reported(f, t, k)
  BY DEF Exact
<1>1. NoRealtime(s) /\ Len(s) \in Nat /\ Len(t) = Len(s) + 1
  BY LenProperties, NoRealtimePast, StreamAppend
<1>2. Len(e) = n /\ \A k \in Ends(s, Len(s)) : Reported(e, s, k)
  BY <1>1 DEF Exact
<1>3. Completes(t, j, Len(s) + 1) /\ IsMessage(t, r, j, Len(s) + 1)
  BY <1>1
<1>4. Ends(t, Len(s) + 1) = Ends(s, Len(s)) \cup {Len(s) + 1} /\ Cardinality(Ends(t, Len(s) + 1)) = n + 1
  BY <1>3, EndsNext
<1>5. Len(f) = n + 1 /\ f[n + 1] = r /\ \A i \in 1 .. n : f[i] = e[i]
  BY <1>2, AppendProperties, LenProperties
<1>6. ASSUME NEW k \in Ends(s, Len(s)) PROVE Reported(f, t, k)
  <2>1. Cardinality(Ends(s, k)) \in 1 .. n
    BY <1>1, EndsFinite
  <2> QED  BY <1>2, <1>5, <2>1, ReportedPast
<1>7. Reported(f, t, Len(s) + 1)
  <2>1. j \in 1 .. Len(s) + 1 - 1
    BY <1>1
  <2> HIDE DEF t, n
  <2> QED  BY <1>3, <1>4, <1>5, <2>1 DEF Reported
<1> HIDE DEF t, n
<1> QED  BY <1>1, <1>4, <1>5, <1>6, <1>7

\* The new byte completes a message only if it is a data byte.
LEMMA CompletesNext ==
  ASSUME NEW s \in Seq(Nat), NEW b \in Nat, NEW j \in 1 .. Len(s)
  PROVE Completes(Append(s, b), j, Len(s) + 1) <=>
          /\ Data(b) /\ Channel(s[j]) /\ Governs(s, j, Len(s) + 1)
          /\ Type(s[j]) \in OneByteTypes \/ (DataCount(s, j, Len(s)) + 1) % 2 = 0
<1>1. Len(s) + 1 \in 1 .. Len(s) + 1
  BY LenProperties
<1>2. Append(s, b)[j] = s[j] /\ Append(s, b)[Len(s) + 1] = b
  BY StreamAppend
<1>3. Governs(Append(s, b), j, Len(s) + 1) <=> Governs(s, j, Len(s) + 1)
  BY <1>1, GovernsPast
<1>4. Data(b) => DataCount(Append(s, b), j, Len(s) + 1) = DataCount(s, j, Len(s)) + 1
  BY DataNext
<1> QED  BY <1>2, <1>3, <1>4 DEF Completes

\* A byte that is neither status nor data: nothing but the data bytes kept may change.
LEMMA QuietByte ==
  ASSUME NEW s \in Seq(Nat), NEW b \in Nat, NEW m, MidiInv(m, s), NEW q \in MidiState,
         ~Status(b), ~Data(b), SameFraming(q, m), q.events = m.events, Realtime(b) \/ q.one = m.one
  PROVE MidiInv(q, Append(s, b))
<1> DEFINE t == Append(s, b)
<1>1. m \in MidiState /\ Len(s) \in Nat /\ Len(t) = Len(s) + 1 /\ b # SysexEnd
  BY LenProperties, StreamAppend, ByteKinds DEF MidiInv
<1>2. /\ q.await = m.await /\ q.type = m.type /\ q.channel = m.channel /\ q.sysex = m.sysex
      /\ q.sysexes = m.sysexes
  BY DEF SameFraming
<1>3. ASSUME NEW j \in 1 .. Len(s)
      PROVE /\ Governs(t, j, Len(s) + 2) <=> Governs(s, j, Len(s) + 1)
            /\ t[j] = s[j] /\ DataIn(t, j, Len(s) + 1) = DataIn(s, j, Len(s))
            /\ DataCount(t, j, Len(s) + 1) = DataCount(s, j, Len(s))
            /\ \A i \in DataIn(s, j, Len(s)) : DataCount(t, j, i) = DataCount(s, j, i) /\ t[i] = s[i]
  <2>1. ASSUME NEW i \in DataIn(s, j, Len(s))
        PROVE DataCount(t, j, i) = DataCount(s, j, i) /\ t[i] = s[i]
    <3>1. i \in 1 .. Len(s) /\ i \in 0 .. Len(s) /\ j \in Nat
      BY <1>1, DataFinite
    <3> QED  BY <3>1, StreamAppend, DataPast
  <2>2. Governs(t, j, Len(s) + 2) <=> Governs(s, j, Len(s) + 1)
    BY GovernsNext
  <2>3. t[j] = s[j]
    BY StreamAppend
  <2>4. /\ DataIn(t, j, Len(s) + 1) = DataIn(s, j, Len(s))
        /\ DataCount(t, j, Len(s) + 1) = DataCount(s, j, Len(s))
    BY DataNext
  <2> QED  BY <2>1, <2>2, <2>3, <2>4
<1>4. ~Governs(t, Len(s) + 1, Len(s) + 2)
  BY GovernsNext
<1>5. 1 .. Len(t) = (1 .. Len(s)) \cup {Len(s) + 1} /\ Len(t) + 1 = Len(s) + 2
  BY <1>1
<1>6. ASSUME q.await = "status" PROVE NothingAwaited(t)
  <2>1. NothingAwaited(s)
    BY <1>2, <1>6 DEF MidiInv, AwaitInv
  <2> HIDE DEF t
  <2> QED  BY <1>1, <1>3, <1>4, <1>5, <2>1 DEF NothingAwaited
<1>7. ASSUME q.await = "sysex" PROVE \E j \in 1 .. Len(t) : Collects(q, t, j)
  <2>1. PICK j \in 1 .. Len(s) : Collects(m, s, j)
    BY <1>2, <1>7 DEF MidiInv, AwaitInv
  <2>2. Listed(t, m.sysex, j, Len(s) + 1)
    BY <1>1, <2>1, ListedNext, MidiStateFields DEF Collects
  <2> HIDE DEF t
  <2> QED  BY <1>1, <1>2, <1>3, <1>5, <2>1, <2>2 DEF Collects
<1>8. ASSUME q.await = "first" \/ q.await = "second" PROVE \E j \in 1 .. Len(t) : AwaitsFor(q, t, j)
  <2>1. PICK j \in 1 .. Len(s) : AwaitsFor(m, s, j)
    BY <1>2, <1>8 DEF MidiInv, AwaitInv
  <2>2. NoRealtime(t) => NoRealtime(s) /\ q.one = m.one
    BY NoRealtimePast
  <2> HIDE DEF t
  <2>3. AwaitsFor(q, t, j)
    BY <1>1, <1>2, <1>3, <1>5, <2>1, <2>2 DEF AwaitsFor
  <2> QED  BY <1>5, <2>3
<1>9. AwaitInv(q, t)
  BY <1>6, <1>7, <1>8 DEF AwaitInv
<1>10. BufferInv(q, t)
  BY <1>2, SysexPast DEF MidiInv, BufferInv
<1>11. Sound(q.sysexes, t)
  BY <1>2, SoundPast DEF MidiInv
<1>12. Complete(q.sysexes, t)
  BY <1>1, <1>2, CompletePast DEF MidiInv
<1>13. Exact(q.events, t)
  BY CompletesNext, ExactPast DEF MidiInv
<1> QED  BY <1>9, <1>10, <1>11, <1>12, <1>13 DEF MidiInv

\* A status byte governs the next place, with no data yet.
LEMMA StatusByte ==
  ASSUME NEW s \in Seq(Nat), NEW b \in Nat, Status(b)
  PROVE /\ \A j \in 1 .. Len(s) : ~Governs(Append(s, b), j, Len(s) + 2)
        /\ Governs(Append(s, b), Len(s) + 1, Len(s) + 2)
        /\ DataIn(Append(s, b), Len(s) + 1, Len(s) + 1) = {}
        /\ DataCount(Append(s, b), Len(s) + 1, Len(s) + 1) = 0
        /\ Listed(Append(s, b), <<>>, Len(s) + 1, Len(s) + 1)
        /\ 1 .. Len(Append(s, b)) = (1 .. Len(s)) \cup {Len(s) + 1}
        /\ Len(Append(s, b)) + 1 = Len(s) + 2 /\ Len(Append(s, b)) = Len(s) + 1
        /\ Append(s, b)[Len(s) + 1] = b
<1>1. Len(s) \in Nat /\ Len(s) + 1 \in Nat /\ Len(<<>>) = 0
  BY LenProperties
<1>2. /\ DataIn(Append(s, b), Len(s) + 1, Len(s) + 1) = {}
      /\ DataCount(Append(s, b), Len(s) + 1, Len(s) + 1) = 0
  <2>1. PICK k \in Nat : k = Len(s) + 1 /\ k <= k
    BY <1>1
  <2>2. DataIn(Append(s, b), k, k) = {} /\ DataCount(Append(s, b), k, k) = 0
    BY ONLY <2>1, DataFinite
  <2> QED  BY <2>1, <2>2
<1>3. Listed(Append(s, b), <<>>, Len(s) + 1, Len(s) + 1)
  BY <1>1, <1>2 DEF Listed
<1>4. /\ 1 .. Len(Append(s, b)) = (1 .. Len(s)) \cup {Len(s) + 1}
      /\ Len(Append(s, b)) + 1 = Len(s) + 2 /\ Len(Append(s, b)) = Len(s) + 1
  BY <1>1, StreamAppend
<1> QED  BY <1>2, <1>3, <1>4, GovernsNext, StreamAppend

LEMMA StartByte ==
  ASSUME NEW s \in Seq(Nat), NEW b \in Nat, NEW m, MidiInv(m, s), b = SysexStart
  PROVE MidiInv(Step(m, b), Append(s, b))
<1> DEFINE t == Append(s, b)
           q == Step(m, b)
<1>1. m \in MidiState /\ Status(b) /\ ~Data(b) /\ b # SysexEnd
  BY ByteKinds DEF MidiInv
<1>2. /\ q \in MidiState /\ q.await = "sysex" /\ q.sysex = <<>> /\ q.sysexes = m.sysexes
      /\ q.events = m.events
  BY <1>1, StepStart
<1> HIDE DEF q
<1>3. Collects(q, t, Len(s) + 1) /\ Len(s) + 1 \in 1 .. Len(t)
  BY <1>1, <1>2, StatusByte DEF Collects
<1>4. AwaitInv(q, t)
  BY <1>2, <1>3 DEF AwaitInv
<1>5. BufferInv(q, t)
  BY <1>2, MidiAssumption DEF BufferInv
<1>6. Sound(q.sysexes, t)
  BY <1>2, SoundPast DEF MidiInv
<1>7. Complete(q.sysexes, t)
  BY <1>1, <1>2, CompletePast DEF MidiInv
<1>8. Exact(q.events, t)
  BY <1>1, <1>2, CompletesNext, ExactPast DEF MidiInv
<1> QED  BY <1>2, <1>4, <1>5, <1>6, <1>7, <1>8 DEF MidiInv, q

LEMMA ChannelByte ==
  ASSUME NEW s \in Seq(Nat), NEW b \in Nat, NEW m, MidiInv(m, s), Channel(b)
  PROVE MidiInv(Step(m, b), Append(s, b))
<1> DEFINE t == Append(s, b)
           q == Step(m, b)
<1>1. m \in MidiState /\ Status(b) /\ ~Data(b) /\ b # SysexEnd
  BY ByteKinds DEF MidiInv
<1>2. /\ q \in MidiState /\ q.await = "first" /\ q.type = Type(b) /\ q.channel = b % 16
      /\ m.await = "sysex" => q.sysex = <<>>
      /\ m.await # "sysex" => q.sysex = m.sysex
      /\ q.sysexes = m.sysexes /\ q.events = m.events
  BY <1>1, StepChannel
<1> HIDE DEF q
<1>3. AwaitsFor(q, t, Len(s) + 1) /\ Len(s) + 1 \in 1 .. Len(t)
  <2>1. /\ Governs(t, Len(s) + 1, Len(t) + 1) /\ t[Len(s) + 1] = b /\ Len(s) + 1 \in 1 .. Len(t)
        /\ DataCount(t, Len(s) + 1, Len(t)) = 0
    BY <1>1, StatusByte
  <2>2. 0 % 2 = 0
    OBVIOUS
  <2> HIDE DEF t
  <2> QED  BY <1>2, <2>1, <2>2 DEF AwaitsFor
<1>4. AwaitInv(q, t)
  BY <1>2, <1>3 DEF AwaitInv
<1>5. BufferInv(q, t)
  BY <1>2, MidiAssumption, SysexPast DEF BufferInv, MidiInv
<1>6. Sound(q.sysexes, t)
  BY <1>2, SoundPast DEF MidiInv
<1>7. Complete(q.sysexes, t)
  BY <1>1, <1>2, CompletePast DEF MidiInv
<1>8. Exact(q.events, t)
  BY <1>1, <1>2, CompletesNext, ExactPast DEF MidiInv
<1> QED  BY <1>2, <1>4, <1>5, <1>6, <1>7, <1>8 DEF MidiInv, q

LEMMA EndByte ==
  ASSUME NEW s \in Seq(Nat), NEW b \in Nat, NEW m, MidiInv(m, s), b = SysexEnd
  PROVE MidiInv(Step(m, b), Append(s, b))
<1> DEFINE t == Append(s, b)
           q == Step(m, b)
<1>1. m \in MidiState /\ Status(b) /\ ~Data(b) /\ ~Channel(b) /\ b # SysexStart /\ Len(s) \in Nat
  BY ByteKinds, LenProperties DEF MidiInv
<1>2. /\ q \in MidiState /\ q.await = "status" /\ q.sysex = m.sysex /\ q.events = m.events
      /\ m.sysex # <<>> => q.sysexes = Append(m.sysexes, m.sysex)
      /\ m.sysex = <<>> => q.sysexes = m.sysexes
  BY <1>1, StepEnd
<1> HIDE DEF q
<1>3. m.sysex \in Seq(Nat) /\ m.sysexes \in Seq(Seq(Nat)) /\ Len(m.sysexes) \in Nat /\ Len(m.sysex) \in Nat
  BY <1>1, MidiStateFields, LenProperties
<1>4. AwaitInv(q, t)
  <2>1. NothingAwaited(t)
    BY <1>1, StatusByte DEF NothingAwaited
  <2> QED  BY <1>2, <2>1 DEF AwaitInv
<1>5. ASSUME m.sysex # <<>> PROVE IsSysex(t, m.sysex)
  <2>1. CASE m.await # "sysex"
    BY <1>5, <2>1, SysexPast DEF MidiInv, BufferInv
  <2>2. CASE m.await = "sysex"
    <3>1. PICK j \in 1 .. Len(s) : Collects(m, s, j)
      BY <2>2 DEF MidiInv, AwaitInv
    <3>2. Listed(t, m.sysex, j, Len(s) + 1)
      BY <1>1, <1>3, <3>1, ListedNext DEF Collects
    <3>3. Governs(t, j, Len(s) + 1)
      BY <1>1, <3>1, GovernsPast DEF Collects
    <3>4. t[j] = SysexStart /\ t[Len(s) + 1] = SysexEnd /\ j \in 1 .. Len(t) /\ Len(s) + 1 \in 1 .. Len(t)
      BY <3>1, StatusByte, StreamAppend, <1>1 DEF Collects
    <3> QED  BY <3>2, <3>3, <3>4 DEF IsSysex
  <2> QED  BY <2>1, <2>2
<1>6. BufferInv(q, t)
  BY <1>2, <1>5 DEF BufferInv, MidiInv
<1>7. /\ \A n \in 1 .. Len(m.sysexes) : n \in 1 .. Len(q.sysexes) /\ q.sysexes[n] = m.sysexes[n]
      /\ m.sysex # <<>> => Len(q.sysexes) = Len(m.sysexes) + 1 /\ q.sysexes[Len(m.sysexes) + 1] = m.sysex
  <2>1. CASE m.sysex = <<>>
    BY <1>2, <1>3, <2>1
  <2>2. CASE m.sysex # <<>>
    <3>1. /\ Len(Append(m.sysexes, m.sysex)) = Len(m.sysexes) + 1
          /\ Append(m.sysexes, m.sysex)[Len(m.sysexes) + 1] = m.sysex
          /\ \A n \in 1 .. Len(m.sysexes) : Append(m.sysexes, m.sysex)[n] = m.sysexes[n]
      BY <1>3, AppendProperties
    <3>2. q.sysexes = Append(m.sysexes, m.sysex)
      BY <1>2, <2>2
    <3>3. \A n \in 1 .. Len(m.sysexes) : n \in 1 .. Len(m.sysexes) + 1
      BY <1>3
    <3> QED  BY <2>2, <3>1, <3>2, <3>3
  <2> QED  BY <2>1, <2>2
<1>8. Sound(q.sysexes, t)
  <2>1. CASE m.sysex = <<>>
    BY <1>2, <2>1, SoundPast DEF MidiInv
  <2>2. CASE m.sysex # <<>>
    <3>1. Len(m.sysex) \in 1 .. SysexLength
      BY <1>3, <2>2, EmptySeq, MidiAssumption DEF MidiInv, BufferInv
    <3>2. Sound(m.sysexes, t)
      BY SoundPast DEF MidiInv
    <3>3. 1 .. Len(q.sysexes) = (1 .. Len(m.sysexes)) \cup {Len(m.sysexes) + 1}
      BY <1>3, <1>7, <2>2
    <3> HIDE DEF t
    <3> QED  BY <1>5, <1>7, <2>2, <3>1, <3>2, <3>3 DEF Sound
  <2> QED  BY <2>1, <2>2
<1>9. ASSUME NEW j \in 1 .. Len(s), s[j] = SysexStart, Governs(s, j, Len(s) + 1),
             DataCount(s, j, Len(s)) \in 1 .. SysexLength
      PROVE \E n \in 1 .. Len(q.sysexes) : Listed(s, q.sysexes[n], j, Len(s)) /\ q.sysexes[n] \in Seq(Nat)
  <2>1. m.await \in Awaits
    BY <1>1, MidiStateFields
  <2>2. m.await # "status"
    BY <1>9, MidiAssumption DEF MidiInv, AwaitInv, NothingAwaited
  <2>3. ASSUME NEW i \in 1 .. Len(s), Governs(s, i, Len(s) + 1) PROVE i = j
    BY <1>1, <1>9, <2>3, OneGoverns
  <2>4. m.await = "sysex"
    <3>1. ASSUME m.await = "first" \/ m.await = "second" PROVE FALSE
      <4>1. PICK i \in 1 .. Len(s) : AwaitsFor(m, s, i)
        BY <3>1 DEF MidiInv, AwaitInv
      <4>2. Channel(s[j])
        BY <2>3, <4>1 DEF AwaitsFor
      <4> QED  BY <1>9, <4>2 DEF Channel, SysexStart
    <3> QED  BY <2>1, <2>2, <3>1 DEF Awaits
  <2>5. PICK i \in 1 .. Len(s) : Collects(m, s, i)
    BY <2>4 DEF MidiInv, AwaitInv
  <2>6. Listed(s, m.sysex, j, Len(s))
    BY <2>3, <2>5 DEF Collects
  <2>7. m.sysex # <<>>
    BY <1>9, <2>6 DEF Listed
  <2>8. Len(q.sysexes) = Len(m.sysexes) + 1 /\ q.sysexes[Len(m.sysexes) + 1] = m.sysex
    BY <1>7, <2>7
  <2>9. Len(m.sysexes) + 1 \in 1 .. Len(q.sysexes)
    BY <1>3, <2>8
  <2> QED  BY <1>3, <2>6, <2>8, <2>9
<1>10. Complete(q.sysexes, t)
  BY <1>7, <1>9, CompletePast DEF MidiInv
<1>11. Exact(q.events, t)
  BY <1>1, <1>2, CompletesNext, ExactPast DEF MidiInv
<1> QED  BY <1>2, <1>4, <1>6, <1>8, <1>10, <1>11 DEF MidiInv, q

\* One more turns even into odd.
LEMMA Parity == ASSUME NEW n \in Nat PROVE (n + 1) % 2 = 0 <=> ~(n % 2 = 0)
OBVIOUS

\* A data byte is one more for the status byte that governs it.
LEMMA DataByteNext ==
  ASSUME NEW s \in Seq(Nat), NEW b \in Nat, Data(b)
  PROVE /\ Len(s) \in Nat /\ Len(Append(s, b)) = Len(s) + 1 /\ Len(Append(s, b)) + 1 = Len(s) + 2
        /\ 1 .. Len(Append(s, b)) = (1 .. Len(s)) \cup {Len(s) + 1}
        /\ Append(s, b)[Len(s) + 1] = b
        /\ ~Governs(Append(s, b), Len(s) + 1, Len(s) + 2)
        /\ \A j \in 1 .. Len(s) :
             /\ Governs(Append(s, b), j, Len(s) + 2) <=> Governs(s, j, Len(s) + 1)
             /\ Append(s, b)[j] = s[j]
             /\ DataIn(Append(s, b), j, Len(s) + 1) = DataIn(s, j, Len(s)) \cup {Len(s) + 1}
             /\ DataCount(Append(s, b), j, Len(s) + 1) = DataCount(s, j, Len(s)) + 1
             /\ DataCount(s, j, Len(s)) \in Nat
             /\ \A i \in DataIn(s, j, Len(s)) : /\ DataCount(Append(s, b), j, i) = DataCount(s, j, i)
                                                /\ Append(s, b)[i] = s[i]
             /\ \A k \in 1 .. Len(s) :
                  Governs(s, j, Len(s) + 1) /\ Governs(s, k, Len(s) + 1) => j = k
<1>1. /\ Len(s) \in Nat /\ Len(Append(s, b)) = Len(s) + 1 /\ Append(s, b)[Len(s) + 1] = b /\ ~Status(b)
  BY LenProperties, StreamAppend, ByteKinds
<1>2. 1 .. Len(Append(s, b)) = (1 .. Len(s)) \cup {Len(s) + 1} /\ Len(Append(s, b)) + 1 = Len(s) + 2
  BY <1>1
<1>3. ~Governs(Append(s, b), Len(s) + 1, Len(s) + 2)
  BY <1>1, GovernsNext
<1>4. ASSUME NEW j \in 1 .. Len(s)
      PROVE /\ Governs(Append(s, b), j, Len(s) + 2) <=> Governs(s, j, Len(s) + 1)
            /\ Append(s, b)[j] = s[j]
            /\ DataIn(Append(s, b), j, Len(s) + 1) = DataIn(s, j, Len(s)) \cup {Len(s) + 1}
            /\ DataCount(Append(s, b), j, Len(s) + 1) = DataCount(s, j, Len(s)) + 1
            /\ DataCount(s, j, Len(s)) \in Nat
            /\ \A i \in DataIn(s, j, Len(s)) : /\ DataCount(Append(s, b), j, i) = DataCount(s, j, i)
                                               /\ Append(s, b)[i] = s[i]
            /\ \A k \in 1 .. Len(s) :
                 Governs(s, j, Len(s) + 1) /\ Governs(s, k, Len(s) + 1) => j = k
  <2>1. Governs(Append(s, b), j, Len(s) + 2) <=> Governs(s, j, Len(s) + 1)
    BY <1>1, GovernsNext
  <2>2. Append(s, b)[j] = s[j]
    BY StreamAppend
  <2>3. /\ DataIn(Append(s, b), j, Len(s) + 1) = DataIn(s, j, Len(s)) \cup {Len(s) + 1}
        /\ DataCount(Append(s, b), j, Len(s) + 1) = DataCount(s, j, Len(s)) + 1
    BY DataNext
  <2>4. DataCount(s, j, Len(s)) \in Nat /\ j \in Nat
    <3>1. j \in Nat
      BY <1>1
    <3> QED  BY <1>1, <3>1, DataFinite
  <2>5. ASSUME NEW i \in DataIn(s, j, Len(s))
        PROVE DataCount(Append(s, b), j, i) = DataCount(s, j, i) /\ Append(s, b)[i] = s[i]
    <3>1. i \in 1 .. Len(s) /\ i \in 0 .. Len(s) /\ j \in Nat
      BY <1>1, DataFinite
    <3> QED  BY <3>1, StreamAppend, DataPast
  <2>6. \A k \in 1 .. Len(s) :
          Governs(s, j, Len(s) + 1) /\ Governs(s, k, Len(s) + 1) => j = k
    <3>1. Len(s) + 1 \in Nat /\ \A k \in 1 .. Len(s) : k \in Nat
      BY <1>1
    <3> QED  BY <2>4, <3>1, OneGoverns
  <2> QED  BY <2>1, <2>2, <2>3, <2>4, <2>5, <2>6
<1> QED  BY <1>1, <1>2, <1>3, <1>4

\* A data byte that ends a message in the parser ends it in the stream.
LEMMA DataByteReports ==
  ASSUME NEW s \in Seq(Nat), NEW b \in Nat, NEW m, MidiInv(m, s), Data(b),
         NEW j \in 1 .. Len(s), AwaitsFor(m, s, j)
  PROVE /\ m.await = "first" /\ m.type \in OneByteTypes =>
             /\ Completes(Append(s, b), j, Len(s) + 1)
             /\ IsMessage(Append(s, b), <<m.type, m.channel, b, 0>>, j, Len(s) + 1)
        /\ m.await = "first" /\ m.type \notin OneByteTypes =>
             ~ \E k \in 1 .. Len(s) : Completes(Append(s, b), k, Len(s) + 1)
        /\ m.await = "second" /\ NoRealtime(s) =>
             /\ Completes(Append(s, b), j, Len(s) + 1)
             /\ IsMessage(Append(s, b), <<m.type, m.channel, m.one, b>>, j, Len(s) + 1)
<1> DEFINE t == Append(s, b)
<1>1. /\ Governs(s, j, Len(s) + 1) /\ Channel(s[j]) /\ m.type = Type(s[j]) /\ m.channel = s[j] % 16
      /\ DataCount(s, j, Len(s)) \in Nat /\ t[j] = s[j] /\ t[Len(s) + 1] = b
  BY DataByteNext DEF AwaitsFor
<1>2. ASSUME m.await = "first", m.type \in OneByteTypes
      PROVE Completes(t, j, Len(s) + 1) /\ IsMessage(t, <<m.type, m.channel, b, 0>>, j, Len(s) + 1)
  BY <1>1, <1>2, CompletesNext DEF IsMessage
<1>3. ASSUME m.await = "first", m.type \notin OneByteTypes,
             NEW k \in 1 .. Len(s), Completes(t, k, Len(s) + 1)
      PROVE FALSE
  <2>1. Governs(s, k, Len(s) + 1)
    BY <1>3, CompletesNext
  <2>2. k = j
    BY <1>1, <2>1, DataByteNext
  <2>3. (DataCount(s, j, Len(s)) + 1) % 2 = 0
    BY <1>1, <1>3, <2>2, CompletesNext
  <2>4. DataCount(s, j, Len(s)) % 2 = 0
    BY <1>3 DEF AwaitsFor
  <2> QED  BY <1>1, <2>3, <2>4, Parity
<1>4. ASSUME m.await = "second", NoRealtime(s)
      PROVE Completes(t, j, Len(s) + 1) /\ IsMessage(t, <<m.type, m.channel, m.one, b>>, j, Len(s) + 1)
  <2>1. m.type \notin OneByteTypes /\ DataCount(s, j, Len(s)) % 2 # 0
    BY <1>4 DEF AwaitsFor
  <2>2. (DataCount(s, j, Len(s)) + 1) % 2 = 0
    BY <1>1, <2>1, Parity
  <2>3. Completes(t, j, Len(s) + 1)
    BY <1>1, <2>2, CompletesNext
  <2>4. PICK i \in DataIn(s, j, Len(s)) : DataCount(s, j, i) = DataCount(s, j, Len(s)) /\ m.one = s[i]
    BY <1>4 DEF AwaitsFor
  <2>5. i \in DataIn(t, j, Len(s) + 1) /\ t[i] = s[i] /\ DataCount(t, j, i) + 1 = DataCount(t, j, Len(s) + 1)
    <3>1. /\ DataIn(t, j, Len(s) + 1) = DataIn(s, j, Len(s)) \cup {Len(s) + 1}
          /\ DataCount(t, j, Len(s) + 1) = DataCount(s, j, Len(s)) + 1
      BY DataByteNext
    <3>2. DataCount(t, j, i) = DataCount(s, j, i) /\ t[i] = s[i]
      <4>1. i \in 1 .. Len(s) /\ i \in 0 .. Len(s) /\ j \in Nat
        BY LenProperties, DataFinite
      <4> QED  BY <4>1, StreamAppend, DataPast
    <3> HIDE DEF t
    <3> QED  BY <2>4, <3>1, <3>2
  <2> HIDE DEF t
  <2>6. IsMessage(t, <<m.type, m.channel, m.one, b>>, j, Len(s) + 1)
    BY <1>1, <2>1, <2>4, <2>5 DEF IsMessage
  <2> QED  BY <2>3, <2>6
<1> QED  BY <1>2, <1>3, <1>4

\* What else a data byte can disturb: the messages only where one ends.
LEMMA DataByteRest ==
  ASSUME NEW s \in Seq(Nat), NEW b \in Nat, NEW m, MidiInv(m, s), Data(b)
  PROVE /\ Step(m, b) \in MidiState
        /\ Sound(Step(m, b).sysexes, Append(s, b)) /\ Complete(Step(m, b).sysexes, Append(s, b))
        /\ Step(m, b).await # "sysex" /\ m.await # "sysex" => BufferInv(Step(m, b), Append(s, b))
        /\ m.await # "first" /\ m.await # "second" => Exact(Step(m, b).events, Append(s, b))
<1> DEFINE t == Append(s, b)
           q == Step(m, b)
<1>1. m \in MidiState /\ b # SysexEnd /\ m.await \in Awaits
  BY ByteKinds, MidiStateFields DEF MidiInv
<1>2. /\ q \in MidiState /\ q.sysexes = m.sysexes
      /\ m.await # "sysex" => q.sysex = m.sysex
      /\ m.await # "first" /\ m.await # "second" => q.events = m.events
  BY <1>1, StepData DEF Awaits
<1> HIDE DEF q
<1>3. Sound(q.sysexes, t)
  BY <1>2, SoundPast DEF MidiInv
<1>4. Complete(q.sysexes, t)
  BY <1>1, <1>2, CompletePast DEF MidiInv
<1>5. ASSUME m.await # "sysex" PROVE BufferInv(q, t)
  BY <1>2, <1>5, SysexPast DEF MidiInv, BufferInv
<1>6. ASSUME m.await # "first", m.await # "second" PROVE Exact(q.events, t)
  <2>1. ASSUME NEW j \in 1 .. Len(s), Channel(s[j]), Governs(s, j, Len(s) + 1) PROVE FALSE
    <3>1. m.await = "sysex"
      BY <1>1, <1>6, <2>1 DEF MidiInv, AwaitInv, NothingAwaited, Awaits
    <3>2. PICK k \in 1 .. Len(s) : Collects(m, s, k)
      BY <3>1 DEF MidiInv, AwaitInv
    <3>3. k = j
      BY <2>1, <3>2, DataByteNext DEF Collects
    <3> QED  BY <2>1, <3>2, <3>3 DEF Collects, Channel, SysexStart
  <2>2. ~ \E j \in 1 .. Len(s) : Completes(t, j, Len(s) + 1)
    BY <2>1, CompletesNext
  <2> QED  BY <1>2, <1>6, <2>2, ExactPast DEF MidiInv
<1> QED  BY <1>2, <1>3, <1>4, <1>5, <1>6 DEF q

LEMMA DataByte ==
  ASSUME NEW s \in Seq(Nat), NEW b \in Nat, NEW m, MidiInv(m, s), Data(b)
  PROVE MidiInv(Step(m, b), Append(s, b))
<1> DEFINE t == Append(s, b)
           q == Step(m, b)
<1>1. /\ m \in MidiState /\ m.await \in Awaits /\ m.sysex \in Seq(Nat) /\ Len(m.sysex) \in Nat
      /\ m.events \in Seq(MidiMessages) /\ m.type \in Nat /\ m.channel \in Nat /\ m.one \in Nat
      /\ SysexLength \in Nat
  BY MidiStateFields, LenProperties, MidiAssumption DEF MidiInv, Types
<1>2. /\ q \in MidiState /\ Sound(q.sysexes, t) /\ Complete(q.sysexes, t)
      /\ q.await # "sysex" /\ m.await # "sysex" => BufferInv(q, t)
      /\ m.await # "first" /\ m.await # "second" => Exact(q.events, t)
  BY DataByteRest
<1>3. /\ Len(s) \in Nat /\ Len(t) = Len(s) + 1 /\ Len(t) + 1 = Len(s) + 2
      /\ \A j \in 1 .. Len(s) : j \in 1 .. Len(t)
  BY DataByteNext
<1>4. CASE m.await = "first" \/ m.await = "second"
  <2>1. PICK j \in 1 .. Len(s) : AwaitsFor(m, s, j)
    BY <1>4 DEF MidiInv, AwaitInv
  <2>2. /\ Governs(t, j, Len(s) + 2) /\ Channel(t[j]) /\ m.type = Type(t[j]) /\ m.channel = t[j] % 16
        /\ DataCount(t, j, Len(s) + 1) = DataCount(s, j, Len(s)) + 1 /\ DataCount(s, j, Len(s)) \in Nat
        /\ Len(s) + 1 \in DataIn(t, j, Len(s) + 1) /\ t[Len(s) + 1] = b
    <3>1. /\ Governs(s, j, Len(s) + 1) /\ Channel(s[j])
          /\ m.type = Type(s[j]) /\ m.channel = s[j] % 16
      BY <2>1 DEF AwaitsFor
    <3>2. /\ Governs(t, j, Len(s) + 2) <=> Governs(s, j, Len(s) + 1)
          /\ t[j] = s[j] /\ t[Len(s) + 1] = b
          /\ DataIn(t, j, Len(s) + 1) = DataIn(s, j, Len(s)) \cup {Len(s) + 1}
          /\ DataCount(t, j, Len(s) + 1) = DataCount(s, j, Len(s)) + 1 /\ DataCount(s, j, Len(s)) \in Nat
      BY DataByteNext
    <3> HIDE DEF t
    <3> QED  BY <3>1, <3>2
  <2>3. q.type = m.type /\ q.channel = m.channel
    BY <1>1, StepData
  <2>4. CASE m.await = "first" /\ m.type \in OneByteTypes
    <3>1. q.await = "first" /\ q.events = Append(m.events, <<m.type, m.channel, b, 0>>)
      BY <1>1, <2>4, StepData
    <3> HIDE DEF q
    <3>2. AwaitsFor(q, t, j)
      BY <1>3, <2>2, <2>3, <2>4, <3>1 DEF AwaitsFor
    <3>3. AwaitInv(q, t)
      BY <1>3, <3>1, <3>2 DEF AwaitInv
    <3>4. <<m.type, m.channel, b, 0>> \in MidiMessages
      BY <1>1 DEF MidiMessages
    <3>5. Exact(q.events, t)
      BY <1>1, <2>1, <2>4, <3>1, <3>4, DataByteReports, ExactNext DEF MidiInv
    <3> QED  BY <1>2, <2>4, <3>1, <3>3, <3>5 DEF MidiInv, q
  <2>5. CASE m.await = "first" /\ m.type \notin OneByteTypes
    <3>1. q.await = "second" /\ q.events = m.events /\ q.one = b
      BY <1>1, <2>5, StepData
    <3> HIDE DEF q
    <3>2. DataCount(t, j, Len(t)) % 2 # 0
      <4>1. DataCount(s, j, Len(s)) % 2 = 0
        BY <2>1, <2>5 DEF AwaitsFor
      <4> QED  BY <1>3, <2>2, <4>1, Parity
    <3>3. \E i \in DataIn(t, j, Len(t)) : DataCount(t, j, i) = DataCount(t, j, Len(t)) /\ q.one = t[i]
      BY <1>3, <2>2, <3>1
    <3>4. AwaitsFor(q, t, j)
      BY <1>3, <2>2, <2>3, <2>5, <3>1, <3>2, <3>3 DEF AwaitsFor
    <3>5. AwaitInv(q, t)
      BY <1>3, <3>1, <3>4 DEF AwaitInv
    <3>6. Exact(q.events, t)
      BY <2>1, <2>5, <3>1, DataByteReports, ExactPast DEF MidiInv
    <3> QED  BY <1>2, <2>5, <3>1, <3>5, <3>6 DEF MidiInv, q
  <2>6. CASE m.await = "second"
    <3>1. q.await = "first" /\ q.events = Append(m.events, <<m.type, m.channel, m.one, b>>)
      BY <1>1, <2>6, StepData
    <3> HIDE DEF q
    <3>2. m.type \notin OneByteTypes
      BY <2>1, <2>6 DEF AwaitsFor
    <3>3. DataCount(t, j, Len(t)) % 2 = 0
      <4>1. DataCount(s, j, Len(s)) % 2 # 0
        BY <2>1, <2>6, <3>2 DEF AwaitsFor
      <4> QED  BY <1>3, <2>2, <4>1, Parity
    <3>4. AwaitsFor(q, t, j)
      BY <1>3, <2>2, <2>3, <3>1, <3>2, <3>3 DEF AwaitsFor
    <3>5. AwaitInv(q, t)
      BY <1>3, <3>1, <3>4 DEF AwaitInv
    <3>6. <<m.type, m.channel, m.one, b>> \in MidiMessages
      BY <1>1 DEF MidiMessages
    <3>7. Exact(q.events, t)
      BY <1>1, <2>1, <2>6, <3>1, <3>6, DataByteReports, ExactNext DEF MidiInv
    <3> QED  BY <1>2, <2>6, <3>1, <3>5, <3>7 DEF MidiInv, q
  <2> QED  BY <1>4, <2>4, <2>5, <2>6
<1>5. CASE m.await = "sysex"
  <2>1. PICK j \in 1 .. Len(s) : Collects(m, s, j)
    BY <1>5 DEF MidiInv, AwaitInv
  <2>2. Governs(t, j, Len(s) + 2) /\ t[j] = SysexStart
    BY <2>1, DataByteNext DEF Collects
  <2>3. Len(m.sysex) = DataCount(s, j, Len(s))
    BY <2>1 DEF Collects, Listed
  <2>4. CASE Len(m.sysex) < SysexLength
    <3>1. q.await = "sysex" /\ q.sysex = Append(m.sysex, b)
      BY <1>1, <1>5, <2>4, StepData
    <3> HIDE DEF q
    <3>2. Listed(t, Append(m.sysex, b), j, Len(s) + 1)
      BY <1>1, <2>1, ListedNext DEF Collects
    <3>3. Collects(q, t, j)
      BY <1>3, <2>2, <3>1, <3>2 DEF Collects
    <3>4. AwaitInv(q, t)
      BY <1>3, <3>1, <3>3 DEF AwaitInv
    <3>5. BufferInv(q, t)
      <4>1. Len(q.sysex) = Len(m.sysex) + 1
        BY <1>1, <3>1, AppendProperties
      <4> QED  BY <1>1, <2>4, <3>1, <4>1 DEF BufferInv
    <3> QED  BY <1>2, <1>5, <3>4, <3>5 DEF MidiInv, q
  <2>5. CASE ~(Len(m.sysex) < SysexLength)
    <3>1. q.await = "status" /\ q.sysex = <<>>
      BY <1>1, <1>5, <2>5, StepData
    <3> HIDE DEF q
    <3>2. NothingAwaited(t)
      <4> SUFFICES ASSUME NEW k \in 1 .. Len(t), Governs(t, k, Len(s) + 2)
                   PROVE /\ ~Channel(t[k])
                         /\ t[k] = SysexStart => DataCount(t, k, Len(s) + 1) > SysexLength
        BY <1>3 DEF NothingAwaited
      <4>1. k \in 1 .. Len(s)
        <5>1. ~Governs(t, Len(s) + 1, Len(s) + 2)
          BY DataByteNext
        <5>2. 1 .. Len(t) = (1 .. Len(s)) \cup {Len(s) + 1}
          BY DataByteNext
        <5> HIDE DEF t
        <5> QED  BY <5>1, <5>2
      <4>2. k = j
        BY <2>1, <4>1, DataByteNext DEF Collects
      <4>3. DataCount(t, j, Len(s) + 1) = DataCount(s, j, Len(s)) + 1
        BY DataByteNext
      <4>4. DataCount(t, j, Len(s) + 1) > SysexLength
        BY <1>1, <2>3, <2>5, <4>3
      <4> QED  BY <2>2, <4>2, <4>4 DEF Channel, SysexStart
    <3>3. AwaitInv(q, t)
      BY <3>1, <3>2 DEF AwaitInv
    <3>4. BufferInv(q, t)
      BY <1>1, <3>1 DEF BufferInv
    <3> QED  BY <1>2, <1>5, <3>3, <3>4 DEF MidiInv, q
  <2> QED  BY <2>4, <2>5
<1>6. CASE m.await = "status"
  <2>1. q.await = "status"
    BY <1>1, <1>6, StepData
  <2> HIDE DEF q
  <2>2. NothingAwaited(s)
    BY <1>6 DEF MidiInv, AwaitInv
  <2>3. NothingAwaited(t)
    <3> SUFFICES ASSUME NEW k \in 1 .. Len(t), Governs(t, k, Len(s) + 2)
                 PROVE /\ ~Channel(t[k])
                       /\ t[k] = SysexStart => DataCount(t, k, Len(s) + 1) > SysexLength
      BY <1>3 DEF NothingAwaited
    <3>1. k \in 1 .. Len(s)
      <4>1. ~Governs(t, Len(s) + 1, Len(s) + 2)
        BY DataByteNext
      <4>2. 1 .. Len(t) = (1 .. Len(s)) \cup {Len(s) + 1}
        BY DataByteNext
      <4> HIDE DEF t
      <4> QED  BY <4>1, <4>2
    <3>2. /\ Governs(s, k, Len(s) + 1) /\ t[k] = s[k] /\ DataCount(s, k, Len(s)) \in Nat
          /\ DataCount(t, k, Len(s) + 1) = DataCount(s, k, Len(s)) + 1
      BY <3>1, DataByteNext
    <3>3. ~Channel(s[k]) /\ (s[k] = SysexStart => DataCount(s, k, Len(s)) > SysexLength)
      BY <2>2, <3>1, <3>2 DEF NothingAwaited
    <3> QED  BY <1>1, <3>2, <3>3
  <2>4. AwaitInv(q, t)
    BY <2>1, <2>3 DEF AwaitInv
  <2> QED  BY <1>2, <1>6, <2>1, <2>4 DEF MidiInv, q
<1> QED  BY <1>1, <1>4, <1>5, <1>6 DEF Awaits

\* Every byte keeps what the parser awaits and has reported in step with the stream.
LEMMA MidiByte ==
  ASSUME NEW s \in Seq(Nat), NEW b \in Nat, NEW m, MidiInv(m, s)
  PROVE MidiInv(Step(m, b), Append(s, b))
<1>1. m \in MidiState /\ (Realtime(b) \/ Common(b) \/ Channel(b) \/ Data(b))
  BY ByteKinds DEF MidiInv
<1>2. CASE Realtime(b)
  BY <1>1, <1>2, StepRealtime, QuietByte, ByteKinds
<1>3. CASE Common(b) /\ ~Status(b)
  <2>1. Step(m, b) = m /\ ~Data(b)
    BY <1>1, <1>3, StepIgnored, ByteKinds
  <2> QED  BY <1>1, <1>3, <2>1, QuietByte DEF SameFraming
<1>4. CASE b = SysexStart
  BY <1>4, StartByte
<1>5. CASE b = SysexEnd
  BY <1>5, EndByte
<1>6. CASE Channel(b)
  BY <1>6, ChannelByte
<1>7. CASE Data(b)
  BY <1>7, DataByte
<1> QED  BY <1>1, <1>2, <1>3, <1>4, <1>5, <1>6, <1>7, ByteKinds

-----------------------------------------------------------------------------
(* MIDI: two parsers of the same bytes, one of which gets no real-time     *)
(* ones, await the same and report messages of the same type and channel.  *)

SameMessages(e, f) ==
  /\ Len(e) = Len(f)
  /\ \A n \in 1 .. Len(e) : e[n][1] = f[n][1] /\ e[n][2] = f[n][2]

LEMMA SameMessagesNext ==
  ASSUME NEW e \in Seq(MidiMessages), NEW f \in Seq(MidiMessages), SameMessages(e, f),
         NEW x \in MidiMessages, NEW y \in MidiMessages, x[1] = y[1], x[2] = y[2]
  PROVE SameMessages(Append(e, x), Append(f, y))
<1>1. Len(e) \in Nat /\ Len(e) = Len(f)
  BY LenProperties DEF SameMessages
<1>2. 1 .. Len(e) + 1 = (1 .. Len(e)) \cup {Len(e) + 1}
  BY <1>1
<1>3. /\ Len(Append(e, x)) = Len(e) + 1 /\ Len(Append(f, y)) = Len(e) + 1
      /\ Append(e, x)[Len(e) + 1] = x /\ Append(f, y)[Len(e) + 1] = y
      /\ \A n \in 1 .. Len(e) : Append(e, x)[n] = e[n] /\ Append(f, y)[n] = f[n]
  BY <1>1, AppendProperties
<1> QED  BY <1>1, <1>2, <1>3 DEF SameMessages

LEMMA FramingByte ==
  ASSUME NEW m \in MidiState, NEW p \in MidiState, NEW b \in Nat,
         SameFraming(m, p), SameMessages(m.events, p.events)
  PROVE /\ Realtime(b) => SameFraming(Step(m, b), p) /\ SameMessages(Step(m, b).events, p.events)
        /\ ~Realtime(b) => /\ SameFraming(Step(m, b), Step(p, b))
                           /\ SameMessages(Step(m, b).events, Step(p, b).events)
<1> DEFINE q == Step(m, b)
           r == Step(p, b)
<1>1. /\ m.await = p.await /\ m.type = p.type /\ m.channel = p.channel
      /\ m.sysex = p.sysex /\ m.sysexes = p.sysexes
  BY DEF SameFraming
<1>2. CASE Realtime(b)
  BY <1>2, StepRealtime DEF SameFraming
<1>3. CASE Common(b) /\ ~Status(b)
  BY <1>3, StepIgnored, ByteKinds
<1>4. CASE b = SysexStart
  <2>1. /\ q.await = "sysex" /\ q.sysex = <<>> /\ q.sysexes = m.sysexes /\ q.events = m.events
        /\ q.type = m.type /\ q.channel = m.channel
    BY <1>4, StepStart
  <2>2. /\ r.await = "sysex" /\ r.sysex = <<>> /\ r.sysexes = p.sysexes /\ r.events = p.events
        /\ r.type = p.type /\ r.channel = p.channel
    BY <1>4, StepStart
  <2>3. ~Realtime(b)
    BY <1>4, ByteKinds
  <2> HIDE DEF q, r
  <2>4. SameFraming(q, r) /\ SameMessages(q.events, r.events)
    BY <1>1, <2>1, <2>2 DEF SameFraming
  <2> QED  BY <2>3, <2>4 DEF q, r
<1>5. CASE b = SysexEnd
  <2>1. /\ q.await = "status" /\ q.sysex = m.sysex /\ q.events = m.events
        /\ q.type = m.type /\ q.channel = m.channel
        /\ m.sysex # <<>> => q.sysexes = Append(m.sysexes, m.sysex)
        /\ m.sysex = <<>> => q.sysexes = m.sysexes
    BY <1>5, StepEnd
  <2>2. /\ r.await = "status" /\ r.sysex = p.sysex /\ r.events = p.events
        /\ r.type = p.type /\ r.channel = p.channel
        /\ p.sysex # <<>> => r.sysexes = Append(p.sysexes, p.sysex)
        /\ p.sysex = <<>> => r.sysexes = p.sysexes
    BY <1>5, StepEnd
  <2>3. ~Realtime(b)
    BY <1>5, ByteKinds
  <2> HIDE DEF q, r
  <2>4. SameFraming(q, r) /\ SameMessages(q.events, r.events)
    BY <1>1, <2>1, <2>2 DEF SameFraming
  <2> QED  BY <2>3, <2>4 DEF q, r
<1>6. CASE Channel(b)
  <2>1. /\ q.await = "first" /\ q.type = Type(b) /\ q.channel = b % 16
        /\ m.await = "sysex" => q.sysex = <<>>
        /\ m.await # "sysex" => q.sysex = m.sysex
        /\ q.sysexes = m.sysexes /\ q.events = m.events
    BY <1>6, StepChannel
  <2>2. /\ r.await = "first" /\ r.type = Type(b) /\ r.channel = b % 16
        /\ p.await = "sysex" => r.sysex = <<>>
        /\ p.await # "sysex" => r.sysex = p.sysex
        /\ r.sysexes = p.sysexes /\ r.events = p.events
    BY <1>6, StepChannel
  <2>3. ~Realtime(b)
    BY <1>6, ByteKinds
  <2> HIDE DEF q, r
  <2>4. SameFraming(q, r) /\ SameMessages(q.events, r.events)
    BY <1>1, <2>1, <2>2 DEF SameFraming
  <2> QED  BY <2>3, <2>4 DEF q, r
<1>7. CASE Data(b)
  <2>1. /\ m.await \in Awaits /\ m.type \in Nat /\ m.channel \in Nat /\ m.one \in Nat /\ p.one \in Nat
        /\ m.events \in Seq(MidiMessages) /\ p.events \in Seq(MidiMessages)
    BY MidiStateFields DEF Types
  <2>2. ~Realtime(b)
    BY <1>7, ByteKinds
  <2>3. q.type = m.type /\ q.channel = m.channel /\ q.sysexes = m.sysexes
        /\ r.type = p.type /\ r.channel = p.channel /\ r.sysexes = p.sysexes
    BY <1>7, StepData
  <2>4. q.await = r.await /\ q.sysex = r.sysex
    <3>1. CASE m.await = "first" /\ m.type \in OneByteTypes
      <4>1. q.await = "first" /\ q.sysex = m.sysex
        BY <1>7, <3>1, StepData
      <4>2. p.await = "first" /\ p.type \in OneByteTypes
        BY <1>1, <3>1
      <4>3. r.await = "first" /\ r.sysex = p.sysex
        BY <1>7, <4>2, StepData
      <4> QED  BY <1>1, <4>1, <4>3
    <3>2. CASE m.await = "first" /\ m.type \notin OneByteTypes
      <4>1. q.await = "second" /\ q.sysex = m.sysex
        BY <1>7, <3>2, StepData
      <4>2. p.await = "first" /\ p.type \notin OneByteTypes
        BY <1>1, <3>2
      <4>3. r.await = "second" /\ r.sysex = p.sysex
        BY <1>7, <4>2, StepData
      <4> QED  BY <1>1, <4>1, <4>3
    <3>3. CASE m.await = "second"
      <4>1. q.await = "first" /\ q.sysex = m.sysex
        BY <1>7, <3>3, StepData
      <4>2. p.await = "second"
        BY <1>1, <3>3
      <4>3. r.await = "first" /\ r.sysex = p.sysex
        BY <1>7, <4>2, StepData
      <4> QED  BY <1>1, <4>1, <4>3
    <3>4. CASE m.await = "sysex" /\ Len(m.sysex) < SysexLength
      <4>1. q.await = "sysex" /\ q.sysex = Append(m.sysex, b)
        BY <1>7, <3>4, StepData
      <4>2. p.await = "sysex" /\ Len(p.sysex) < SysexLength
        BY <1>1, <3>4
      <4>3. r.await = "sysex" /\ r.sysex = Append(p.sysex, b)
        BY <1>7, <4>2, StepData
      <4> QED  BY <1>1, <4>1, <4>3
    <3>5. CASE m.await = "sysex" /\ ~(Len(m.sysex) < SysexLength)
      <4>1. q.await = "status" /\ q.sysex = <<>>
        BY <1>7, <3>5, StepData
      <4>2. p.await = "sysex" /\ ~(Len(p.sysex) < SysexLength)
        BY <1>1, <3>5
      <4>3. r.await = "status" /\ r.sysex = <<>>
        BY <1>7, <4>2, StepData
      <4> QED  BY <1>1, <4>1, <4>3
    <3>6. CASE m.await = "status"
      <4>1. q.await = "status" /\ q.sysex = m.sysex
        BY <1>7, <3>6, StepData
      <4>2. p.await = "status"
        BY <1>1, <3>6
      <4>3. r.await = "status" /\ r.sysex = p.sysex
        BY <1>7, <4>2, StepData
      <4> QED  BY <1>1, <4>1, <4>3
    <3> QED  BY <2>1, <3>1, <3>2, <3>3, <3>4, <3>5, <3>6 DEF Awaits
  <2>5. SameMessages(q.events, r.events)
    <3>1. CASE m.await = "first" /\ m.type \in OneByteTypes
      <4>1. /\ q.events = Append(m.events, <<m.type, m.channel, b, 0>>)
            /\ r.events = Append(p.events, <<m.type, m.channel, b, 0>>)
        <5>1. q.events = Append(m.events, <<m.type, m.channel, b, 0>>)
          BY <1>7, <3>1, StepData
        <5>2. p.await = "first" /\ p.type \in OneByteTypes
          BY <1>1, <3>1
        <5>3. r.events = Append(p.events, <<p.type, p.channel, b, 0>>)
          BY <1>7, <5>2, StepData
        <5> QED  BY <1>1, <5>1, <5>3
      <4>2. <<m.type, m.channel, b, 0>> \in MidiMessages
        BY <2>1 DEF MidiMessages
      <4> HIDE DEF q, r
      <4> QED  BY <2>1, <4>1, <4>2, SameMessagesNext
    <3>2. CASE m.await = "second"
      <4>1. /\ q.events = Append(m.events, <<m.type, m.channel, m.one, b>>)
            /\ r.events = Append(p.events, <<m.type, m.channel, p.one, b>>)
        <5>1. q.events = Append(m.events, <<m.type, m.channel, m.one, b>>)
          BY <1>7, <3>2, StepData
        <5>2. p.await = "second"
          BY <1>1, <3>2
        <5>3. r.events = Append(p.events, <<p.type, p.channel, p.one, b>>)
          BY <1>7, <5>2, StepData
        <5> QED  BY <1>1, <5>1, <5>3
      <4>2. <<m.type, m.channel, m.one, b>> \in MidiMessages /\ <<m.type, m.channel, p.one, b>> \in MidiMessages
        BY <2>1 DEF MidiMessages
      <4> HIDE DEF q, r
      <4> QED  BY <2>1, <4>1, <4>2, SameMessagesNext
    <3>3. CASE ~(m.await = "first" /\ m.type \in OneByteTypes) /\ m.await # "second"
      <4>1. q.events = m.events /\ r.events = p.events
        BY <1>1, <1>7, <2>1, <3>3, StepData DEF Awaits
      <4> HIDE DEF q, r
      <4> QED  BY <4>1
    <3> QED  BY <3>1, <3>2, <3>3
  <2> HIDE DEF q, r
  <2>6. SameFraming(q, r)
    BY <1>1, <2>3, <2>4 DEF SameFraming
  <2> QED  BY <2>2, <2>5, <2>6 DEF q, r
<1> QED  BY <1>2, <1>3, <1>4, <1>5, <1>6, <1>7, ByteKinds

\* Every parser that gets a byte keeps its type.
LEMMA StepType == ASSUME NEW m \in MidiState, NEW b \in Nat PROVE Step(m, b) \in MidiState
BY StepRealtime, StepIgnored, StepStart, StepEnd, StepChannel, StepData, ByteKinds

MidiIndInv ==
  /\ input \in Seq(Nat) /\ MidiInv(midi, input)
  /\ plain \in MidiState /\ SameFraming(midi, plain) /\ SameMessages(midi.events, plain.events)

LEMMA MidiInitial == MidiInit => MidiIndInv
<1> SUFFICES ASSUME MidiInit PROVE MidiIndInv
  OBVIOUS
<1>1. /\ Fresh \in MidiState /\ Fresh.await = "status" /\ Fresh.sysex = <<>> /\ Fresh.sysexes = <<>>
      /\ Fresh.events = <<>>
  BY EmptySeq DEF Fresh, MidiState, Awaits, Types, Realtime
<1>2. midi = Fresh /\ plain = Fresh /\ input = <<>> /\ Len(<<>>) = 0 /\ <<>> \in Seq(Nat) /\ 1 .. 0 = {}
  BY DEF MidiInit
<1>3. AwaitInv(midi, input) /\ BufferInv(midi, input)
  BY <1>1, <1>2, MidiAssumption DEF AwaitInv, BufferInv, NothingAwaited
<1>4. Sound(midi.sysexes, input) /\ Complete(midi.sysexes, input)
  BY <1>1, <1>2 DEF Sound, Complete
<1>5. Exact(midi.events, input)
  <2>1. Ends(<<>>, 0) = {}
    BY <1>2 DEF Ends
  <2> QED  BY <1>1, <1>2, <2>1, FS_EmptySet DEF Exact
<1> QED  BY <1>1, <1>2, <1>3, <1>4, <1>5 DEF MidiIndInv, MidiInv, SameFraming, SameMessages

LEMMA MidiStep == MidiIndInv /\ [MidiNext]_midiVars => MidiIndInv'
<1> SUFFICES ASSUME MidiIndInv, [MidiNext]_midiVars PROVE MidiIndInv'
  OBVIOUS
<1>1. CASE ReceiveByte
  <2>1. PICK b \in MidiBytes : /\ input' = Append(input, b) /\ midi' = Step(midi, b)
                               /\ plain' = IF Realtime(b) THEN plain ELSE Step(plain, b)
    BY <1>1 DEF ReceiveByte
  <2>2. b \in Nat /\ input \in Seq(Nat) /\ midi \in MidiState /\ plain \in MidiState
    BY MidiAssumption DEF MidiIndInv, MidiInv
  <2>3. MidiInv(Step(midi, b), Append(input, b)) /\ Append(input, b) \in Seq(Nat)
    BY <2>2, MidiByte, StreamAppend DEF MidiIndInv
  <2>4. MidiInv(midi', input') /\ input' \in Seq(Nat)
    BY <2>1, <2>3
  <2>5. plain' \in MidiState
    BY <2>1, <2>2, StepType
  <2>6. SameFraming(midi', plain') /\ SameMessages(midi'.events, plain'.events)
    BY <2>1, <2>2, FramingByte DEF MidiIndInv
  <2> QED  BY <2>4, <2>5, <2>6 DEF MidiIndInv
<1>2. CASE UNCHANGED midiVars
  BY <1>2 DEF midiVars, MidiIndInv
<1> QED  BY <1>1, <1>2 DEF MidiNext

LEMMA MidiInvariant == MidiSpec => []MidiIndInv
BY MidiInitial, MidiStep, PTL DEF MidiSpec

\* For every set of bytes, every length of stream and of the buffer: on a stream without
\* real-time bytes the channel messages reported are exactly those in it, in order.
THEOREM ChannelMessages == MidiSpec => []ChannelExact
<1>1. MidiIndInv => ChannelExact
  BY DEF MidiIndInv, MidiInv, Exact, ChannelExact, NoRealtime, Reported
<1> QED  BY <1>1, MidiInvariant, PTL

\* What is reported as a system exclusive message is one of the stream, and every one of
\* the stream that fits the buffer is reported.
THEOREM SysexMessages == MidiSpec => []SysexReported
<1>1. MidiIndInv => SysexSound
  BY DEF MidiIndInv, MidiInv, Sound, SysexSound, IsSysex
<1>2. MidiIndInv => SysexComplete
  BY DEF MidiIndInv, MidiInv, Complete, SysexComplete
<1> QED  BY <1>1, <1>2, MidiInvariant, PTL DEF SysexReported

\* Real-time bytes, however many and wherever they come, change nothing but the data of
\* the message they interrupt.
THEOREM FramingKept == MidiSpec => []RealtimeKeepsFraming
<1>1. MidiIndInv => RealtimeKeepsFraming
  BY DEF MidiIndInv, SameFraming, SameMessages, RealtimeKeepsFraming
<1> QED  BY <1>1, MidiInvariant, PTL
=============================================================================
