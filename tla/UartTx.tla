------------------------------- MODULE UartTx -------------------------------
(***************************************************************************)
(* Interrupt-driven transmission over a UART: the device driver (dev_mcu.c *)
(* with 5-byte messages, dev_trs.c with single bytes) queues messages in a *)
(* ring buffer, the peripheral driver (per_uart.c) feeds the message in    *)
(* progress to the transmitter from its interrupt handler, and the handler *)
(* starts the next queued message through the driver's callback.           *)
(*                                                                         *)
(* The main loop runs the same callback to start an idle transmitter, so   *)
(* main and the handler share the callback's static message buffer, the    *)
(* consumer end of the ring and the tx_complete flag; nothing but that     *)
(* flag and the order of the stores keeps them apart.  Main's steps are    *)
(* single stores, the handler (which main never interrupts) steps at each  *)
(* loop test and each byte so that the transmitter can drain meanwhile.    *)
(*                                                                         *)
(* The ring is a queue: that is what RingTx shows of ring_buffer_put_force *)
(* against handler-side gets until the buffer overruns, at 511 messages    *)
(* queued.  UARTCharPut of the csl library may or may not wait until the   *)
(* transmitter is empty: a put that waits is one with enough Shift steps   *)
(* before it.  Byte j of message m is <<m, j>>.                            *)
(*                                                                         *)
(* One run of the handler's loop writes at most FifoLength bytes, of as    *)
(* many messages as that takes.  The loop counts a byte off the message    *)
(* before it looks at that limit: a message it stops in is refused a byte, *)
(* and ends one byte early.                                                *)
(***************************************************************************)
EXTENDS Naturals, Sequences

CONSTANTS
  MsgLen,      \* bytes of a message: 5 (MCU) or 1 (TRS)
  FifoLength,  \* UART_TX_FIFO_LENGTH
  LenMod,      \* number of values of tx_length, 2^32
  MaxMsgs      \* bound: messages main ever enqueues

ASSUME UartTxAssumption ==
  /\ MsgLen \in Nat \ {0} /\ FifoLength \in Nat \ {0}
  /\ LenMod \in Nat /\ LenMod > MsgLen
  /\ MaxMsgs \in Nat

VARIABLES
  ring,      \* mcu_tx_rbd / trs_tx_rbd: the messages queued
  complete,  \* g_mcu_tx_complete / g_trs_tx_complete
  msg,       \* the message held in the callback's static buffer
  pos,       \* tx_buffer, as an offset into that buffer
  length,    \* tx_length
  pc,        \* main: next step of the enqueue
  isr, level,  \* the handler: next step ("off": not running), tx_fifo_level
  intEn, thre, \* UART: transmit interrupt enabled; transmitter-empty event latched
  fifo,      \* UART: bytes written and not yet on the wire
  wire,      \* history: the bytes transmitted
  sent,      \* history: messages enqueued so far
  refused    \* history: messages a byte of which the limit refused

driver == <<complete, msg, pos, length>>
uart   == <<intEn, thre, fifo, wire>>
vars   == <<ring, driver, pc, isr, level, uart, sent, refused>>

Init ==
  /\ ring = <<>> /\ complete = TRUE
  /\ msg = 0 /\ pos = 0 /\ length = 0
  /\ pc = "idle" /\ isr = "off" /\ level = 0
  /\ intEn = FALSE /\ thre = FALSE
  /\ fifo = <<>> /\ wire = <<>> /\ sent = 0 /\ refused = {}

-----------------------------------------------------------------------------
(* The UART.  Its registers are reached only through the csl library.      *)

\* A transmit interrupt is asserted.
Pending == intEn /\ thre

\* One byte leaves the transmitter; the last one latches the empty event.
Shift ==
  /\ fifo # <<>>
  /\ wire' = Append(wire, Head(fifo))
  /\ fifo' = Tail(fifo)
  /\ thre' = (thre \/ Len(fifo) = 1)
  /\ UNCHANGED <<ring, driver, pc, isr, level, intEn, sent, refused>>

\* UARTIntEnable(.., UART_INT_TX_EMPTY): enabling the interrupt over an empty
\* transmitter latches the event at once.
Enable ==
  /\ intEn' = TRUE
  /\ thre' = (thre \/ (~intEn /\ fifo = <<>>))

-----------------------------------------------------------------------------
(* The main loop: dev_mcu_tx_enqueue / dev_trs_tx_enqueue.                 *)

\* ring_buffer_put_force.
EnqueuePut ==
  /\ pc = "idle" /\ isr = "off"
  /\ sent < MaxMsgs
  /\ ring' = Append(ring, sent)
  /\ sent' = sent + 1
  /\ pc' = "check"
  /\ UNCHANGED <<driver, isr, level, uart, refused>>

\* Start transmission only if none is in progress.
EnqueueCheck ==
  /\ pc = "check" /\ isr = "off"
  /\ pc' = IF complete THEN "dequeue" ELSE "idle"
  /\ UNCHANGED <<ring, driver, isr, level, uart, sent, refused>>

\* The callback, run by main: dequeue into the static buffer, or note completion.
StartDequeue ==
  /\ pc = "dequeue" /\ isr = "off"
  /\ IF ring = <<>>
     THEN /\ complete' = TRUE /\ pc' = "idle"
          /\ UNCHANGED <<ring, msg>>
     ELSE /\ msg' = Head(ring) /\ ring' = Tail(ring) /\ pc' = "claim"
          /\ UNCHANGED complete
  /\ UNCHANGED <<pos, length, isr, level, uart, sent, refused>>

\* Mutant of StartClaim: the flag is left set while a message is transmitted.
StartWithoutClaim ==
  /\ pc = "claim" /\ isr = "off"
  /\ pc' = "buffer"
  /\ UNCHANGED <<ring, driver, isr, level, uart, sent, refused>>

\* _mcu_tx_msg clears the flag before it hands the message over ...
StartClaim ==
  /\ pc = "claim" /\ isr = "off"
  /\ complete' = FALSE /\ pc' = "buffer"
  /\ UNCHANGED <<ring, msg, pos, length, isr, level, uart, sent, refused>>

\* ... then per_uart_transmit_int stores the buffer ...
StartBuffer ==
  /\ pc = "buffer" /\ isr = "off"
  /\ pos' = 0 /\ pc' = "length"
  /\ UNCHANGED <<ring, complete, msg, length, isr, level, uart, sent, refused>>

\* ... and the length ...
StartLength ==
  /\ pc = "length" /\ isr = "off"
  /\ length' = MsgLen /\ pc' = "enable"
  /\ UNCHANGED <<ring, complete, msg, pos, isr, level, uart, sent, refused>>

\* Mutant of StartEnable: the interrupt is left disabled.
StartWithoutEnable ==
  /\ pc = "enable" /\ isr = "off"
  /\ pc' = "idle"
  /\ UNCHANGED <<ring, driver, isr, level, uart, sent, refused>>

\* ... and enables the interrupt.
StartEnable ==
  /\ pc = "enable" /\ isr = "off"
  /\ Enable /\ pc' = "idle"
  /\ UNCHANGED <<ring, driver, isr, level, fifo, wire, sent, refused>>

Main == \/ EnqueueCheck \/ StartDequeue \/ StartClaim
        \/ StartBuffer \/ StartLength \/ StartEnable

-----------------------------------------------------------------------------
(* The interrupt handler: _uart_isr, its transmit case.                    *)

IsrEnter ==
  /\ isr = "off" /\ Pending
  /\ isr' = "status"
  /\ UNCHANGED <<ring, driver, pc, level, uart, sent, refused>>

\* while ((int_id = UARTIntStatus(..))): reading the identification register
\* clears the transmitter-empty event it reports.
IsrStatus ==
  /\ isr = "status"
  /\ isr' = IF Pending THEN "fill" ELSE "off"
  /\ level' = 0
  /\ thre' = (thre /\ ~Pending)
  /\ UNCHANGED <<ring, driver, pc, intEn, fifo, wire, sent, refused>>

\* while (tx_length-- && (tx_fifo_level++ < UART_TX_FIFO_LENGTH)): the length is
\* decremented before either test is known, and whichever ends the loop.
IsrFill ==
  /\ isr = "fill"
  /\ length' = IF length = 0 THEN LenMod - 1 ELSE length - 1
  /\ level' = IF length = 0 THEN level ELSE level + 1
  /\ isr' = IF length # 0 /\ level < FifoLength THEN "put" ELSE "status"
  /\ refused' = IF length # 0 /\ level >= FifoLength THEN refused \cup {msg} ELSE refused
  /\ UNCHANGED <<ring, complete, msg, pos, pc, uart, sent>>

\* UARTCharPut of the next byte ...
PutByte == fifo' = Append(fifo, <<msg, pos>>)

\* ... of a message that has more ...
IsrPutByte ==
  /\ isr = "put" /\ length # 0
  /\ PutByte
  /\ pos' = pos + 1 /\ isr' = "fill" /\ thre' = FALSE
  /\ UNCHANGED <<ring, complete, msg, length, pc, level, intEn, wire, sent, refused>>

\* Mutant of IsrPutLast: the next message is sent from where the last one ended.
IsrKeepsPosition ==
  /\ isr = "put" /\ length = 0
  /\ PutByte
  /\ isr' = "fill" /\ thre' = FALSE /\ pos' = pos + 1
  /\ IF ring = <<>>
     THEN /\ complete' = TRUE /\ intEn' = FALSE
          /\ UNCHANGED <<ring, msg, length>>
     ELSE /\ msg' = Head(ring) /\ ring' = Tail(ring)
          /\ complete' = FALSE /\ length' = MsgLen /\ intEn' = TRUE
  /\ UNCHANGED <<pc, level, wire, sent, refused>>

\* Mutant of IsrPutLast: completion is not noted when nothing is queued.
IsrNeverCompletes ==
  /\ isr = "put" /\ length = 0
  /\ PutByte
  /\ isr' = "fill" /\ thre' = FALSE
  /\ IF ring = <<>>
     THEN /\ intEn' = FALSE /\ pos' = pos + 1
          /\ UNCHANGED <<ring, complete, msg, length>>
     ELSE /\ msg' = Head(ring) /\ ring' = Tail(ring)
          /\ complete' = FALSE /\ pos' = 0 /\ length' = MsgLen
          /\ intEn' = TRUE
  /\ UNCHANGED <<pc, level, wire, sent, refused>>

\* ... or its last: the interrupt is disabled and the callback finds nothing
\* queued, or it starts the next message, which enables the interrupt again.
IsrPutLast ==
  /\ isr = "put" /\ length = 0
  /\ PutByte
  /\ isr' = "fill" /\ thre' = FALSE
  /\ IF ring = <<>>
     THEN /\ complete' = TRUE /\ intEn' = FALSE /\ pos' = pos + 1
          /\ UNCHANGED <<ring, msg, length>>
     ELSE /\ msg' = Head(ring) /\ ring' = Tail(ring)
          /\ complete' = FALSE /\ pos' = 0 /\ length' = MsgLen
          /\ intEn' = TRUE
  /\ UNCHANGED <<pc, level, wire, sent, refused>>

Isr == IsrEnter \/ IsrStatus \/ IsrFill \/ IsrPutByte \/ IsrPutLast

-----------------------------------------------------------------------------
Next == EnqueuePut \/ Main \/ Isr \/ Shift

\* The transmitter shifts, an asserted interrupt is served, and main carries on
\* with an enqueue it has begun; that it begins another is not assumed.
Spec == Init /\ [][Next]_vars
FairSpec == Spec /\ WF_vars(Main) /\ WF_vars(Isr) /\ WF_vars(Shift)

-----------------------------------------------------------------------------
Calling == {"dequeue", "claim", "buffer", "length", "enable"}
Bytes == (0 .. MaxMsgs) \X Nat

\* The handler never runs while main is inside the callback: the message buffer,
\* tx_buffer, tx_length and the consumer end of the ring have one user at a time.
\* Only the tx_complete flag and the order of main's stores ensure it.
Exclusive == pc \in Calling => isr = "off" /\ ~intEn

\* Byte y follows x: as the next byte of x's message, or as the first of the next
\* message, before the end of x's only where the limit refused that a byte.
Follows(x, y) ==
  \/ y = <<x[1], x[2] + 1>> /\ x[2] + 1 < MsgLen
  \/ y = <<x[1] + 1, 0>> /\ (x[2] + 1 = MsgLen \/ x[1] \in refused)

\* Whatever is transmitted is in the order it was queued, in whole messages but for
\* the ends of those the limit refused.
Framed ==
  LET bytes == wire \o fifo
  IN \A k \in 1 .. Len(bytes) :
       IF k = 1 THEN bytes[k] = <<0, 0>> ELSE Follows(bytes[k - 1], bytes[k])

\* "Send next queued message" (dev_mcu.c:179): the bytes transmitted are whole
\* messages, which the receiver frames by counting.  They are not: a message that
\* fills the FIFO loses its last byte (per_uart.c:243).
WholeMessages ==
  LET bytes == wire \o fifo
  IN \A k \in 1 .. Len(bytes) : bytes[k][2] = (k - 1) % MsgLen

\* The handler never writes more bytes than the transmit FIFO has room for.
FifoRoom == Len(fifo) <= FifoLength

\* No lost wake-up: whenever main is between enqueues and no handler runs, either
\* nothing is queued, or an interrupt that will fetch it is on its way, or a message
\* was refused its last byte and the handler has counted its length below zero.
NoLostWakeup ==
  pc = "idle" /\ isr = "off" =>
    IF complete THEN ring = <<>>
                ELSE \/ intEn /\ (thre \/ fifo # <<>>)
                     \/ msg \in refused /\ length = LenMod - 1

Transmitted(m) == \E k \in 1 .. Len(wire) : wire[k] = <<m, MsgLen - 1>>

\* Every message enqueued is eventually transmitted to its last byte, or it or one
\* before it is refused a byte: main stops at MaxMsgs, and then no message is left.
Delivered ==
  []<>(\A m \in 0 .. sent - 1 : Transmitted(m) \/ \E r \in refused : r <= m)

\* "Send next queued byte" (dev_trs.c:174): every message enqueued is eventually
\* transmitted.  It need not be: if the limit refuses a message its last byte, no
\* interrupt comes for the length of zero, and nothing is transmitted any more.
AllDelivered == []<>(\A m \in 0 .. sent - 1 : Transmitted(m))
=============================================================================
