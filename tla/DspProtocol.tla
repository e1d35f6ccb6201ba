---------------------------- MODULE DspProtocol ----------------------------
(***************************************************************************)
(* The message protocol between the ARM (svc_dsp.c over dev_dsp.c and      *)
(* per_spi.c) and the Blackfin (svc_cpu.c over dev_cpu_spi.c).  A message  *)
(* is a start byte, a type, an id, a payload length and the payload; each  *)
(* processor's task feeds received bytes, one per pass, to a parser that   *)
(* has no resync.                                                          *)
(*                                                                         *)
(* The ARM is bus master: replies arrive only with queued bytes or with    *)
(* the dummy bytes its task sends while it counts replies as pending.  Its *)
(* main loop (pc) queues the bytes of a call one by one and arms the first *)
(* itself; the transmit interrupt writes the armed byte to the SPI and its *)
(* callback arms the next queued one; the receive interrupt reads what     *)
(* came back, if it is enabled and a byte is wanted.  g_dsp_spi_tx_complete*)
(* and tx_length = 0 are armed = <<>>.  The Blackfin's slave side holds    *)
(* two bytes in flight, the shift buffer and the byte its callback         *)
(* dequeued for the transfer after.                                        *)
(*                                                                         *)
(* The payload of a port-state or a profile reply is abstracted to zeros.  *)
(***************************************************************************)
EXTENDS Integers, FiniteSets, SequencesExt

CONSTANTS
  Values,     \* parameter values: sequences of 4 bytes
  Indexes,    \* param_index of the parameters the DSP module has, less than 256
  Registered, \* has the application registered a MODULE_PARAM_VALUE callback?
  Tolerated,  \* bound: faults after which a behaviour is still followed
  Lag,        \* bound: bytes either processor has received and not yet handled
  MaxCalls    \* bound: API calls the application ever makes

Start == 240  \* MSG_START
Byte == 0 .. 255

ASSUME ProtocolAssumption ==
  /\ Values \subseteq [1 .. 4 -> Byte] /\ Indexes \subseteq Byte
  /\ Tolerated \subseteq {"unpadded", "overrun"}
  /\ Registered \in BOOLEAN /\ Lag \in Nat \ {0} /\ MaxCalls \in Nat

VARIABLES
  pending,            \* ARM: g_pending_response
  cpu, dsp,           \* the two parsers
  pc, out,            \* ARM: where main is; the bytes it has yet to queue
  txq, armed,         \* ARM: the transmit ring; the byte tx_buffer points at
  txOn, rxOn,         \* ARM: are the transmit and the receive interrupt enabled?
  rxLength, cpuRx,    \* ARM: rx_length, the receive ring
  txbuf, rxbuf,       \* the ARM's SPI: bytes written and received, two of each
  dspTx, dspRx,       \* Blackfin: transmit and receive ring buffers
  dspByte, tdbr,      \* Blackfin: g_cpu_spi_tx_byte, the SPI transmit register
  params,             \* Blackfin: the audio module's parameters
  calls, executed,    \* history: messages the ARM sent, messages the DSP handled
  replies,            \* history: messages the ARM's handlers accepted
  padded,             \* history: has the last message sent a byte to end it?
  faults              \* history: what has gone wrong on the link

loop == <<pc, out>>
transmit == <<txq, armed, txOn>>
receive == <<rxOn, rxLength>>
slave == <<dspTx, dspByte, tdbr>>
modules == <<dsp, params, executed>>
history == <<calls, padded>>
protocolVars == <<pending, cpu, loop, transmit, receive, cpuRx, txbuf, rxbuf,
                  slave, dspRx, modules, history, replies, faults>>

-----------------------------------------------------------------------------
(* Messages.                                                               *)

Module == 0  GetValue == 0  SetValue == 1  ParamValue == 2
GetName == 3 ParamName == 4
System == 1  CheckReady == 0  Ready == 1  GetPortState == 2  SetPortState == 3
PortState == 4  GetProfile == 5  Profile == 6

Message(type, id, payload) == [type |-> type, id |-> id, payload |-> payload]

\* _transmit_message
Encode(m) == <<Start, m.type, m.id, Len(m.payload)>> \o m.payload

Zeros(n) == [i \in 1 .. n |-> 0]

\* module_id is always 0, param_index the third byte of a parameter message.
Param(index) == <<0, 0, index, 0>>

Calls ==
  {Message(Module, GetValue, Param(i)) : i \in Indexes}
  \cup {Message(Module, SetValue, Param(i) \o v) : i \in Indexes, v \in Values}
  \cup {Message(System, GetPortState, <<>>), Message(System, GetProfile, <<>>)}

\* The calls that count a pending response.
Expects(m) == ~(m.type = Module /\ m.id = SetValue)

-----------------------------------------------------------------------------
(* The parser, the same code on both processors: _dsp_receive, _cpu_receive.*)
(* Of the 255 bytes of the payload array the 8 that handlers read are kept. *)

Idle == [state |-> "start", type |-> 0, id |-> 0, length |-> 0,
         payload |-> Zeros(8), count |-> 0]

\* The payload step stores the byte if the payload is short of it; a complete
\* message is handled before the step returns.  A message without payload thus
\* takes one byte more than was sent of it.
Fill(p, b) ==
  IF p.count < p.length
  THEN [p EXCEPT !.payload = IF p.count < 8 THEN [@ EXCEPT ![p.count + 1] = b] ELSE @,
                 !.count = @ + 1]
  ELSE p

Handles(p, b) == p.state = "payload" /\ Fill(p, b).count >= p.length

\* Mutant of Receive: the payload count is not reset for the next message.
ReceiveKeepsCount(p, b) ==
  CASE p.state = "start"   -> [p EXCEPT !.state = IF b = Start THEN "type" ELSE @]
    [] p.state = "type"    -> [p EXCEPT !.type = b, !.state = "id"]
    [] p.state = "id"      -> [p EXCEPT !.id = b, !.state = "length"]
    [] p.state = "length"  -> [p EXCEPT !.length = b, !.state = "payload"]
    [] p.state = "payload" -> IF Handles(p, b) THEN [Fill(p, b) EXCEPT !.state = "start"]
                                               ELSE Fill(p, b)

Receive(p, b) ==
  CASE p.state = "start"   -> [p EXCEPT !.state = IF b = Start THEN "type" ELSE @]
    [] p.state = "type"    -> [p EXCEPT !.type = b, !.state = "id"]
    [] p.state = "id"      -> [p EXCEPT !.id = b, !.state = "length"]
    [] p.state = "length"  -> [p EXCEPT !.length = b, !.state = "payload"]
    [] p.state = "payload" -> IF Handles(p, b)
                              THEN [Fill(p, b) EXCEPT !.count = 0, !.state = "start"]
                              ELSE Fill(p, b)

\* The handled message: its payload is what the array holds, whatever its length.
Handled(p, b) == Message(p.type, p.id, Fill(p, b).payload)

-----------------------------------------------------------------------------
(* The Blackfin's handlers.                                                *)

Index(payload) == payload[3] + 256 * payload[4]

\* module_get_param and module_set_param ignore an index they do not know.
Value(index) == IF index \in Indexes THEN params[index] ELSE Zeros(4)

\* Mutant of Reply: a profile request is answered with the port state.
ReplyFallsThrough(m) ==
  CASE m.type = Module /\ m.id = GetValue ->
         Encode(Message(Module, ParamValue,
                        SubSeq(m.payload, 1, 4) \o Value(Index(m.payload))))
    [] m.type = System /\ m.id \in {CheckReady, GetPortState, GetProfile} ->
         Encode(Message(System, PortState, Zeros(6)))
    [] OTHER -> <<>>

\* CHECK_READY falls through to GET_PORT_STATE; SET_PORT_STATE is a stub.
Reply(m) ==
  CASE m.type = Module /\ m.id = GetValue ->
         Encode(Message(Module, ParamValue,
                        SubSeq(m.payload, 1, 4) \o Value(Index(m.payload))))
    [] m.type = Module /\ m.id = GetName ->
         Encode(Message(Module, ParamName, SubSeq(m.payload, 1, 4) \o Zeros(1)))
    [] m.type = System /\ m.id \in {CheckReady, GetPortState} ->
         Encode(Message(System, PortState, Zeros(6)))
    [] m.type = System /\ m.id = GetProfile ->
         Encode(Message(System, Profile, Zeros(8)))
    [] OTHER -> <<>>

SetParam(m) ==
  IF m.type = Module /\ m.id = SetValue /\ Index(m.payload) \in Indexes
  THEN [params EXCEPT ![Index(m.payload)] = SubSeq(m.payload, 5, 8)]
  ELSE params

\* The messages the ARM's handlers accept, each of which ends one pending response.
Accepts(m) ==
  \/ m.type = Module /\ m.id = ParamValue /\ Registered
  \/ m.type = System /\ m.id \in {Ready, PortState, Profile}

-----------------------------------------------------------------------------
(* Main's part of the link, one access to what the interrupts share a step. *)

\* The ring buffers are empty.  _dsp_spi_init has armed a first dummy byte and is
\* about to enable the interrupts.
ProtocolInit ==
  /\ pending = 0 /\ cpu = Idle /\ dsp = Idle
  /\ pc = "poll" /\ out = <<>> /\ txq = <<>> /\ armed = <<0>>
  /\ txOn = FALSE /\ rxOn = FALSE /\ rxLength = 1 /\ cpuRx = <<>>
  /\ txbuf = <<>> /\ rxbuf = <<>>
  /\ dspTx = <<>> /\ dspRx = <<>> /\ dspByte = 0 /\ tdbr = 0
  /\ params = [i \in Indexes |-> Zeros(4)]
  /\ calls = <<>> /\ executed = <<>> /\ replies = <<>> /\ padded = TRUE /\ faults = {}

\* Mutant of Call: a parameter that is set is counted as a pending response.
CallAlwaysExpects(m) ==
  /\ pc = "task" /\ Len(calls) < MaxCalls
  /\ pending' = pending + 1
  /\ out' = Encode(m) /\ pc' = "put"
  /\ calls' = Append(calls, m)
  /\ faults' = IF padded THEN faults ELSE faults \cup {"unpadded"}
  /\ padded' = (m.payload # <<>>)
  /\ UNCHANGED <<cpu, transmit, receive, cpuRx, txbuf, rxbuf, slave, dspRx, modules, replies>>

\* The application calls svc_dsp_set_module_param, svc_dsp_get_module_param,
\* svc_dsp_get_port_state or svc_dsp_get_profile from the main loop.  A message
\* right behind one without payload is taken for that one's end.
Call(m) ==
  /\ pc = "task" /\ Len(calls) < MaxCalls
  /\ pending' = IF Expects(m) THEN pending + 1 ELSE pending
  /\ out' = Encode(m) /\ pc' = "put"
  /\ calls' = Append(calls, m)
  /\ faults' = IF padded THEN faults ELSE faults \cup {"unpadded"}
  /\ padded' = (m.payload # <<>>)
  /\ UNCHANGED <<cpu, transmit, receive, cpuRx, txbuf, rxbuf, slave, dspRx, modules, replies>>

\* dev_dsp_spi_tx_enqueue puts a byte into the ring ...
Put ==
  /\ pc = "put" /\ pc' = "test"
  /\ txq' = Append(txq, Head(out)) /\ out' = Tail(out)
  /\ UNCHANGED <<pending, cpu, armed, txOn, receive, cpuRx, txbuf, rxbuf, slave, dspRx,
                 modules, history, replies, faults>>

NextByte == IF out = <<>> THEN "task" ELSE "put"

\* ... and, if all before it are sent, arms a queued byte itself.
Test ==
  /\ pc = "test"
  /\ IF armed = <<>> /\ txq # <<>>
     THEN /\ armed' = <<Head(txq)>> /\ txq' = Tail(txq)
          /\ rxLength' = 1 /\ pc' = "enable"
     ELSE pc' = NextByte /\ UNCHANGED <<armed, txq, rxLength>>
  /\ UNCHANGED <<pending, cpu, out, txOn, rxOn, cpuRx, txbuf, rxbuf, slave, dspRx,
                 modules, history, replies, faults>>

\* svc_dsp_task handles one received byte ...
CpuReceive ==
  /\ pc = "task" /\ cpuRx # <<>>
  /\ LET b == Head(cpuRx)
         accepted == Handles(cpu, b) /\ Accepts(Handled(cpu, b))
     IN /\ cpu' = Receive(cpu, b)
        /\ replies' = IF accepted THEN Append(replies, Handled(cpu, b)) ELSE replies
        /\ pending' = IF accepted /\ pending > 0 THEN pending - 1 ELSE pending
  /\ cpuRx' = Tail(cpuRx)
  /\ UNCHANGED <<loop, transmit, receive, txbuf, rxbuf, slave, dspRx, modules, history, faults>>

\* Mutant of CpuPoll: the last reply is not polled for.
CpuPollLeavesOne ==
  /\ pc = "task" /\ cpuRx = <<>> /\ pending > 1
  /\ pc' = "poll" /\ armed' = <<0>> /\ rxLength' = 1 /\ padded' = TRUE
  /\ faults' = IF armed = <<>> THEN faults ELSE faults \cup {"overtaken"}
  /\ UNCHANGED <<pending, cpu, out, txq, txOn, rxOn, cpuRx, txbuf, rxbuf, slave, dspRx,
                 modules, calls, replies>>

\* ... or, with none received and replies pending, polls: the driver is pointed at
\* a dummy byte, whether or not another byte waits there.
CpuPoll ==
  /\ pc = "task" /\ cpuRx = <<>> /\ pending > 0
  /\ pc' = "poll" /\ armed' = <<0>> /\ rxLength' = 1 /\ padded' = TRUE
  /\ faults' = IF armed = <<>> THEN faults ELSE faults \cup {"overtaken"}
  /\ UNCHANGED <<pending, cpu, out, txq, txOn, rxOn, cpuRx, txbuf, rxbuf, slave, dspRx,
                 modules, calls, replies>>

\* per_spi_trx_int ends by enabling both interrupts.
Enable ==
  /\ pc \in {"enable", "poll"} /\ txOn' = TRUE /\ rxOn' = TRUE
  /\ pc' = IF pc = "poll" THEN "polled" ELSE NextByte
  /\ UNCHANGED <<pending, cpu, out, txq, armed, rxLength, cpuRx, txbuf, rxbuf, slave, dspRx,
                 modules, history, replies, faults>>

\* The dummy byte is a local of a function that now returns: if it is still armed,
\* what is sent is whatever the stack then holds, here 0 or a start byte.
PollReturns ==
  /\ pc = "polled" /\ pc' = "task"
  /\ \/ UNCHANGED <<armed, faults>>
     \/ armed # <<>> /\ armed' = <<Start>> /\ faults' = faults \cup {"stale"}
  /\ UNCHANGED <<pending, cpu, out, txq, txOn, receive, cpuRx, txbuf, rxbuf, slave, dspRx,
                 modules, history, replies>>

-----------------------------------------------------------------------------
(* The ARM's interrupts, the transfers, and the Blackfin.                  *)

\* _spi_isr writes the armed byte, disables its interrupt and calls
\* _dsp_spi_tx_callback, which arms the next queued byte if there is one.
TxInterrupt ==
  /\ txOn /\ armed # <<>> /\ Len(txbuf) < 2
  /\ txbuf' = Append(txbuf, armed[1])
  /\ IF txq = <<>>
     THEN armed' = <<>> /\ txOn' = FALSE /\ UNCHANGED <<txq, receive>>
     ELSE /\ armed' = <<Head(txq)>> /\ txq' = Tail(txq) /\ txOn' = TRUE
          /\ rxLength' = 1 /\ rxOn' = TRUE
  /\ UNCHANGED <<pending, cpu, loop, cpuRx, rxbuf, slave, dspRx, modules, history, replies, faults>>

\* The SPI exchanges a byte each way and the slave's interrupt handler and
\* _cpu_spi_trx_callback prepare the next.  A third unread byte overruns the second.
Exchange ==
  /\ txbuf # <<>> /\ Len(dspRx) < Lag /\ Len(cpuRx) < Lag
  /\ dspRx' = Append(dspRx, Head(txbuf)) /\ txbuf' = Tail(txbuf)
  /\ IF Len(rxbuf) < 2
     THEN rxbuf' = Append(rxbuf, tdbr) /\ UNCHANGED faults
     ELSE rxbuf' = <<rxbuf[1], tdbr>> /\ faults' = faults \cup {"overrun"}
  /\ tdbr' = dspByte
  /\ IF dspTx = <<>> THEN dspByte' = 0 /\ UNCHANGED dspTx
                     ELSE dspByte' = Head(dspTx) /\ dspTx' = Tail(dspTx)
  /\ UNCHANGED <<pending, cpu, loop, transmit, receive, cpuRx, modules, history, replies>>

\* _spi_isr reads a byte that is wanted, disables its interrupt and calls
\* _dsp_spi_rx_callback.  With rx_length 0 it does not read and the length wraps.
RxInterrupt ==
  /\ rxOn /\ rxbuf # <<>>
  /\ IF rxLength = 1
     THEN /\ cpuRx' = Append(cpuRx, Head(rxbuf)) /\ rxbuf' = Tail(rxbuf)
          /\ rxLength' = 0 /\ rxOn' = FALSE /\ UNCHANGED faults
     ELSE faults' = faults \cup {"stray"} /\ UNCHANGED <<cpuRx, rxbuf, receive>>
  /\ UNCHANGED <<pending, cpu, loop, transmit, txbuf, slave, dspRx, modules, history, replies>>

\* svc_cpu_task handles one received byte.
DspReceive ==
  /\ dspRx # <<>>
  /\ LET b == Head(dspRx)
         m == Handled(dsp, b)
     IN /\ dsp' = Receive(dsp, b)
        /\ IF Handles(dsp, b)
           THEN /\ params' = SetParam(m) /\ dspTx' = dspTx \o Reply(m)
                /\ executed' = Append(executed,
                     [m EXCEPT !.payload = IF dsp.length > 8 THEN @
                                           ELSE SubSeq(@, 1, dsp.length)])
           ELSE UNCHANGED <<params, dspTx, executed>>
  /\ dspRx' = Tail(dspRx)
  /\ UNCHANGED <<pending, cpu, loop, transmit, receive, cpuRx, txbuf, rxbuf, dspByte, tdbr,
                 history, replies, faults>>

\* The transmit interrupt is enabled only with a byte to write.
EnabledForBytes == txOn => armed # <<>>

\* A behaviour is followed until the ARM sends a byte of the stack, a length wraps (the
\* handler then touches other memory), a poll has taken the place of a byte and enabled
\* the interrupts, or a fault has happened that is not to be followed.
Followed ==
  /\ EnabledForBytes /\ faults \subseteq Tolerated \cup {"overtaken"}
  /\ "overtaken" \in faults => pc = "poll"

MainStep == Put \/ Test \/ CpuReceive \/ CpuPoll \/ Enable \/ PollReturns

ProtocolNext ==
  /\ Followed
  /\ \/ \E m \in Calls : Call(m)
     \/ MainStep \/ TxInterrupt \/ Exchange \/ RxInterrupt \/ DspReceive

ProtocolSpec == ProtocolInit /\ [][ProtocolNext]_protocolVars
\* Both main loops run their task for ever, interrupts are taken and transfers end.
ProtocolFairSpec ==
  /\ ProtocolSpec
  /\ WF_protocolVars(Followed /\ MainStep) /\ WF_protocolVars(Followed /\ TxInterrupt)
  /\ WF_protocolVars(Followed /\ Exchange) /\ WF_protocolVars(Followed /\ RxInterrupt)
  /\ WF_protocolVars(Followed /\ DspReceive)

-----------------------------------------------------------------------------
\* Every byte the ARM queued reached the DSP's parser, with a byte to end each message.
Intact == faults \cap {"unpadded", "overtaken", "stale"} = {}

\* The DSP executes the messages the ARM sent, in order, none lost or invented, as
\* long as the bytes sent are those of the messages.
ExecutesCalls == Intact => IsPrefix(executed, calls)

\* A DSP that has taken every byte sent and waits for a start byte has executed every
\* call: svc_cpu.c:259 promises to "Handle message before returning, else it is not
\* handled until first byte of next message is received".
NoneSwallowed ==
  /\ faults \subseteq {"unpadded"} /\ dsp.state = "start"
  /\ out \o txq \o armed \o txbuf \o dspRx = <<>>
  => executed = calls

\* The requests among the first n calls: those that expect a reply.
Requests(n) == {k \in 1 .. n : Expects(calls[k])}

\* The value of parameter i after the first n calls.
ValueAfter(n, i) ==
  LET sets == {k \in 1 .. n : calls[k].type = Module /\ calls[k].id = SetValue
                              /\ calls[k].payload[3] = i}
  IN IF sets = {} THEN Zeros(4)
     ELSE SubSeq(calls[CHOOSE k \in sets : \A l \in sets : l <= k].payload, 5, 8)

\* Reply r is of the kind call k asks for, and a parameter's value is the one
\* last set before that call.
Answers(r, k) ==
  LET q == calls[k] IN
  CASE q.type = Module ->
         /\ r.type = Module /\ r.id = ParamValue
         /\ SubSeq(r.payload, 1, 4) = q.payload
         /\ SubSeq(r.payload, 5, 8) = ValueAfter(k, q.payload[3])
    [] q.type = System /\ q.id = GetPortState -> r.type = System /\ r.id = PortState
    [] q.type = System /\ q.id = GetProfile -> r.type = System /\ r.id = Profile

\* Each reply answers the request it is taken for: the n-th reply the n-th request.
RepliesMatch ==
  faults = {} => \A n \in 1 .. Len(replies) : \E k \in Requests(Len(calls)) :
    Cardinality(Requests(k)) = n /\ Answers(replies[n], k)

\* Every reply that is awaited is counted, so that polling goes on until it came.
PendingExact == faults = {} => pending = Cardinality(Requests(Len(calls))) - Len(replies)

\* Every request is answered, after which polling stops.
Answered == pending > 0 ~> pending = 0 \/ faults # {}
=============================================================================
