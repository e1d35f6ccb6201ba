------------------------------ MODULE MidiFsm ------------------------------
(***************************************************************************)
(* The MIDI parser of cpu/lib/midi_fsm.c.  svc_midi_task feeds it one byte *)
(* per pass of the main loop; every complete message invokes a callback    *)
(* before midi_receive_byte returns.  The parser's globals are one record  *)
(* with the callbacks it has invoked, a byte is a step of that record.     *)
(*                                                                         *)
(* The states STATE_WAITING_CHAN_* are pairs of what is awaited, the first *)
(* or the second data byte, and the message type.                          *)
(***************************************************************************)
EXTENDS Naturals, Sequences, FiniteSets

CONSTANTS
  MidiBytes,    \* the bytes received
  SysexLength,  \* SYSEX_BUFFER_LENGTH
  MaxBytes      \* bound: bytes ever received

ASSUME MidiAssumption ==
  MidiBytes \subseteq 0 .. 255 /\ SysexLength \in Nat \ {0} /\ MaxBytes \in Nat

VARIABLES
  midi,   \* the parser and, as history, its callbacks
  input,  \* history: the bytes received
  plain   \* history: what midi would be had no real-time byte come

midiVars == <<midi, input, plain>>

-----------------------------------------------------------------------------
\* The tests of midi_receive_byte, which masks the leading bits in this order.
Realtime(b) == b >= 248
Common(b)   == b >= 240 /\ b < 248
Channel(b)  == b >= 128 /\ b < 240
Data(b)     == b < 128

SysexStart == 240
SysexEnd   == 247

Type(b) == (b \div 16) * 16   \* b & CHAN_TYPE_MASK
OneByteTypes == {192, 208}    \* program change, channel after-touch

Fresh == [await |-> "status", type |-> 0, channel |-> 0, one |-> 0, two |-> 0,
          sysex |-> <<>>, events |-> <<>>, sysexes |-> <<>>]

\* invoke_callback of a channel or real-time event: it clears the data bytes.  The
\* history keeps the channel events, each with its channel and data.
Invoke(m, evt) ==
  [m EXCEPT !.events = IF Realtime(evt) THEN @
                       ELSE Append(@, <<evt, m.channel, m.one, m.two>>),
            !.one = 0, !.two = 0]

\* Mutant of RxCommon: a start byte does not discard what was collected before it.
RxCommonKeepsData(m, b) ==
  CASE b = SysexStart -> [m EXCEPT !.await = "sysex"]
    [] b = SysexEnd   -> [m EXCEPT !.sysexes = IF m.sysex # <<>> THEN Append(@, m.sysex) ELSE @,
                                   !.await = "status"]
    [] OTHER          -> m

\* rx_status_sys_common_byte.  The count of collected bytes survives the callback;
\* other system common messages are ignored, whatever is awaited stays awaited.
RxCommon(m, b) ==
  CASE b = SysexStart -> [m EXCEPT !.sysex = <<>>, !.await = "sysex"]
    [] b = SysexEnd   -> [m EXCEPT !.sysexes = IF m.sysex # <<>> THEN Append(@, m.sysex) ELSE @,
                                   !.await = "status"]
    [] OTHER          -> m

\* rx_status_channel_byte: a status byte abandons a system exclusive message.
RxChannel(m, b) ==
  [m EXCEPT !.channel = b % 16, !.type = Type(b), !.await = "first",
            !.sysex = IF m.await = "sysex" THEN <<>> ELSE @]

\* Mutant of RxData: the second data byte stays awaited after a message.
RxDataStays(m, b) ==
  CASE m.await = "first" /\ m.type \in OneByteTypes ->
         Invoke([m EXCEPT !.one = b, !.two = 0], m.type)
    [] m.await = "first" /\ m.type \notin OneByteTypes ->
         [m EXCEPT !.one = b, !.await = "second"]
    [] m.await = "second" -> Invoke([m EXCEPT !.two = b], m.type)
    [] m.await = "sysex" /\ Len(m.sysex) < SysexLength ->
         [m EXCEPT !.sysex = Append(@, b)]
    [] m.await = "sysex" /\ Len(m.sysex) >= SysexLength ->
         [m EXCEPT !.sysex = <<>>, !.await = "status"]
    [] m.await = "status" -> [m EXCEPT !.one = 0, !.two = 0]

\* rx_data_byte: a message's last byte invokes the callback and the state stays
\* ready for another message of running status.
RxData(m, b) ==
  CASE m.await = "first" /\ m.type \in OneByteTypes ->
         Invoke([m EXCEPT !.one = b, !.two = 0], m.type)
    [] m.await = "first" /\ m.type \notin OneByteTypes ->
         [m EXCEPT !.one = b, !.await = "second"]
    [] m.await = "second" ->
         [Invoke([m EXCEPT !.two = b], m.type) EXCEPT !.await = "first"]
    [] m.await = "sysex" /\ Len(m.sysex) < SysexLength ->
         [m EXCEPT !.sysex = Append(@, b)]
    [] m.await = "sysex" /\ Len(m.sysex) >= SysexLength ->
         [m EXCEPT !.sysex = <<>>, !.await = "status"]
    [] m.await = "status" ->
         [m EXCEPT !.one = 0, !.two = 0]

\* Mutant of Step: a real-time byte abandons the message it interrupts.
StepAbandons(m, b) ==
  CASE Realtime(b) -> [Invoke(m, b) EXCEPT !.await = "status"]
    [] Common(b)   -> RxCommon(m, b)
    [] Channel(b)  -> RxChannel(m, b)
    [] Data(b)     -> RxData(m, b)

\* midi_receive_byte
Step(m, b) ==
  CASE Realtime(b) -> Invoke(m, b)
    [] Common(b)   -> RxCommon(m, b)
    [] Channel(b)  -> RxChannel(m, b)
    [] Data(b)     -> RxData(m, b)

MidiInit == midi = Fresh /\ plain = Fresh /\ input = <<>>

ReceiveByte ==
  /\ Len(input) < MaxBytes
  /\ \E b \in MidiBytes :
       /\ input' = Append(input, b)
       /\ midi' = Step(midi, b)
       /\ plain' = IF Realtime(b) THEN plain ELSE Step(plain, b)

MidiNext == ReceiveByte
MidiSpec == MidiInit /\ [][MidiNext]_midiVars

-----------------------------------------------------------------------------
(* What a stream s of bytes means, said without a state machine.           *)

\* The status bytes that decide what later data bytes are for.  The parser ignores
\* the other system common messages; it takes data after them as if they were not there.
Status(b) == Channel(b) \/ b \in {SysexStart, SysexEnd}

\* The byte at j governs the place k: it is the last such status byte before it.
Governs(s, j, k) ==
  j < k /\ Status(s[j]) /\ \A i \in j + 1 .. k - 1 : ~Status(s[i])

\* The places of the data bytes after j and up to k, and how many they are.
DataIn(s, j, k) == {i \in j + 1 .. k : Data(s[i])}
DataCount(s, j, k) == Cardinality(DataIn(s, j, k))

\* The data bytes after j and up to k are those of the sequence d, in order.
Listed(s, d, j, k) ==
  /\ Len(d) = DataCount(s, j, k)
  /\ \A i \in DataIn(s, j, k) : d[DataCount(s, j, i)] = s[i]

\* The byte at k completes a message of the status byte at j: data bytes are taken
\* one or two at a time, a status byte holding until the next.
Completes(s, j, k) ==
  /\ Data(s[k]) /\ Channel(s[j]) /\ Governs(s, j, k)
  /\ Type(s[j]) \in OneByteTypes \/ DataCount(s, j, k) % 2 = 0

\* The places up to n where a message is complete.
Ends(s, n) == {k \in 1 .. n : \E j \in 1 .. k - 1 : Completes(s, j, k)}

\* The event e is the message of the status byte at j that the byte at k completes.
IsMessage(s, e, j, k) ==
  IF Type(s[j]) \in OneByteTypes
  THEN e = <<Type(s[j]), s[j] % 16, s[k], 0>>
  ELSE \E i \in DataIn(s, j, k) :
         /\ DataCount(s, j, i) + 1 = DataCount(s, j, k)
         /\ e = <<Type(s[j]), s[j] % 16, s[i], s[k]>>

\* On a stream without real-time bytes the channel messages reported are exactly
\* those the stream contains, in order, with their data and channel: also with
\* running status, interrupted messages and abandoned system exclusives.
ChannelExact ==
  (\A k \in 1 .. Len(input) : ~Realtime(input[k])) =>
    /\ Len(midi.events) = Cardinality(Ends(input, Len(input)))
    /\ \A k \in Ends(input, Len(input)) : \E j \in 1 .. k - 1 :
         /\ Completes(input, j, k)
         /\ IsMessage(input, midi.events[Cardinality(Ends(input, k))], j, k)

\* Every system exclusive message reported is the non-empty run of data bytes
\* between a start and an end byte, never longer than the buffer.
SysexSound ==
  \A n \in 1 .. Len(midi.sysexes) :
    \E j \in 1 .. Len(input), k \in 1 .. Len(input) :
      /\ input[j] = SysexStart /\ input[k] = SysexEnd /\ Governs(input, j, k)
      /\ Listed(input, midi.sysexes[n], j, k)
      /\ Len(midi.sysexes[n]) \in 1 .. SysexLength

\* No system exclusive message is lost: one with as many data bytes as the buffer holds,
\* or fewer, is reported, whatever real-time and ignored bytes are inside it.
SysexComplete ==
  \A j \in 1 .. Len(input) : \A k \in 1 .. Len(input) :
    /\ input[j] = SysexStart /\ input[k] = SysexEnd /\ Governs(input, j, k)
    /\ DataCount(input, j, k) \in 1 .. SysexLength
    => \E n \in 1 .. Len(midi.sysexes) : Listed(input, midi.sysexes[n], j, k)

\* The system exclusive messages reported are those of the stream that fit the buffer,
\* none made up and none lost.  (How often is not said: a second end byte reports the
\* message before it again.)
SysexReported == SysexSound /\ SysexComplete

\* Real-time bytes do not disturb how the rest of the stream is divided into
\* messages: the same messages on the same channels, the same system exclusives,
\* and the parser awaits the same byte.  (Their data is RealtimeTransparent.)
RealtimeKeepsFraming ==
  /\ midi.await = plain.await /\ midi.type = plain.type /\ midi.channel = plain.channel
  /\ midi.sysex = plain.sysex /\ midi.sysexes = plain.sysexes
  /\ Len(midi.events) = Len(plain.events)
  /\ \A n \in 1 .. Len(midi.events) :
       /\ midi.events[n][1] = plain.events[n][1]
       /\ midi.events[n][2] = plain.events[n][2]

\* "Processing of the MIDI byte stream should continue as though the real-time
\* byte was never received": the channel messages reported are the same.
RealtimeTransparent == midi.events = plain.events
=============================================================================
