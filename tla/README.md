# Freetribe: models, checks and proofs

Freetribe is firmware for the Korg Electribe 2: an ARM (AM1802, `cpu/`) that runs a
kernel and one application, and a Blackfin DSP (`dsp/`) that runs one audio module.
This directory holds TLA+ models of the parts of it whose order of events is hard to
get right, TLC configurations that check them on small instances, and proofs, checked
by TLAPS, of what must hold for every value of the constants. Paths below are relative
to the repository's root.

- [1. The system](#1-the-system)
- [2. The modules](#2-the-modules)
- [3. The runs](#3-the-runs)
- [4. Bounds and fairness](#4-bounds-and-fairness)
- [5. The proofs](#5-the-proofs)
- [6. Disagreements with the comments](#6-disagreements-with-the-comments)
- [7. What is not modelled](#7-what-is-not-modelled)
- [8. Plan](#8-plan)

`tlc -config X.cfg M` runs a configuration, `tlapm M.tla` checks a module's proofs.
`PROJECT.json` lists the runs, the theorems, the hazards of the code with the
properties that watch them, and for every definition the lines it models. In the
modules, a definition whose comment begins "Mutant of" is a wrong version of the
definition after it. No specification uses it: it is there to show that a property
fails when the code is wrong in that way.

## 1. The system

### How it runs

There is no operating system. `main` (cpu/src/main.c:62-77) calls `knl_main_task`
until the DSP service is ready and then `knl_main_task` and `usr_main_task` in turn,
for ever. Each task is a state machine that does a little and returns. Interrupt
handlers (both UARTs, both SPI ports, the systick timer) run to completion and do not
nest (`NEST_INT ?= 0`, cpu/Makefile:33); between any two instructions of the main loop
one may run. So the concurrency is of one kind: *main may be interrupted between any
two accesses to shared memory, a handler never*. Almost all shared state is in ring
buffers; the rest is a few flags and the state of the drivers' callbacks. Services and
the application call each other directly, and events reach the application by
callbacks in the main loop.

The DSP is the same in small: a main loop that processes an audio frame when one has
arrived and then gives its CPU service one byte, an SPI interrupt and an audio
interrupt.

### The components

| Component | State | Operations | Meets | What makes it correct |
|---|---|---|---|---|
| ring buffer (`common/ring_buffer.c`) | head, tail: free-running counters; the slots | `put_force`, `get` | one side is main, the other a handler | first-in first-out and whole elements until an overrun; an overrun loses the oldest and no other |
| UART driver, MCU and TRS drivers (`per_uart.c`, `dev_mcu.c`, `dev_trs.c`) | transmit buffer pointer and length, the callback's message, `tx_complete`, interrupt enable | enqueue, transmit callback, interrupt handler | main runs the same callback as the handler | one user of that state at a time; whole messages in order; none left waiting |
| DSP protocol (`svc_dsp.c`, `svc_cpu.c`, `dev_dsp.c`, SPI drivers) | two parsers, four queues, the armed byte and the bytes in flight, the interrupt enables, `g_pending_response`, parameters | get and set a parameter, get port state, get profile, poll, transmit and receive interrupts | two processors over a link that moves a byte each way or none | the DSP executes what was sent; each reply answers its request; polling stops when all have come |
| MIDI parser (`lib/midi_fsm.c`) | state, status, data bytes, sysex buffer | one byte received | callbacks of the MIDI service | the messages reported are those in the stream |
| user tick (`knl_main.c`, `svc_systick.c`) | count, divisor, flag | systick, main's test, callback and clear, register | handler and main share the flag | no callback without a tick; calls keep coming |
| delays (`svc_delay.c`) | start, cycles, microseconds, expired | start, poll | a timer that wraps | never early; not later than the polling |
| boot (`main.c`, `knl_main.c`, `usr_main.c`, boot states of `svc_dsp.c` and `svc_display.c`) | the tasks' states | reset, release, program, run | both chips' resets by polled delays | no chip used early; the application after the DSP; the application at last |
| panel (`svc_panel.c`) | LED cache, held buttons, callbacks | LEDs, trigger mode, requests, events | the panel's microcontroller over UART 0 | the cache is what the panel will show; answers and events reach the right callback |
| loop sequencer (`apps/sequencer`) | circular event list, current event, tick, pool, amounts | record, step in, play, stop, erase, tick | MIDI and panel callbacks, the user tick | the list is in order; a pass plays each event once; the counts and pairs agree |
| display (`svc_display.c`, `dev_lcd.c`, transmit side of `per_spi.c`) | two copies of the frame, the page index, the transfer under way, the mode pin | draw, compare a page, send it, transmit interrupt | the LCD over SPI 1 | the LCD comes to show what was drawn, and between transfers exactly what was marked as sent |
| polysynth (`apps/polysynth`, `modules/polysynth`) | voices and their notes, gates, envelopes, what was last sent, the DSP's cutoffs | note on and off, knobs, `module_process` every tick | panel and MIDI callbacks; the DSP over the protocol | gates are open for the notes held; voices come back; the DSP's voices follow the knob |
| autosampler (`apps/wave3`, `modules/wave3`) | note timer, current note; recording index, memory, slots | record, stop, quality, every tick, every sample | an external synthesizer; two clocks that nothing keeps together | each slot of the recording holds its own note; no note is left on |
| audio frames (`dsp/src/kernel/main.c`, `per_sport.c`) | input, output and transmit buffers, the flag | interrupt, test, process, clear | the codec's clock | no frame skipped, repeated or mixed while the module keeps up |
| MIDI service, sysex, system print, keyboard, other applications and modules | | | | see [7](#7-what-is-not-modelled) |

### What is hard in it

- *Main interrupted inside a ring buffer operation.* Both `put_force` and `get` may
  change `tail`, each by a load and a store.
- *One callback, two contexts.* The transmit callback is called by the handler for the
  next message and by main for the first; `tx_complete` alone keeps them apart, and it
  can also strand a message.
- *A protocol without resynchronisation.* The DSP protocol frames by counting; a byte
  too many or too few is never repaired. Replies move only while the ARM polls, and
  the ARM polls only while its count of awaited replies says so.
- *Bytes of one MIDI message inside another*, running status, buffer limits.
- *Time measured by polling*: a wrapping timer, a main loop that takes any time.
- *State kept from callback to callback*: the sequencer's current event, the LED
  cache, the two words of held buttons, polysynth's cache of what it sent.
- *Buffers passed to an interrupt and then left*: the display's commands and pages,
  and the DSP protocol's polls, are sent by interrupt from memory that the caller goes
  on using, and a new transfer may start before the last has ended.
- *Interrupts that do much at once*: one transmit interrupt of a UART may take sixteen
  one-byte messages, inside a put of main and up to the FIFO's limit.
- *Two clocks*: the autosampler counts ticks, which may be lost, and the DSP samples;
  the audio interrupt does not wait for the module.

`PROJECT.json` lists each hazard at its line.

## 2. The modules

| Module | Models | Grain |
|---|---|---|
| `RingBuffer` | counters modulo `Laps * N`, slots, the full and empty tests | operators |
| `RingRx` | receive role: the handler's `put_force` (atomic), main's `get` | each shared access of `get` is an action, the `memcpy` byte by byte |
| `RingTx` | transmit role: the handler's `get` (atomic), main's `put_force` | each shared access of `put_force` |
| `OverwritingQueue`, `RingTxQueue` | what a transmit buffer promises with gets inside its puts: a bounded queue of which a put of a full buffer leaves an end of what it saw; and the mapping from `RingTx` | abstract specification |
| `UartTx` | enqueue, the callback as main runs it, the handler, the UART's FIFO and interrupt identification | each access of main and each register access or callback of the handler |
| `DspProtocol` (`MCDspProtocol`) | both parsers and dispatchers, the queues, the ARM's SPI driver with its two interrupts, a transfer | each access of main to what the interrupts share, an interrupt, a byte exchanged |
| `MidiFsm` | `midi_receive_byte` and all it calls | one byte |
| `UserTick` | the systick callback, registration, main's test, callback, clear | each access of the flag by main |
| `Delay` | `delay_start` and `delay_us` as functions of a delay's state and the timer | operators |
| `Boot` | main's order of the tasks, the reset and boot states of both chips | a cycle of the timer; a call of a task |
| `Panel` | `svc_panel.c` and, external, the panel's microcontroller | a call, a message |
| `EventSeq` | `event_seq.c`, its pool, and the callbacks of `sequencer.c` that use them | a callback |
| `Display` | `svc_display.c` after the reset, `dev_lcd_set_page` and what it calls, the transmit interrupt; external, the LCD | each access of main to the driver's state, each byte sent |
| `AudioFrame` | the audio interrupt, the flag, the DSP's main loop; external, the module | a clock step, a sample read or written |
| `Polysynth` | note events, voices, gates, envelopes, cutoff | an event, a call of `module_process` |
| `Autosampler` | the record and stop buttons, the quality, the note timer, the DSP's recording; external, the synthesizer | a button, a tick, a millisecond of samples |
| `Applications` | `UserTick` with one application: polysynth, wave3, or one that registers any divisor | a step of `UserTick`, of the application, or both |
| `MCMainLoop`, `MCTransmit`, `MCSerial`, `MCSound` | the runs that cover several models, one at a time | a step of one of them |
| `RingBufferLemmas`, `RingRxProofs`, `RingTxProofs` | theorems about the buffers | |
| `SerialProofs` | theorems about `UartTx`, and `Panel` and `MidiFsm` at the ends of its links | |
| `PortProofs` | theorems about `AudioFrame` and `Display`, which share buffers with a port's interrupt | |
| `ProcessorProofs` | theorems about `Boot` and `DspProtocol`, the two processors coming up and talking | |
| `ApplicationsProofs`, `EventSeqProofs` | theorems about the module each is named for | |

`RingRx` and `RingTx` instantiate the same buffer in its two roles because the
interrupted side differs. The modules above them use their result: `UartTx` and
`Panel` have queues of whole messages that drop the oldest when full, which is
`OverwritingQueue`. `Boot` composes `Delay` with the tasks that use it. `Applications`
composes `UserTick` with `Polysynth` and `Autosampler`: the body of the callback is
part of the step in which main returns from it, the timer's interrupt may come at any
point, and events reach the application only outside the callback, since both are
called by the main loop. A firmware is built with one application (`APP` of the
Makefile), hence the variable `app`.

How the state corresponds to the code, where it is not one to one:

- `RingRx`, `RingTx`: `pc`, `reg` and `data`/`copied` are main's place in the
  operation, the register it has loaded and the bytes it has copied. `sent`, `out`,
  `dropped` are histories. Counters wrap at `Laps * N`; in the code at 2^32
  (`size_t`), a multiple of every size the drivers use.
- `UartTx`: a byte is the pair of its message and its place in it. `thre` is the
  transmitter-empty event, which reading the identification register clears. The
  pointer `tx_buffer` is `pos`, the next byte of `msg`, the callback's static buffer.
  `refused` is a history: the messages that lost a byte to the FIFO's limit.
- `DspProtocol`: `armed` is the byte `tx_buffer` points at; it is empty when
  `g_dsp_spi_tx_complete` is true and `tx_length` is 0, which the callback brings
  about together. `pc` and `out` are main's place in a call or a poll and the bytes it
  has still to queue. `txbuf` and `rxbuf` are the ARM's shift and buffer registers,
  `dspByte` and `tdbr` the two bytes the DSP's slave side has in flight. Payloads of
  profile and port-state replies are zeros. `faults` is a history of what went wrong
  on the link: `unpadded`, a call right behind one without payload; `overtaken`, a
  poll over a byte not yet written; `stale`, a dummy sent after its function returned;
  `stray`, a receive interrupt with no byte wanted; `overrun`, a third unread byte.
- `MidiFsm`: `one`, `two` are `g_data_byte_one`, `_two`; `events` and `sysexes` are
  what the callbacks of channel messages and system exclusives were given; those of
  real-time bytes are not kept, what they clear is. `plain` is a second parser that is
  fed the same bytes without the real-time ones.
- `Boot`: `count` is the hardware timer. `real`, `gap`, `passed`, `aliased` are
  histories: the time that did pass, against which the measured one is held.
- `EventSeq`: the circular list is the sequence from head on. Single nodes are never
  released, so the pool is a number. `late`, `owed`, `plays`, `kept` are histories:
  the events placed by a timestamp at or past the loop's end, what the pass under way
  owes, has played, and whether all passes so far played what they owed.
- `Display`: the bytes of a command are records saying what they set; a column's eight
  dots are one. `calls` are the transfers the function main is in has still to start,
  `step` its place in the first of them. A column is read from the second copy when
  its byte is sent, as `tx_buffer` points into it; `line` is the byte on its way,
  which the LCD takes for what the pin says when it arrives. `overtaken` is a history:
  the pin was set for a transfer while another was under way.
- `AudioFrame`: of a sample only the number of its frame is kept.
- `Polysynth`: `held` and `unvoiced` are histories of the events. The envelope (LEAF,
  an absent submodule) takes any path its stages allow: up, down to the sustain level,
  down to nothing. `sent` is the cache of `module_interface.c`.
- `Autosampler`: notes are numbered from 0; `memory` is the set of notes heard in each
  place of `data_sdram`, which 2^quality samples share (`scale`). A slot's length in
  samples is the time times 48 exactly, at 48 kHz (autosampler.h:7), until the product
  exceeds an `int`, at 44.7 seconds; here a sample is a millisecond. `uniform` says
  that the quality has not changed during the recording, `disturbed` that a button was
  pressed while it ran, that the recording time does not exceed the tail, or that the
  bound on missed ticks was met.

## 3. The runs

Six runs hold. Six others each show a disagreement between the code and what a comment
says of it ([6](#6-disagreements-with-the-comments)), most of them what a property of a
passing run leaves out by a history variable that says when. Where a passing run covers
several models, `part` (in `Applications`, `app`) chooses one of them at the start and
the others rest: they share no state, and a property of a model at rest holds of its
first state.

| Run | Model | States | Shows |
|---|---|---|---|
| `main_loop` (`MCMainLoop`) | `RingRx` | 102 thousand | `ExactUntilOverrun`: first-in first-out, whole, until the first overrun; `Drains`: once elements stop, polling empties the buffer |
| | `Boot` | 349 thousand | `NeverEarly`, `Prompt` on a wrapping timer with main away for any time; `BootRunsApp`, which is `AppRuns` of the behaviours of this part: the application runs at last |
| `transmit` (`MCTransmit`) | `RingTxQueue` | 142 thousand | `ExactUntilOverrun` with the roles exchanged; `Whole`: no get returns a slot being written; `ImplementsQueue`: every behaviour is one of the overwriting queue |
| | `Display` | 980 thousand | `ShowsCopy`: until a transfer is overtaken the LCD shows between transfers the copy marked as sent, whatever is drawn meanwhile; `Settles`: once drawing stops the LCD comes to show it, or a transfer is overtaken |
| `serial` (`MCSerial`) | `UartTx` | 14 thousand | `Exclusive`: the handler never runs while main is in the callback; `Framed`: messages in order on the wire, whole but for those the FIFO's limit refused a byte; `NoLostWakeup` and `Delivered`: nothing but such a refusal leaves a message with nobody to send it |
| | `Panel` | 522 thousand | `CacheCoherent`: the LED cache is what the panel will show when it has taken what is queued; `CallbacksExact`; `Answered` |
| | `MidiFsm` | 300 thousand | `ChannelExact`: against a definition of the stream's meaning without a state machine, the channel messages are exactly those in it; `SysexReported`: system exclusives reported are in it, and those that fit the buffer are reported; `RealtimeKeepsFraming`: real-time bytes do not move message boundaries |
| `dsp_protocol` | `DspProtocol` | 1.5 million | `ExecutesCalls`: as long as the driver sends what was queued, the messages handled are those sent; `RepliesMatch`: with two requests outstanding each reply answers its own, with what was last set; `PendingExact`: the count of pending replies; `Answered`: polling goes on until every reply has come and then stops |
| `applications` | `Applications` | 425 thousand | of any application: `CallbackOwed`, `WithinPeriod`, `KeepsCalling`, with the divisor changed at any time; of polysynth: `NoStuckNote`, `FreedInTime` (a voice in release comes back), `CutoffTracks`; of wave3: `SlotsPure` (each sample of the recording holds the note that was due, at the place the quality gives it, while the ticks lost and the release fit into the tail), `OneNote` |
| `sound` (`MCSound`) | `AudioFrame` | 155 thousand | `InTime`: with module and service together under a period no frame comes before the last is done; `OneFrameLater`: until one does, the codec gets with each frame the output of the one before, both channels |
| | `EventSeq` | 1.7 million | `InOrder`: no event but one placed by a timestamp past the loop's end is behind a later one; `PassPlaysAll`, `AmountExact`, `Paired`, for any order of recording, stepping in, transport and erasing |
| `uart_tx_whole` | `UartTx` | | `WholeMessages` broken: five panel messages of five bytes over the FIFO of sixteen |
| `uart_tx_trs` | `UartTx` | | `AllDelivered` broken: seventeen MIDI bytes in one interrupt, and none is sent any more |
| `dsp_swallowed` | `DspProtocol` | | `NoneSwallowed` broken: a call right behind one without payload |
| `midi_fsm_realtime` | `MidiFsm` | | `RealtimeTransparent` broken: a real-time byte between two data bytes clears the first |
| `display_overtaken` | `Display` | | `CopyShown` broken: a page overtaken by the next transfer |
| `event_seq_order` | `EventSeq` | | `Chronological` broken: an event placed by a timestamp past the loop's end |

`ExactUntilOverrun` and not more for an overrunning receive buffer: there the `tail++`
of the interrupted get and that of the put overwrite each other, and an element may be
returned twice or mixed with the one that replaced it. A transmit buffer's gets are
whole through overruns too; what it promises of their order then is
`OverwritingQueue`.

`dsp_protocol` follows any calls at any time, with no reply awaited, as the timer of
wave3 (wave3.c:171-177) and a button (panel_callbacks.c:330) make them. Its properties
end where the link has failed them: `Intact` for `ExecutesCalls`, which says that each
byte sent was the one queued and each message had a byte to end it, and `faults = {}`
for the others. What the faults do is told in section 6. The run registers the application's callback; with `Registered = FALSE` `Answered` fails:
a value that nobody takes does not end its pending response (svc_dsp.c:502), and the
ARM polls for ever.

`SlotsPure` speaks of places of the memory as the recording uses them, at index
shifted right by the quality; the slots that the panel hands to the samples are not
shifted, and are the same only at quality 0.

`CutoffTracks` excepts the cutoff 0. Its control voltage equals what the cache of
`module_interface.c` starts with, so it is not sent, and a voice of the DSP keeps the
cutoff its own `module_init` gave it (polysynth.c:116 of the DSP's module) until the
knob has been elsewhere.

## 4. Bounds and fairness

Every bound is a constant with `bound` in its comment.

- *Ring buffers*: `N = 4`, elements of two bytes, counters that wrap after two laps,
  nine puts: every operation meets an empty, a full and a wrapped buffer, an overrun
  and a recovery. `Burst = 3`: up to three handler operations fall into one operation
  of main, of one interrupt or of several. One transmit interrupt of a UART makes up
  to sixteen gets, of one byte each, and the code's buffers have 256 or 512 slots; the
  proofs are for any burst less than the slots, or any at all for a receive buffer.
- *UART*: messages of three bytes and a FIFO of four in `serial`, eight messages,
  so that the limit falls inside messages, at different bytes; the code's five or one and
  sixteen in the two violation runs. A length of 16 bits for the code's 32, since only
  its wrap at zero is met. Nothing bounds the backlog but the number of messages.
- *DSP protocol*: two calls, one parameter, two values, one of which contains the
  bytes of a message header (none, and so only requests, in `dsp_swallowed`); `Lag`, one
  byte received and not yet handled on either side. A transfer waits for room in that sense, and for nothing else. A
  behaviour is followed until the first fault that `Tolerated` does not name, and
  never past an enabled interrupt without a byte or a byte sent from a stack that is
  gone: what comes then depends on memory no model here has. Of `overrun` (an ARM that
  does not read two received bytes before the third) and `stray` the properties say
  nothing.
- *MIDI*: every stream of six bytes out of eight, one of each kind the parser tells
  apart (two data bytes, a two-byte and a one-byte channel status, sysex start and
  end, another system common message, real-time), with a sysex buffer of two bytes, so
  that six bytes reach its limit and one beyond.
- *Applications*: a count of four values, divisors 0, 1 and 3, the widest it can
  reach; three notes on two voices, so that one finds none, three levels of the
  envelope, of which one is quiet, two cutoffs; recordings of three notes of 4 to 6
  milliseconds with a tail of 4, a lead of 2, a release of 1, and at most two ticks
  missed, all that the tail has room for, so that the note off, the tail and the
  slots' edges are met with and without a lost tick; a quality that may be set from 0
  to 1, two samples a place, at any time. A sample is a millisecond and so is a tick.
  After a disturbed recording the buttons are not pressed again: `SlotsPure` and
  `OneNote` say nothing of it. A divisor of 256 or more is never reached by the code's
  eight-bit count (knl_main.c:178), so that its callback is never called;
  `PeriodBounded` has the premise that excludes it.
- *Display*: two pages of two columns, one drawing of any range, a length of four
  values. Main may go on to the next transfer at any point of the last. The LCD's port
  runs at 30 MHz (dev_lcd.c:59) and a page takes it some tens of microseconds, with
  main interrupted for most of them: whether a transfer is overtaken is a matter of
  the interrupt's speed, of which the code asks nothing. A page that is overtaken is
  lost, and not sent again, since the second copy already equals the first. A command
  of the settings, which are on the stack of a function that has returned, and a
  column taken for a command may set any address.
- *Audio*: a period of 4, modules of 1 to 7 and service steps of 1 to 3: any load, up
  to nearly two periods, over eight frames.
- *Boot*: a timer that wraps every five cycles and a microsecond of two: main may stay
  away for more than a period, delays take several wraps.
- *Panel*: one LED, levels off, one and full, queues of two messages, which overrun,
  two requests.
- *Sequencer*: a loop of three steps of two ticks, four nodes (two notes on and off,
  or more of either), two notes.

Fairness is on what the code runs for ever: main's passes (the loops of main.c:62-77),
a handler whose interrupt is asserted, the transmitter, the timer, the panel's
microcontroller taking what it is sent. It is weak throughout: each of these stays
enabled until it happens. In `Applications` it is on the tick and on main's steps with
the flag, whatever the application adds to them, which is always possible; in
`Display` on main, the transmit interrupt and the byte on its way; in `DspProtocol` on
main, both interrupts, the transfers and the DSP. Nothing is assumed of the
application, the user or the other side, except in `Panel` that the microcontroller
answers.

Deadlock is not checked where the history bounds end a behaviour (the buffers, the UART
and the parser, hence `main_loop`, `transmit` and `serial`) or a fault on the link does
(`dsp_protocol`), nor in the violation runs of the same modules. That `Boot`, `Display`
and `Panel` do not stop, which share a run with one of these, follows from the liveness
checked of them.

## 5. The proofs

| Theorem | States, for every value of the constants |
|---|---|
| `RingRxProofs!TypeCorrect` | the types |
| `RingRxProofs!ExactDelivery` | the receive buffer is an exact queue until its first overrun, with any burst |
| `RingRxProofs!OccupancyBounded` | with at most one put within a get it never holds more than `N`: it takes two to break it |
| `RingTxProofs!TypeCorrect`, `ExactDelivery`, `OccupancyBounded` | the same for the transmit buffer, for any burst below `N` |
| `RingTxProofs!WholeElements` | every element taken is one that was put, whole, through any overrun |
| `RingTxProofs!ImplementsOverwritingQueue` | the transmit buffer implements `OverwritingQueue`, for any burst below `N` |
| `SerialProofs!CallbackExclusive` | the handler never runs while main is in the callback |
| `SerialProofs!FifoNeverOverfilled` | the handler never writes beyond the FIFO |
| `SerialProofs!WakeupNeverLost` | no message stays queued without an interrupt to come, unless the FIFO's limit refused one a byte, for any backlog |
| `SerialProofs!StreamFramed` | what is transmitted is the messages in the order they were queued, whole but for those the limit refused a byte, for any backlog |
| `SerialProofs!CacheIsShown` | the LED cache is what the panel shows or will show, until the queue overruns |
| `SerialProofs!CallbacksGetTheirOwn` | the held buttons callback gets two words of one answer, until the receive buffer overruns; each event goes to its own callback |
| `SerialProofs!ChannelMessages` | the channel messages reported of a MIDI stream without real-time bytes are exactly those in it, in order, for any bytes, length and buffer |
| `SerialProofs!SysexMessages` | every system exclusive reported is one of the stream, and those that fit the buffer are all reported, real-time bytes or not |
| `SerialProofs!FramingKept` | real-time bytes change nothing but the data of the message they interrupt |
| `ProcessorProofs!ChipsNeverEarly` | no chip is released or used before its time, for any timer, clock and reset times, however rarely main comes round |
| `ProcessorProofs!ChipsPrompt` | nor later than main's next pass, if main comes round once in a period of the timer |
| `ProcessorProofs!AppWaitsForDsp` | the application does not run before the DSP has its program |
| `ProcessorProofs!CallsExecuted` | the DSP executes the calls the ARM made, in order, for any parameters, values, number of calls and lag, as long as the link is `Intact` |
| `ApplicationsProofs!NoCallbackWithoutTick` | a callback starts only on a tick of its own |
| `ApplicationsProofs!PeriodBounded` | the flag is set within `divisor + 1` ticks |
| `ApplicationsProofs!NoNoteSticks` | polysynth on the user tick: gates are open for exactly the notes held that found a voice, each on one, for any MIDI notes, number of voices and envelopes |
| `ApplicationsProofs!CutoffFollowsKnob` | likewise, after each tick the DSP filters every sounding note at the knob's cutoff |
| `ApplicationsProofs!OneNoteAtATime` | wave3 on the user tick: undisturbed, the autosampler has one note down at most and leaves none, for any notes, times and tail |
| `ApplicationsProofs!SlotsHoldTheirNote` | with a release shorter than the tail, and while the ticks missed fit into it too, each sample of the recording holds the note that was due, at any quality |
| `EventSeqProofs!ListKeepsOrder` | no event is linked twice, the current pointer is on a linked one, and no event but a late one is behind a later event, for any loop, pool and notes |
| `EventSeqProofs!PeersAreMutual` | a note off and its note on point at each other and no other |
| `EventSeqProofs!AmountsAreExact` | the amount of a step is the number of its note ons |
| `EventSeqProofs!NoEventSkipped` | until a late timestamp, each pass plays every event that was there at its start exactly once |
| `PortProofs!KeepsUp` | if module and service take less than a period together, no frame comes before the last is done |
| `PortProofs!FramesInOrder` | until one does, the codec is given with each frame the output of the one before |
| `PortProofs!LcdShowsCopy` | until a transfer is overtaken the LCD shows between transfers the copy marked as sent, for any pages and columns |

They assume what each module's `ASSUME` says of its constants, and the premises named
above: `Burst <= 1` for the one theorem that says so, which it
needs (see 6); divisors below the count's range; MIDI notes; a release below the tail,
which the code makes 500 ms. Where a property holds until something has gone wrong,
that is said by a history of the behaviour (`dropped`, `refused`, `faults`,
`overtaken`, `late`, `disturbed`), not by a constant; section 6 says what follows.

*Ring buffers.* `RingBufferLemmas` does the modular arithmetic once: `Count` of two
wrapped counters, what `Inc` does to it, that slots of nearby counters differ. The
invariants of both proof modules then relate the counters to the histories (the
counter is the number of elements put, modulo) and say, for each place main may be at,
what its register still tells. `OccupancyBound` alone is not inductive: the register
main has loaded may be stale by a burst, and the invariant says by how much.
`WholeElements` needs that every slot is whole but the one main is copying to, and
that this one is not among those the handler may take: head has not yet passed it.

*UART.* `Exclusive` is not inductive: that main tests `tx_complete` after the put says
nothing until the invariant adds that while it is set the interrupt is disabled and a
handler still running has nothing left to write, and that from main's claim to its
enabling of the interrupt it is not set. `WakeInv` says why no wake-up is lost:
between enqueues, with no handler running or one that has come upon the empty queue,
`tx_complete` set means that nothing is queued, and while a message waits its
interrupt is enabled and either latched or owed by bytes in the FIFO. The handler
takes message after message, and its loop ends in one of two ways: it finds no
message, or the FIFO's limit, where a byte is counted and not sent. The second puts
the message into `refused`; the invariant keeps, for the rest of the behaviour, that a
length of zero with `tx_complete` unset means just that, and that no interrupt does
more with it than count below zero. `StreamInv` numbers the bytes: each on the wire
and in the FIFO follows the one before it (`Follows`), the message in the callback's
buffer comes next, then the queue.

*Panel.* `CacheInv` compares the cache with the last queued command for each LED, or
with what the LED shows if there is none; the lemmas `ShowsAppend` and `ShowsTail` say
what enqueuing and taking a command do to that. `CallbacksExact` is not inductive:
that the two words met are of one answer follows from where the low words are.
`WordsMeet` says of each high word on its way, and of the one the panel still owes,
that the last low word before it, in the buffer or already stored, is of its answer.

*MIDI.* The meaning of a stream is said with positions: the status byte at `j` governs
a place if it is the last one before it (`Governs`), data bytes are numbered from it
(`DataCount`), and a message ends where their number is even, or anywhere if its type
has one byte (`Completes`). None of this needs recursion, and none changes for places
already past when a byte comes: the lemmas `GovernsPast` to `MessagePast` say so,
`GovernsNext`, `DataNext` and `EndsNext` what the new byte adds. `AwaitInv` ties the
parser's one state variable to the stream: it awaits a first or second data byte
exactly by the parity of the data after the governing byte and keeps the first
(`AwaitsFor`); in a system exclusive its buffer lists the data since the start
(`Collects`); and when it awaits a status byte no channel byte governs, and if a start
byte does its message was too long. `BufferInv` is for the end byte that comes twice:
what the buffer still holds after a message is a message of the stream, so that
reporting it again is unwanted but not wrong. There is one lemma per kind of byte.
Since the parser ignores the other system common messages, data after them is taken as
if they were not there; `Status` leaves them out accordingly. For `FramingKept` two
parsers go side by side, and differ in the data bytes only.

*User tick.* A set flag outside the callback is owed a callback. The ticks counted
since the last setting or registration are at most the count, which is reset before it
passes the divisor, also when a registration lowers the divisor under it.

*Boot.* A delay counts each cycle at most once: `Delta` of two reads is the time
between them, or less when the timer lapped; so time measured is at most time passed
(`Sound`), and an expired delay has passed its time. The invariant also places each
delay in its task's state. For `ChipsPrompt` the measure must not be short either:
`ExactInv` says that, as long as no poll came more than a period after the one before,
the time measured and the time since the last poll make up all of the time passed.

*DSP protocol.* The parser has no way to find a message's start but to be at rest when
it comes, so the invariant follows every byte, from main's call to the DSP's parser.
`Outgoing` is all of them in order: those the DSP has received, those in the ARM's
SPI, the armed one, the ring, and those main has still to queue. Most steps only move
the first of one part to the end of the one before it, which leaves `Outgoing` as it
is (`Forwards`, lemma `Moved`). A call appends a message, a poll puts a zero behind
the bytes already written, and the DSP takes the first. That a poll arms where nothing
waits is what `Intact` says of it; and `DriverInv` says that nothing is queued behind
an idle driver but while main is about to start it. `Laid` gives each byte its place
in a call, or in the zeros that follow one: places go up by one, and the next call
begins only where the one before is over, which for a call without payload is one zero
after its last byte; `Intact` says there was one. `Taken` says that the DSP's parser
is at the place of the byte it took last, and so has handled just the calls before. No
premise is left: how many calls are under way, who awaits what and how far either
processor lags are of no account.

*Overwriting queue.* The elements held are read off tail, slot by slot: the lemmas
`HeldGet`, `HeldPut` and `HeldCopy` say what moving tail, moving head and writing the
slot of head do to that sequence. The step that is not obvious is the put's store to
tail, over the gets of a burst. `Seen` is what the put saw when it found the buffer
full: all slots from head's on, which stay as they are until the store, since main
writes none and gets only read. So the store leaves what followed one of the elements
seen, at most one further than the oldest still held (`ClearOldest`). The invariants
of the other theorems give that the window never holds more than `N`, and that what is
published is whole.

*Sequencer.* `SeqInv` keeps the list without repetition, with the current pointer on
it, every event but the late ones behind none later than itself, and the pairs mutual.
An event that is not late is placed before the first one later than itself, so that
all before it are not later, wherever late ones lie. It needs `Sole`, that a list of
one event is a note on without a note off: the search for the note on of a note off
does not look at the note when the list has one event (event_seq.c:302), and without
`Sole` it could pair an event a second time. `AmountExact` is kept by counting: an
insert adds one member to the set of a step's note ons, whatever the list does.
`PassInv` says that each event the pass owes has been played once if it lies before
the tick, and else not at all, and is not behind the current pointer: so the player,
which waits at the first event not yet due, comes to it in time. A late timestamp
breaks the order on which that rests.

*Polysynth.* `VoiceInv`: voices in use have different notes; the open gates are the
voices in use that are not in release; a note is held and found a voice exactly when
such a voice has it. That a voice in release keeps its note is what makes a repeated
note find it. `CutoffInv`: what was last sent for a voice is what the DSP has, or
nothing was sent yet. In `ApplicationsProofs` the lemma `RunsPolysynth` shows that the
firmware's specification implies polysynth's: whatever the tick does, a step is one of
polysynth's or leaves its state alone.

*Autosampler.* `AutoInv` ties the key that is down to the timer: the current note's
until its tail begins, none in the tail. `FadeInv` bounds what still sounds in the
tail by the release less the time since, so that nothing sounds when the next note
begins. `RecInv` relates the two clocks: the DSP's index is never behind the
milliseconds the callbacks have counted, and ahead by no more than the ticks missed;
with the release on top that is less than the tail, so that what the last samples of a
note's time hear is its own end, and the next note begins after them. At a quality
above 0 a place keeps the last of the samples that share it, the one `At` names.

*Audio.* While main is in the module for a frame, the age of that frame is at most the
rest of a service step plus the time in the module, so the next one, a period later,
finds it done. Without a frame too soon both channels read and written are those of
the last frame.

*Display.* `ShowsCopy` speaks of the moments between transfers; `DisplayInv` says for
every other one where the frame is. `Fresh`: each column of the LCD is that of the
copy, or its page is still in main's list, or it is in the part of the transfer under
way that has not been sent. `Sending` says what the LCD has taken of the transfer
under way (a page's address first, then as many columns as bytes), and `Addressed`
that in main's list each page's columns follow its address, so that they arrive in the
right page. The columns are read from the copy when they are sent; the task writes the
copy of a page only where it queues the page again. All this is said until
`overtaken`: from `SetMode` with the port still busy on, the invariant says nothing,
and from one with the port idle the last transfer was complete.

Left to the model checker is all liveness (`Drains`, `Delivered`, `KeepsCalling`,
`FreedInTime`, `BootRunsApp`, `Settles` and both `Answered`), which TLAPS does not prove
under fairness. Of the invariants and action properties the passing runs check all are
also theorems but two, `RepliesMatch` and `PendingExact`: with several requests
outstanding they need the way back of each reply followed byte by byte, as `Laid`
follows the calls.

## 6. Disagreements with the comments

Each of these has a violation run, named at its end.

- `dev_mcu.c:179`: "Send next queued message". `per_uart.c:243` counts the length down
  before it tests the FIFO's limit of sixteen. The fourth panel message of one
  interrupt meets the limit after its first byte and is sent one byte short; the
  panel, which counts five bytes, is out of step from then on (`uart_tx_whole`).
- `dev_trs.c:174`: "Send next queued byte". The same with messages of one byte: the
  seventeenth is counted to length 0 and not sent, no callback follows,
  `g_trs_tx_complete` stays false, and nothing is sent any more (`uart_tx_trs`). The
  ring holds 512 bytes, and svc_midi.c:125-134 queues byte by byte.
- `svc_cpu.c:258-260` says a message is handled "before returning, else it is not
  handled until first byte of next message is received". A message without payload is
  handled only in the payload state, that is on the next message's first byte, which
  is consumed. After a single request the poll's dummy byte plays that part; if
  another call follows at once, as wave3's profile request (wave3.c:173) may be
  followed by any knob's, that call is lost (`dsp_swallowed`).
- `midi_fsm.c:251` says that after a real-time byte "processing of the MIDI byte
  stream should continue as though the real-time byte was never received".
  `invoke_callback` clears `g_data_byte_one`, so a clock byte between note and
  velocity makes the note 0 (`midi_fsm_realtime`).
- `svc_display.c:124`: "Send single page per task invocation". A transfer that is
  still under way when main starts the next is cut off, and its page, marked as sent,
  is not repeated (`display_overtaken`).
- `event_seq.c:111` and `event_seq.h:87` promise chronological order.
  `SEQ_add_event_at_timestamp` stores the timestamp reduced to the loop and searches
  with the unreduced one, so a note off at or past the loop's end is linked at the end
  of the list with an early timestamp; the player waits at it for the rest of the pass
  and does not play it (`event_seq_order`).

Without a run of their own, though the models take the steps that lead there:

- `ring_buffer.c:119`: "Clear oldest element if ring buffer full". Two puts of one
  interrupt between the load and the store of the main loop's `tail++`, on a full
  receive buffer, leave head and tail further apart than there are slots; the equality
  that tests for full is then false, and puts overwrite elements without clearing any.
- `ring_buffer.c:137`: "Get (and remove) an element". On a full transmit buffer
  put_force's `tail++` stores back what it loaded before the gets of an interrupt,
  plus one: with two or more gets in between, elements are taken again.
- `dev_dsp.c:294`: "Send next queued byte". `dev_dsp_spi_poll` tests nothing: it may
  take the place of a byte that is armed and not yet written, which is lost, and the
  message's frame with it.
- `per_spi.c:344-345`: the test of the length "may not be necessary as interrupt is
  only enabled if length > 0". A poll stores its length while the interrupt is still
  enabled for the byte before; the interrupt may send the poll's byte before
  `per_spi_trx_int` enables it once more, with length 0, and the test wraps the length.
- `sample_manager.c:31`: "ADJUST RECORDING FOR SELECTED QUALITY". The recording's
  index is shifted right by the quality, the slots of panel_callbacks.c:200-216 and
  the offsets of wave_lookup.c:51 are not: at quality 1 two notes share the first slot.

Without a model, since the words are of a plan and not of the code below them:

- `polysynth.c:436` and `voice_manager.h:8` speak of stealing a voice when all are in
  use; `process_note_event` returns without one (polysynth.c:386).

Met on the way, and nowhere said to be otherwise: a user tick takes `divisor + 1` kernel
ticks, and a tick that falls between the callback's start and the clear of the flag is
lost (knl_main.c:170-187); a second sysex end byte delivers the last message again
(midi_fsm.c:302); a note recorded in the last half step is quantized to a tick the
loop never reaches (event_seq.c:97); with one event in the list a note off is paired
with it whatever its note (event_seq.c:302). A filter type is sent without the voice's
offset (module_interface.c:355), so that it changes the first voice only. A polysynth
voice whose level is already quiet and constant when its note ends never comes back,
since the test for quiet is made only on a level that changed. The autosampler's timer
starts from the last recording's time less 200; with a time of at most the tail's 500
ms it sends no note off (autosampler.c:39), pressed again in the middle of a note it
leaves that note on, and the recording goes on until the stop button. A NOTE ON of
velocity 0 is not taken as a note off by `midi_fsm.c`.

## 7. What is not modelled

- *Receive half of the UART driver*: it puts bytes, for the panel five at a time, into
  the buffer `RingRx` models. Its branch for line errors (per_uart.c:285-292) needs an
  interrupt that is never enabled.
- *SPI drivers* but for the display's transfers and those of the DSP protocol: the
  handler's endless loop on an error (per_spi.c:381-386), into which a DSP that does
  not raise its enable line within the timeout leads; the transfers of the boot, which
  come before the first that `DspProtocol` has, and the dummy byte of dev_dsp.c:255,
  which the model has still armed when the protocol starts; the port shared with the
  flash.
- *MIDI service*: it joins `RingRx`, `MidiFsm` and the transmit path and adds no
  state.
- *Sysex service and codec*: a development protocol that writes memory at addresses
  the message gives; its effects are those of the memory. That a message reaches it
  whole is `SysexReported`.
- *System service and print, keyboard, menu*: device writes; arithmetic on tables
  fixed at start, of which `Polysynth` needs only that a pad's two events have the
  same note; a static tree of strings.
- *Display*: contrast and whole-frame calls, which have no caller; the backlight.
- *Polysynth*: pitch, velocity, LFOs, the other parameters, all of which go the way of
  the cutoff, and what is drawn. *wave3*: the mapping of samples to notes and playing
  them.
- *Other applications, other voice managers, zontar*: they map events to parameters
  and messages, or are copies of those modelled with small changes.
- *Signal processing* of the DSP's modules: numeric code. Most of the lines of the
  repository are this, tables and vendored headers.
- *Start-up code, pins, memory controller, C library stubs, API wrappers, error halts,
  unused flash and clock code*: no protocol of their own. In `svc_panel.c`,
  `svc_panel_calib_xy`, which has no caller.
- *External*: the StarterWare library (`UARTCharPut`, ...), UGUI, LEAF and aleph-dsp
  are absent submodules. What the models need of them, of the panel's microcontroller,
  the LCD, the audio module and the sampled synthesizer is modelled from how the code
  uses them and marked external.

## 8. Plan

The order was: buffers, since everything rests on them; the transmit path; the DSP
protocol; the parser; ticks, delays and boot; panel; sequencer; then the display, the
audio frames, polysynth and the autosampler on the user tick. Next:

1. The way back of the DSP's replies, byte by byte, and with it `RepliesMatch` and
   `PendingExact` as theorems.
2. The panel's LEDs as a map that commands update in order, and the DSP's parameters
   as a register with atomic reads and writes, as abstract specifications that `Panel`
   and `DspProtocol` implement.
3. `Polysynth` over `DspProtocol`: the parameters in its queue while the knob turns.
4. wave3's samples: their mapping to notes and the playing while one is recorded.
