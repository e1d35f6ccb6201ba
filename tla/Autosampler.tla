---------------------------- MODULE Autosampler ----------------------------
(***************************************************************************)
(* The autosampler of the wave3 application: it plays an external          *)
(* synthesizer note after note over MIDI, by a timer of its own that the   *)
(* user tick drives (autosampler.c), while the DSP records everything into *)
(* one memory (the module's wave3.c and sample_manager.c), divided in      *)
(* advance into a slot for each note.  Nothing but time keeps the two      *)
(* together.  A sample of the recording is a millisecond here.  At a       *)
(* quality q of samples[0] every 2^q of them share a place of the memory.  *)
(***************************************************************************)
EXTENDS Integers

CONSTANTS
  Steps,     \* notes to sample: (end - start) / step + 1
  Times,     \* recording times the encoder has, in ms: g_recording_time_in_ms
  TailTime,  \* tail_time_in_ms: 500
  Lead,      \* the 200 ms between the button and the first note
  Scales,    \* 2^q for the qualities q the encoder sets
  Release,   \* how long the synthesizer sounds after a note off
  MaxMissed  \* bound: user ticks missed in a recording

\* Notes are numbered from 0: note i is start_note + i * step_in_semitones.
VARIABLES
  time, timer,       \* record_time_in_ms, record_timer
  current, running,  \* current_note, recording of autosampler.c
  recording, open,   \* recording, recording_gate_open of the DSP module
  scale,             \* 2^quality of samples[0]
  index, memory,     \* wavtab_index; the notes heard in each place of data_sdram
  length,            \* of a slot: slot i is places i * length to (i + 1) * length - 1
  keys, fading,      \* the synthesizer: keys down, ms each of the others still sounds
  uniform,           \* history: the recording is at one quality so far
  disturbed          \* history: a button was pressed while the autosampler ran, the
                     \* time does not exceed the tail, or MaxMissed was reached

autoVars == <<time, timer, current, running>>
dspVars == <<recording, open, scale, index, memory, length, uniform>>
vars == <<autoVars, dspVars, keys, fading, disturbed>>

Missed == index - (current * time + timer)   \* ticks, while the autosampler runs
MaxIndex == Steps * (CHOOSE t \in Times : \A u \in Times : u <= t) + MaxMissed

Synth == -1 .. Steps   \* note -1 is the one before the first
Init ==
  /\ time = 0 /\ timer = 0 /\ current = 0 /\ running = FALSE
  /\ recording = FALSE /\ open = FALSE /\ index = 0 /\ scale = 1 /\ uniform = TRUE
  /\ memory = [k \in 0 .. MaxIndex |-> {}] /\ length = 0
  /\ keys = {} /\ fading = [n \in Synth |-> 0]
  /\ disturbed = FALSE

-----------------------------------------------------------------------------
\* Mutant of Record: the slots are as long as the last recording time.
RecordStaleLength == \E chosen \in Times :
  /\ ~disturbed /\ recording' = TRUE /\ open' = FALSE /\ index' = 0 /\ uniform' = TRUE
  /\ memory' = [k \in 0 .. MaxIndex |-> {}]   \* to be recorded anew
  /\ timer' = time - Lead /\ time' = chosen
  /\ current' = -1 /\ running' = TRUE
  /\ length' = time
  /\ disturbed' = (disturbed \/ running \/ chosen <= TailTime)
  /\ UNCHANGED <<scale, keys, fading>>

\* BUTTON_RECORD: SAMPLE_RECORD_START, AUTOSAMPLER_init, then the slots.  (None of
\* the properties says anything of what follows a disturbed recording.)
Record == \E chosen \in Times :
  /\ ~disturbed /\ recording' = TRUE /\ open' = FALSE /\ index' = 0 /\ uniform' = TRUE
  /\ memory' = [k \in 0 .. MaxIndex |-> {}]   \* to be recorded anew
  /\ timer' = time - Lead /\ time' = chosen
  /\ current' = -1 /\ running' = TRUE
  /\ length' = chosen
  /\ disturbed' = (disturbed \/ running \/ chosen <= TailTime)
  /\ UNCHANGED <<scale, keys, fading>>

\* BUTTON_STOP: SAMPLE_RECORD_STOP.
Stop ==
  /\ ~disturbed /\ recording' = FALSE
  /\ disturbed' = (disturbed \/ running)
  /\ UNCHANGED <<autoVars, open, scale, index, memory, length, uniform, keys, fading>>

\* The encoder sets the quality of samples[0], at any time: SMPMAN_set_parameter.
SetQuality == \E chosen \in Scales \ {scale} :
  /\ ~disturbed /\ scale' = chosen
  /\ uniform' = (index = 0)
  /\ UNCHANGED <<autoVars, recording, open, index, memory, length, keys, fading, disturbed>>

NoteOff(n) ==
  /\ keys' = keys \ {n}
  /\ fading' = IF n \in keys THEN [fading EXCEPT ![n] = Release] ELSE fading

NoteOn(n) ==
  /\ keys' = keys \cup {n} /\ fading' = fading

\* AUTOSAMPLER_call_every_ms.  The note's time is over: the next one, or the end.
NextNote ==
  /\ timer + 1 >= time
  /\ timer' = 0 /\ current' = current + 1 /\ running' = (current + 1 < Steps)
  /\ IF running' THEN NoteOn(current + 1) ELSE UNCHANGED <<keys, fading>>

\* Mutant of Count: the note off is for the next note.
CountNextNote ==
  /\ timer + 1 < time
  /\ timer' = timer + 1
  /\ IF timer' = time - TailTime THEN NoteOff(current + 1) ELSE UNCHANGED <<keys, fading>>
  /\ UNCHANGED <<current, running>>

\* It is not: a note off if only the tail is left of it.
Count ==
  /\ timer + 1 < time
  /\ timer' = timer + 1
  /\ IF timer' = time - TailTime THEN NoteOff(current) ELSE UNCHANGED <<keys, fading>>
  /\ UNCHANGED <<current, running>>

EveryMs ==
  /\ \/ running /\ (NextNote \/ Count)
     \/ ~running /\ UNCHANGED <<timer, current, running, keys, fading>>
  /\ UNCHANGED <<time, dspVars, disturbed>>

Heard == keys \cup {n \in Synth : fading[n] > 0}

\* SMPMAN_record stores at the index, which has gone up, shifted right by the quality.
Place == index' \div scale

\* A millisecond of the DSP's module_process: once the input has passed the threshold
\* it is recorded.  (Silence after the end is not followed.)
Frame ==
  /\ open' = (open \/ (recording /\ Heard # {}))
  /\ IF recording /\ open' /\ running /\ Missed < MaxMissed
     THEN /\ index' = index + 1
          /\ memory' = [memory EXCEPT ![Place] = Heard]
          /\ UNCHANGED disturbed
     ELSE /\ disturbed' = (disturbed \/ (recording /\ open' /\ running))
          /\ UNCHANGED <<index, memory>>
  /\ fading' = [n \in Synth |-> IF fading[n] > 0 THEN fading[n] - 1 ELSE 0]
  /\ UNCHANGED <<autoVars, recording, scale, length, uniform, keys>>

-----------------------------------------------------------------------------
\* The sample that is at a place, at a quality that does not change: the last of those
\* that share it, or the last so far.
At(p) == IF (p + 1) * scale - 1 <= index THEN (p + 1) * scale - 1 ELSE index

\* A sample recorded in the time of a note's slot holds nothing but that note, at its
\* place for the quality, for as long as the ticks missed and the synthesizer's release
\* fit into the tail, and no button was pressed.  At quality 0 these are the slots.
SlotsPure ==
  ~disturbed /\ uniform /\ Missed + Release < TailTime =>
    \A i \in 0 .. Steps - 1, p \in 0 .. MaxIndex :
      p * scale <= index /\ 1 <= At(p) /\ length * i <= At(p) /\ At(p) < length * (i + 1)
        => memory[p] \subseteq {i}

\* Undisturbed, the autosampler plays one note at a time, and leaves none on.
OneNote ==
  ~disturbed => (\A m, n \in keys : m = n) /\ (~running => keys = {})
=============================================================================
