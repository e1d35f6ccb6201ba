------------------------- MODULE ApplicationsProofs -------------------------
(***************************************************************************)
(* Proofs about the user tick for every set of divisors, and about the     *)
(* applications on it: polysynth's notes and cutoff, the notes of wave3's  *)
(* autosampler and the slots they are recorded in.                         *)
(***************************************************************************)
EXTENDS Applications, Integers, TLAPS

-----------------------------------------------------------------------------
(* A callback needs a tick.                                                *)

OwedInv == pc = "other" /\ flag = TRUE => owed = 1

LEMMA OwedInit == Init => OwedInv
BY DEF Init, OwedInv

LEMMA OwedStep == ASSUME OwedInv, [Next]_vars PROVE OwedInv'
<1> USE DEF OwedInv
<1>1. CASE Register
  BY <1>1 DEF Register
<1>2. CASE Tick
  BY <1>2 DEF Tick
<1>3. CASE StartCallback
  BY <1>3 DEF StartCallback
<1>4. CASE EndCallback
  BY <1>4 DEF EndCallback
<1>5. CASE Clear
  BY <1>5 DEF Clear
<1>6. CASE UNCHANGED vars
  BY <1>6 DEF vars
<1> QED
  BY <1>1, <1>2, <1>3, <1>4, <1>5, <1>6 DEF Next, Main

\* The application's callback never starts without a tick since it last started
\* (knl_main.c, _kernel_run against _systick_callback).
THEOREM NoCallbackWithoutTick == Spec => CallbackOwed
<1>1. OwedInv /\ [Next]_vars => [StartCallback => owed = 1]_vars
  <2> SUFFICES ASSUME OwedInv, StartCallback PROVE owed = 1
    OBVIOUS
  <2>1. pc = "other" /\ flag
    BY DEF StartCallback
  <2>2. flag = TRUE \/ owed = 1
    BY <2>1
  <2> QED
    BY <2>1, <2>2 DEF OwedInv
<1> QED
  BY OwedInit, OwedStep, <1>1, PTL DEF Spec, CallbackOwed

-----------------------------------------------------------------------------
(* The period.                                                             *)

\* The ticks counted since the last setting or registration are among those the
\* count has seen, which never passes a divisor without being reset.
PeriodInv ==
  /\ divisor \in Nat /\ count \in Nat /\ ticks \in Nat
  /\ divisor < CountMod
  /\ ticks <= count
  /\ WithinPeriod

\* For divisors that fit the eight-bit count the flag is set within divisor + 1
\* ticks, also across registrations of a smaller divisor (knl_main.c: >=, not ==).
THEOREM PeriodBounded ==
  ASSUME \A d \in Divisors : d < CountMod
  PROVE  Spec => []WithinPeriod
<1> USE UserTickAssumption DEF UserTickAssumption, PeriodInv, WithinPeriod
<1>1. Init => PeriodInv
  BY DEF Init
<1>2. ASSUME PeriodInv, [Next]_vars PROVE PeriodInv'
  <2>1. CASE Register
    BY <1>2, <2>1 DEF Register
  <2>2. CASE Tick
    <3>1. CASE count >= divisor
      BY <1>2, <2>2, <3>1 DEF Tick
    <3>2. CASE ~(count >= divisor)
      <4>1. count + 1 <= divisor /\ count + 1 < CountMod
        BY <1>2, <3>2
      <4>2. (count + 1) % CountMod = count + 1
        BY <1>2, <4>1
      <4>3. count' = count + 1 /\ ticks' \in {ticks, ticks + 1} /\ divisor' = divisor
        BY <2>2, <3>2, <4>2 DEF Tick
      <4> QED
        BY <1>2, <4>1, <4>3
    <3> QED
      BY <3>1, <3>2
  <2>3. CASE Main
    BY <1>2, <2>3 DEF Main, StartCallback, EndCallback, Clear
  <2>4. CASE UNCHANGED vars
    BY <1>2, <2>4 DEF vars
  <2> QED
    BY <1>2, <2>1, <2>2, <2>3, <2>4 DEF Next
<1>3. PeriodInv => WithinPeriod
  OBVIOUS
<1> QED
  BY <1>1, <1>2, <1>3, PTL DEF Spec

-----------------------------------------------------------------------------
(* Polysynth on the user tick: which note has which voice.  Whatever the  *)
(* tick does, and whichever of the applications the firmware has, a step   *)
(* of it is one of Polysynth or leaves its state alone.                    *)

LEMMA RunsPolysynth == AppSpec => P!Spec
<1>1. AppInit => P!Init
  BY DEF AppInit
<1>2. [AppNext]_<<vars, app, appVars>> => [P!Next]_(P!vars)
  <2>1. UNCHANGED voiceVars => UNCHANGED P!vars
    BY DEF voiceVars, P!vars, P!voiceVars
  <2>2. Polysynth => P!Next \/ UNCHANGED voiceVars
    BY DEF Polysynth, P!Next
  <2>3. AppNext => P!Next \/ UNCHANGED voiceVars
    BY <2>2 DEF AppNext, Wave3
  <2>4. UNCHANGED <<vars, app, appVars>> => UNCHANGED voiceVars
    BY DEF appVars
  <2> QED
    BY <2>1, <2>3, <2>4
<1> QED
  BY <1>1, <1>2, PTL DEF AppSpec, P!Spec

\* A voice sounds: it has a note that is not in its release.
Sounds(v) == P!Active(v) /\ ~releasing[v]

\* The voices have different notes, those that sound have their gates open, and they
\* are the voices of the notes held, those that found none excepted.
VoiceInv ==
  /\ note \in [P!Voices -> Notes \cup {P!INVALID_NOTE}]
  /\ DOMAIN releasing = P!Voices /\ DOMAIN gate = P!Voices
  /\ \A v, w \in P!Voices : P!Active(v) /\ note[v] = note[w] => v = w
  /\ \A v \in P!Voices : gate[v] <=> Sounds(v)
  /\ \A v \in P!Voices : Sounds(v) => note[v] \in held
  /\ \A v \in P!Voices : note[v] \notin unvoiced
  /\ \A n \in held \ unvoiced : \E v \in P!Voices : note[v] = n /\ Sounds(v)
  /\ held \subseteq Notes /\ unvoiced \subseteq Notes

LEMMA VoiceInit == ASSUME P!INVALID_NOTE \notin Notes PROVE P!Init => VoiceInv
BY DEF P!Init, VoiceInv, Sounds, P!Active

\* A note on, whichever voice it finds.
LEMMA OnStep ==
  ASSUME P!INVALID_NOTE \notin Notes, VoiceInv, NEW n \in Notes, P!NoteOn(n) PROVE VoiceInv'
<1> USE DEF VoiceInv, Sounds, P!Active
<1>1. ASSUME NEW v \in P!Voices, note[v] = n, P!Retrigger(v) PROVE VoiceInv'
  BY <1>1 DEF P!NoteOn, P!Retrigger, P!Open
<1>2. ASSUME \A w \in P!Voices : note[w] # n,
             NEW v \in P!Voices, ~P!Active(v), P!Assign(v, n)
      PROVE  VoiceInv'
  BY <1>2 DEF P!NoteOn, P!Assign, P!Open
<1>3. ASSUME \A v \in P!Voices : note[v] # n, unvoiced' = unvoiced \cup {n},
             UNCHANGED P!voiceVars
      PROVE  VoiceInv'
  BY <1>3 DEF P!NoteOn, P!voiceVars
<1> QED
  BY <1>1, <1>2, <1>3 DEF P!NoteOn

\* A note off, whether a voice has the note or not.
LEMMA OffStep ==
  ASSUME P!INVALID_NOTE \notin Notes, VoiceInv, NEW n \in Notes, P!NoteOff(n) PROVE VoiceInv'
<1> USE DEF VoiceInv, Sounds, P!Active
<1>1. ASSUME NEW v \in P!Voices, note[v] = n, ~P!InRelease(v), P!Close(v), UNCHANGED note,
             releasing' = [releasing EXCEPT ![v] = TRUE]
      PROVE  VoiceInv'
  BY <1>1 DEF P!NoteOff, P!Close
<1>2. ASSUME \A v \in P!Voices : note[v] = n => P!InRelease(v), UNCHANGED P!voiceVars
      PROVE  VoiceInv'
  BY <1>2 DEF P!NoteOff, P!InRelease, P!voiceVars
<1> QED
  BY <1>1, <1>2 DEF P!NoteOff

\* A tick takes back only voices that do not sound.
LEMMA ProcessStep ==
  ASSUME P!INVALID_NOTE \notin Notes, VoiceInv, P!Process PROVE VoiceInv'
<1>1. PICK next : P!StepVoices(next)
  BY DEF P!Process
<1>2. \A v \in P!Freed : releasing[v]
  BY DEF P!Freed, P!InRelease
<1>3. UNCHANGED <<gate, held, unvoiced>>
  BY DEF P!Process
<1>4. \A v \in P!Voices : v \notin P!Freed => note'[v] = note[v] /\ (releasing'[v] <=> releasing[v])
  BY <1>1 DEF P!StepVoices
<1>5. \A v \in P!Voices : v \in P!Freed => note'[v] = P!INVALID_NOTE
  BY <1>1 DEF P!StepVoices
<1>6. /\ note' \in [P!Voices -> Notes \cup {P!INVALID_NOTE}] /\ DOMAIN releasing' = P!Voices
  BY <1>1 DEF P!StepVoices, VoiceInv
<1>7. \A v \in P!Voices : Sounds(v)' <=> Sounds(v)
  BY <1>2, <1>4, <1>5 DEF Sounds, P!Active
<1>8. \A v \in P!Voices : Sounds(v) => note'[v] = note[v]
  BY <1>2, <1>4 DEF Sounds
<1>9. \A v \in P!Voices : P!Active(v)' => note'[v] = note[v]
  BY <1>4, <1>5 DEF P!Active
<1> QED
  BY <1>3, <1>5, <1>6, <1>7, <1>8, <1>9 DEF VoiceInv, P!Active

LEMMA VoiceStep ==
  ASSUME P!INVALID_NOTE \notin Notes, VoiceInv, [P!Next]_(P!vars) PROVE VoiceInv'
<1>1. CASE P!TurnCutoff \/ P!TurnSustain \/ UNCHANGED P!vars
  BY <1>1 DEF P!TurnCutoff, P!TurnSustain, P!vars, P!voiceVars, VoiceInv, Sounds, P!Active
<1> QED
  BY <1>1, OnStep, OffStep, ProcessStep DEF P!Next, P!Event

\* For every set of MIDI notes and number of voices, and however the tick falls, gates
\* are open for exactly the notes held that found a voice (process_note_event and
\* voice_manager.c).
THEOREM NoNoteSticks ==
  ASSUME Notes \subseteq 0 .. 127 PROVE AppSpec => []NoStuckNote
<1>1. P!INVALID_NOTE \notin Notes
  BY DEF P!INVALID_NOTE
<1>2. P!Init => VoiceInv
  BY <1>1, VoiceInit
<1>3. VoiceInv /\ [P!Next]_(P!vars) => VoiceInv'
  BY <1>1, VoiceStep
<1>4. VoiceInv => NoStuckNote
  <2> SUFFICES ASSUME VoiceInv PROVE NoStuckNote
    OBVIOUS
  <2>1. \A v, w \in P!Voices : P!Active(v) /\ note[v] = note[w] => v = w
    BY DEF VoiceInv
  <2>2. \A v \in P!Voices : gate[v] => note[v] \in held \ unvoiced
    BY DEF VoiceInv
  <2>3. \A n \in held \ unvoiced : \E v \in P!Voices : note[v] = n /\ gate[v]
    BY DEF VoiceInv
  <2>4. {note[v] : v \in {w \in P!Voices : gate[w]}} = held \ unvoiced
    BY <2>2, <2>3
  <2> QED
    BY <2>1, <2>4 DEF NoStuckNote, P!NoStuckNote
<1> QED
  BY <1>2, <1>3, <1>4, RunsPolysynth, PTL DEF P!Spec

-----------------------------------------------------------------------------
(* Polysynth: the cutoff.                                                  *)

\* What was last sent is what the DSP has, once it was sent anything but zero.
CutoffInv ==
  /\ DOMAIN sent = P!Voices /\ DOMAIN dspCutoff = P!Voices
  /\ \A v \in P!Voices : sent[v] # 0 => dspCutoff[v] = sent[v]

LEMMA CutoffStep == ASSUME CutoffInv, [P!Next]_(P!vars) PROVE CutoffInv'
<1>1. CASE P!Process
  BY <1>1 DEF P!Process, P!SendCutoffs, CutoffInv
<1>2. CASE ~P!Process
  <2>1. UNCHANGED <<sent, dspCutoff>>
    BY <1>2 DEF P!Next, P!Event, P!TurnCutoff, P!TurnSustain, P!NoteOn, P!NoteOff, P!vars
  <2> QED
    BY <2>1 DEF CutoffInv
<1> QED
  BY <1>1, <1>2

\* Skipping the voices that are not in use leaves none that sounds at another cutoff
\* than the knob's (module_process against _cv_update's cache).
THEOREM CutoffFollowsKnob == AppSpec => CutoffTracks
<1>1. P!Init => CutoffInv
  BY DEF P!Init, CutoffInv
<1>2. ASSUME CutoffInv, P!Process, cutoff # 0,
             NEW v \in P!Voices, note'[v] # P!INVALID_NOTE
      PROVE  dspCutoff'[v] = cutoff
  <2>1. v \in P!Filtered
    BY <1>2 DEF P!Process, P!StepVoices, P!Filtered, P!Active
  <2> QED
    BY <1>2, <2>1 DEF P!Process, P!SendCutoffs, CutoffInv
<1>3. CutoffInv =>
        [P!Process => \A v \in P!Voices : note'[v] # P!INVALID_NOTE /\ cutoff # 0
                                      => dspCutoff'[v] = cutoff]_(P!vars)
  BY <1>2
<1> QED
  BY <1>1, CutoffStep, <1>3, RunsPolysynth, PTL DEF P!Spec, CutoffTracks, P!CutoffTracks

-----------------------------------------------------------------------------
(* wave3 on the user tick: the autosampler.                                *)

\* A note is on or has been, and is followed by the next or by the end.
Played == running /\ current >= 0

\* The callbacks since the first note on.
Elapsed == current * time + timer

\* A tick whose callback is still to come.
Pend == IF running /\ (pc = "callback" \/ (pc = "other" /\ flag = TRUE)) THEN 1 ELSE 0

\* Undisturbed, the key down is that of the note being played, until its tail.
AutoInv ==
  /\ disturbed \in BOOLEAN /\ recording \in BOOLEAN /\ open \in BOOLEAN
  /\ running \in BOOLEAN
  /\ scale \in Nat \ {0}
  /\ app # "wave3" => ~running
  /\ ~disturbed =>
       /\ time \in Nat /\ timer \in Int /\ current \in -1 .. Steps /\ index \in Nat
       /\ ~running => keys = {}
       /\ running => recording /\ current < Steps /\ time > TailTime /\ length = time
       /\ running /\ current = -1 => keys = {}
       /\ Played => /\ timer \in 0 .. time - 1
                    /\ keys = IF timer < time - TailTime THEN {current} ELSE {}

\* The steps of the autosampler, the synthesizer and the recording: a millisecond of
\* the DSP with each tick, the callback at its end, a button, or none.
SamplerStep ==
  \/ UNCHANGED samplerVars /\ Pend' = Pend
  \/ app = "wave3" /\ A!Frame /\ Pend' \in {Pend, Pend + 1}
  \/ app = "wave3" /\ A!EveryMs /\ (running => Pend = 1) /\ Pend' = 0
  \/ app = "wave3" /\ A!Record
  \/ app = "wave3" /\ (A!Stop \/ A!SetQuality) /\ Pend' = Pend

LEMMA SamplerSteps ==
  ASSUME AutoInv, [AppNext]_<<vars, app, appVars>> PROVE app' = app /\ SamplerStep
<1>1. CASE UNCHANGED <<vars, app, appVars>>
  BY <1>1 DEF appVars, samplerVars, vars, Pend, SamplerStep
<1>2. CASE AppNext /\ app # "wave3"
  <2>1. UNCHANGED samplerVars /\ app' = app
    BY <1>2 DEF AppNext, Polysynth, Wave3
  <2>2. running = FALSE
    BY <1>2 DEF AutoInv
  <2>3. running' = running
    BY <2>1 DEF samplerVars
  <2> QED BY <2>1, <2>2, <2>3 DEF SamplerStep, Pend
<1>3. CASE AppNext /\ app = "wave3"
  <2>1. Wave3 /\ app' = app
    BY <1>3 DEF AppNext, Polysynth
  <2>2. CASE StartCallback /\ UNCHANGED samplerVars
    <3>1. pc = "other" /\ flag = TRUE /\ pc' = "callback" /\ running' = running
      BY <2>2 DEF StartCallback, samplerVars
    <3> QED BY <2>1, <2>2, <3>1 DEF SamplerStep, Pend
  <2>3. CASE Clear /\ UNCHANGED samplerVars
    <3>1. pc = "clear" /\ flag' = FALSE /\ pc' = "other" /\ running' = running
      BY <2>3 DEF Clear, samplerVars
    <3> QED BY <2>1, <2>3, <3>1 DEF SamplerStep, Pend
  <2>4. CASE Tick /\ A!Frame
    <3>1. pc' = pc /\ running' = running /\ flag' \in {flag, TRUE}
      BY <2>4 DEF Tick, A!Frame, A!Place, A!autoVars
    <3>2. flag' = flag => Pend' = Pend
      BY <3>1 DEF Pend
    <3>3. flag' = TRUE => Pend \in {0, 1} /\ Pend' \in {0, 1} /\ (Pend = 1 => Pend' = 1)
      BY <3>1 DEF Pend
    <3>4. Pend' \in {Pend, Pend + 1}
      <4>1. CASE flag' = flag
        BY <3>2, <4>1
      <4>2. CASE flag' = TRUE
        <5>1. Pend = 0 \/ (Pend = 1 /\ Pend' = 1)
          BY <3>3, <4>2
        <5> QED BY <3>3, <4>2, <5>1
      <4> QED BY <3>1, <4>1, <4>2
    <3> QED BY <1>3, <2>1, <2>4, <3>4 DEF SamplerStep
  <2>5. CASE EndCallback /\ A!EveryMs
    <3>1. pc = "callback" /\ pc' = "clear"
      BY <2>5 DEF EndCallback
    <3>2. (running => Pend = 1) /\ Pend' = 0
      BY <3>1 DEF Pend
    <3> QED BY <1>3, <2>1, <2>5, <3>2 DEF SamplerStep
  <2>6. CASE A!Record
    BY <1>3, <2>1, <2>6 DEF SamplerStep
  <2>7. CASE A!Stop /\ UNCHANGED vars
    <3>1. pc' = pc /\ flag' = flag /\ running' = running
      BY <2>7 DEF A!Stop, A!autoVars, vars
    <3>2. Pend' = Pend
      BY <3>1 DEF Pend
    <3> QED BY <1>3, <2>1, <2>7, <3>2 DEF SamplerStep
  <2>8. CASE A!SetQuality /\ UNCHANGED vars
    <3>1. pc' = pc /\ flag' = flag /\ running' = running
      BY <2>8 DEF A!SetQuality, A!autoVars, vars
    <3>2. Pend' = Pend
      BY <3>1 DEF Pend
    <3> QED BY <1>3, <2>1, <2>8, <3>2 DEF SamplerStep
  <2> QED BY <2>1, <2>2, <2>3, <2>4, <2>5, <2>6, <2>7, <2>8 DEF Wave3
<1> QED
  BY <1>1, <1>2, <1>3

LEMMA AutoInit == AppInit => AutoInv
<1> SUFFICES ASSUME AppInit PROVE AutoInv
  OBVIOUS
<1>1. /\ time = 0 /\ timer = 0 /\ current = 0 /\ running = FALSE /\ recording = FALSE
      /\ open = FALSE /\ index = 0 /\ keys = {} /\ disturbed = FALSE
      /\ scale = 1 /\ scale \in Nat \ {0}
  BY DEF AppInit, A!Init
<1>2. 0 \in Nat /\ 0 \in Int /\ 0 \in -1 .. Steps /\ 0 # -1
  BY SamplerAssumption DEF SamplerAssumption
<1>3. /\ disturbed \in BOOLEAN /\ recording \in BOOLEAN /\ open \in BOOLEAN
      /\ running \in BOOLEAN /\ ~running /\ ~Played
  BY <1>1 DEF Played
<1>4. time \in Nat /\ timer \in Int /\ current \in -1 .. Steps /\ index \in Nat
  BY <1>1, <1>2
<1> QED BY <1>1, <1>3, <1>4, Zenon DEF AutoInv

LEMMA AutoStep ==
  ASSUME AutoInv, SamplerStep, app' = app PROVE AutoInv'
<1> USE SamplerAssumption DEF SamplerAssumption, AutoInv, Played
<1>1. CASE UNCHANGED samplerVars
  BY <1>1 DEF samplerVars
<1>2. CASE A!Frame
  <2>1. /\ UNCHANGED <<time, timer, current, running, recording, scale, length, keys>>
        /\ (disturbed => disturbed') /\ disturbed' \in BOOLEAN /\ open' \in BOOLEAN
        /\ index' \in {index, index + 1}
    BY <1>2 DEF A!Frame, A!Place, A!autoVars
  <2> QED BY <2>1
<1>3. CASE A!EveryMs /\ app = "wave3"
  <2>1. UNCHANGED <<time, recording, open, scale, index, length, disturbed>>
    BY <1>3 DEF A!EveryMs, A!dspVars
  <2>2. CASE ~running
    BY <1>3, <2>1, <2>2 DEF A!EveryMs
  <2>3. CASE running /\ A!NextNote
    <3>1. /\ timer + 1 >= time /\ timer' = 0 /\ current' = current + 1
          /\ running' = (current + 1 < Steps)
          /\ keys' = IF running' THEN keys \cup {current + 1} ELSE keys
      BY <2>3 DEF A!NextNote, A!NoteOn
    <3> SUFFICES ASSUME ~disturbed PROVE AutoInv'
      BY <1>3, <2>1, <2>3, <3>1
    <3>2. keys = {}
      <4>1. CASE current = -1
        BY <2>3, <4>1
      <4>2. CASE current # -1
        <5>1. current >= 0
          BY <4>2
        <5>2. ~(timer < time - TailTime)
          BY <2>3, <3>1, <5>1
        <5> QED BY <2>3, <5>1, <5>2
      <4> QED BY <4>1, <4>2
    <3>3. current' \in 0 .. Steps /\ current' \in -1 .. Steps /\ (running' => current' < Steps)
      BY <2>3, <3>1
    <3>4. running' => keys' = {current'}
      BY <3>1, <3>2
    <3>5. ~running' => keys' = {}
      BY <3>1, <3>2
    <3>6. timer' \in 0 .. time' - 1 /\ timer' < time' - TailTime
      BY <2>1, <2>3, <3>1
    <3>7. current' # -1
      BY <3>3
    <3>8. /\ running' \in BOOLEAN /\ disturbed' \in BOOLEAN /\ recording' \in BOOLEAN
          /\ open' \in BOOLEAN /\ recording' /\ app' = "wave3"
      BY <1>3, <2>1, <2>3, <3>1
    <3>9. time' \in Nat /\ timer' \in Int /\ index' \in Nat /\ time' > TailTime /\ length' = time'
      BY <2>1, <2>3, <3>1
    <3>10. Played' => running'
      OBVIOUS
    <3>11. scale' \in Nat \ {0}
      BY <2>1
    <3> HIDE DEF Played
    <3> QED BY <3>11, <3>3, <3>4, <3>5, <3>6, <3>7, <3>8, <3>9, <3>10
  <2>4. CASE running /\ A!Count
    <3>1. /\ timer + 1 < time /\ timer' = timer + 1 /\ UNCHANGED <<current, running>>
          /\ keys' = IF timer + 1 = time - TailTime THEN keys \ {current} ELSE keys
      BY <2>4 DEF A!Count, A!NoteOff
    <3>2. ~disturbed /\ current = -1 => keys' = {}
      BY <2>4, <3>1
    <3>3. ASSUME ~disturbed, current >= 0
          PROVE  keys' = IF timer + 1 < time - TailTime THEN {current} ELSE {}
      <4>1. /\ timer \in 0 .. time - 1
            /\ keys = IF timer < time - TailTime THEN {current} ELSE {}
        BY <2>4, <3>3
      <4>2. CASE timer + 1 = time - TailTime
        BY <3>1, <4>1, <4>2
      <4>3. CASE timer + 1 # time - TailTime
        <5>1. timer + 1 < time - TailTime <=> timer < time - TailTime
          BY <3>3, <4>1, <4>3
        <5> QED BY <3>1, <4>1, <4>3, <5>1
      <4> QED BY <4>2, <4>3
    <3> QED BY <1>3, <2>1, <2>4, <3>1, <3>2, <3>3
  <2> QED BY <1>3, <2>2, <2>3, <2>4 DEF A!EveryMs
<1>4. CASE A!Record /\ app = "wave3"
  <2>1. PICK chosen \in Times :
          /\ ~disturbed /\ recording' = TRUE /\ open' = FALSE /\ index' = 0
          /\ timer' = time - Lead /\ time' = chosen /\ current' = -1 /\ running' = TRUE
          /\ length' = chosen /\ disturbed' = (disturbed \/ running \/ chosen <= TailTime)
          /\ keys' = keys /\ scale' = scale
    BY <1>4 DEF A!Record
  <2>2. ~disturbed' => keys' = {} /\ chosen > TailTime
    <3>1. ~disturbed' => ~running /\ ~(chosen <= TailTime)
      BY <2>1
    <3>2. chosen \in Nat
      OBVIOUS
    <3> QED BY <2>1, <3>1, <3>2
  <2>3. disturbed' \in BOOLEAN /\ chosen \in Nat /\ timer' \in Int
    BY <2>1
  <2>4. -1 \in -1 .. Steps /\ (0 < Steps \/ 0 = Steps)
    OBVIOUS
  <2>5. ~Played'
    BY <2>1
  <2>6. /\ recording' /\ open' \in BOOLEAN /\ running' \in BOOLEAN
        /\ recording' \in BOOLEAN
    BY <2>1
  <2>7. -1 < Steps
    OBVIOUS
  <2>8. index' \in Nat
    BY <2>1
  <2>9. scale' \in Nat \ {0}
    BY <2>1
  <2> SUFFICES ASSUME ~disturbed' PROVE AutoInv'
    BY <1>4, <2>3, <2>6, <2>9
  <2> HIDE DEF Played
  <2> QED BY <1>4, <2>1, <2>2, <2>3, <2>4, <2>5, <2>6, <2>7, <2>8, <2>9
<1>5. CASE A!Stop
  <2>1. /\ ~disturbed /\ recording' = FALSE /\ disturbed' = (disturbed \/ running)
        /\ UNCHANGED <<time, timer, current, running, open, scale, index, length, keys>>
    BY <1>5 DEF A!Stop, A!autoVars
  <2> QED BY <2>1
<1>6. CASE A!SetQuality
  <2>1. /\ UNCHANGED <<time, timer, current, running, recording, open, index, length>>
        /\ UNCHANGED <<keys, disturbed>> /\ scale' \in Scales
    BY <1>6 DEF A!SetQuality, A!autoVars
  <2>2. scale' \in Nat \ {0}
    BY <2>1
  <2> QED BY <2>1, <2>2
<1> QED
  BY <1>1, <1>2, <1>3, <1>4, <1>5, <1>6 DEF SamplerStep

LEMMA AutoAlways == AppSpec => []AutoInv
BY AutoInit, AutoStep, SamplerSteps, PTL DEF AppSpec

\* For every number of notes, recording time and tail, undisturbed, the autosampler
\* plays one note at a time and leaves none on (AUTOSAMPLER_call_every_ms).
THEOREM OneNoteAtATime == AppSpec => []OneNote
<1>1. ASSUME AutoInv PROVE OneNote
  <2> SUFFICES ASSUME ~disturbed PROVE (\A m, n \in keys : m = n) /\ (~running => keys = {})
    BY DEF OneNote, A!OneNote
  <2>1. keys = {} \/ keys = {current}
    BY <1>1 DEF AutoInv, Played
  <2> QED BY <1>1, <2>1 DEF AutoInv
<1> QED
  BY <1>1, AutoAlways, PTL

-----------------------------------------------------------------------------
(* wave3 on the user tick: the slots of the recording.                     *)

\* The key of the note being played is up in its tail only, and what still sounds of
\* it then has run out by the time the note is over.
FadeInv ==
  /\ fading \in [A!Synth -> Nat]
  /\ ~disturbed =>
       /\ ~Played => \A n \in A!Synth : fading[n] = 0
       /\ Played =>
            /\ \A n \in A!Synth : n # current => fading[n] = 0
            /\ timer < time - TailTime => fading[current] = 0
            /\ fading[current] > 0 =>
                 fading[current] + (timer - (time - TailTime)) + Pend <= Release

LEMMA PendBit == Pend \in {0, 1} /\ (~running => Pend = 0)
BY DEF Pend

LEMMA FadeInit == AppInit => FadeInv
BY DEF AppInit, A!Init, FadeInv, Played, A!Synth

\* Release < TailTime: the code's tail is 500 ms, and with a synthesizer that sounds
\* longer than the tail no recording is clean.
LEMMA FadeStep ==
  ASSUME Release < TailTime, AutoInv, FadeInv, SamplerStep PROVE FadeInv'
<1> USE SamplerAssumption DEF SamplerAssumption
<1>0. Pend \in {0, 1} /\ Pend' \in {0, 1}
  BY PendBit DEF Pend
<1>1. CASE UNCHANGED samplerVars /\ Pend' = Pend
  BY <1>1 DEF samplerVars, FadeInv, Played
<1>2. CASE A!Frame /\ Pend' \in {Pend, Pend + 1}
  <2>1. /\ UNCHANGED <<time, timer, current, running>>
        /\ (disturbed => disturbed')
        /\ fading' = [n \in A!Synth |-> IF fading[n] > 0 THEN fading[n] - 1 ELSE 0]
    BY <1>2 DEF A!Frame, A!Place, A!autoVars, AutoInv
  <2>2. fading' \in [A!Synth -> Nat]
    BY <2>1 DEF FadeInv
  <2>3. \A n \in A!Synth : /\ fading[n] = 0 => fading'[n] = 0
                           /\ fading'[n] > 0 => fading[n] > 0 /\ fading'[n] + 1 = fading[n]
    BY <2>1 DEF FadeInv
  <2> SUFFICES ASSUME ~disturbed' PROVE FadeInv'
    BY <2>2 DEF FadeInv
  <2>4. CASE ~Played
    BY <2>1, <2>2, <2>3, <2>4 DEF FadeInv, Played
  <2>5. CASE Played
    <3>1. Played' /\ current \in A!Synth /\ timer \in Int /\ time \in Int
      BY <2>1, <2>5 DEF Played, AutoInv, A!Synth
    <3>2. \A n \in A!Synth : n # current' => fading'[n] = 0
      BY <2>1, <2>3, <2>5 DEF FadeInv
    <3>3. timer' < time' - TailTime => fading'[current'] = 0
      BY <2>1, <2>3, <2>5, <3>1 DEF FadeInv
    <3>4. ASSUME fading'[current'] > 0
          PROVE  fading'[current'] + (timer' - (time' - TailTime)) + Pend' <= Release
      <4>1. /\ fading[current] > 0 /\ fading'[current'] + 1 = fading[current]
            /\ fading[current] + (timer - (time - TailTime)) + Pend <= Release
        BY <2>1, <2>3, <2>5, <3>1, <3>4 DEF FadeInv
      <4>2. fading[current] \in Nat /\ fading'[current'] \in Nat
        BY <2>1, <2>2, <3>1 DEF FadeInv
      <4>3. Pend' <= Pend + 1
        BY <1>0, <1>2
      <4> QED BY <1>0, <2>1, <3>1, <4>1, <4>2, <4>3
    <3> QED BY <2>2, <3>1, <3>2, <3>3, <3>4 DEF FadeInv
  <2> QED BY <2>4, <2>5
<1>3. CASE A!EveryMs /\ (running => Pend = 1) /\ Pend' = 0
  <2>1. UNCHANGED <<time, disturbed>>
    BY <1>3 DEF A!EveryMs
  <2>2. CASE ~running
    BY <1>3, <2>1, <2>2 DEF A!EveryMs, FadeInv, Played
  <2>3. CASE running /\ A!NextNote
    <3>1. /\ timer + 1 >= time /\ timer' = 0 /\ current' = current + 1 /\ fading' = fading
      BY <2>3 DEF A!NextNote, A!NoteOn
    <3>0. ~disturbed => current' \in A!Synth
      BY <2>3, <3>1 DEF AutoInv, A!Synth
    <3> SUFFICES ASSUME ~disturbed PROVE \A n \in A!Synth : fading[n] = 0
      BY <2>1, <3>1, <3>0 DEF FadeInv
    <3>2. CASE ~Played
      BY <3>2 DEF FadeInv
    <3>3. CASE Played
      <4>1. current \in A!Synth /\ time \in Nat /\ timer \in 0 .. time - 1 /\ Pend = 1
        BY <1>3, <2>3, <3>3 DEF AutoInv, A!Synth
      <4>2. ~(fading[current] > 0)
        <5>1. SUFFICES ASSUME fading[current] > 0 PROVE FALSE
          OBVIOUS
        <5>2. fading[current] + (timer - (time - TailTime)) + Pend <= Release
          BY <3>3, <5>1 DEF FadeInv
        <5> QED BY <3>1, <4>1, <5>1, <5>2 DEF FadeInv
      <4>3. fading[current] = 0
        BY <4>1, <4>2 DEF FadeInv
      <4> QED BY <3>3, <4>3 DEF FadeInv
    <3> QED BY <3>2, <3>3
  <2>4. CASE running /\ A!Count
    <3>1. /\ timer' = timer + 1 /\ current' = current /\ running' = running
          /\ fading' = IF timer + 1 = time - TailTime /\ current \in keys
                         THEN [fading EXCEPT ![current] = Release] ELSE fading
      BY <2>4 DEF A!Count, A!NoteOff
    <3>2. fading' \in [A!Synth -> Nat]
      BY <3>1 DEF FadeInv
    <3> SUFFICES ASSUME ~disturbed PROVE FadeInv'
      BY <2>1, <3>2 DEF FadeInv
    <3>3. CASE ~Played
      <4>1. keys = {} /\ ~Played'
        BY <2>4, <3>1, <3>3 DEF AutoInv, Played
      <4> QED BY <3>1, <3>2, <3>3, <4>1 DEF FadeInv
    <3>4. CASE Played
      <4>1. /\ current \in A!Synth /\ time \in Nat /\ timer \in 0 .. time - 1 /\ Pend = 1
            /\ keys = IF timer < time - TailTime THEN {current} ELSE {}
        BY <1>3, <2>4, <3>4 DEF AutoInv, A!Synth
      <4>2. Played'
        BY <3>1, <3>4 DEF Played
      <4>3. \A n \in A!Synth : n # current' => fading'[n] = 0
        BY <3>1, <3>4 DEF FadeInv
      <4>4. CASE timer + 1 = time - TailTime
        <5>1. fading'[current'] = Release
          BY <3>1, <4>1, <4>4 DEF FadeInv
        <5>2. ~(timer' < time' - TailTime)
          BY <2>1, <3>1, <4>1, <4>4
        <5>3. fading'[current'] + (timer' - (time' - TailTime)) + Pend' <= Release
          BY <1>3, <2>1, <3>1, <4>1, <4>4, <5>1
        <5> QED BY <3>2, <4>2, <4>3, <5>2, <5>3 DEF FadeInv
      <4>5. CASE timer + 1 # time - TailTime
        <5>1. fading' = fading
          BY <3>1, <4>5
        <5>2. timer' < time' - TailTime => fading'[current'] = 0
          BY <2>1, <3>1, <3>4, <4>1, <5>1 DEF FadeInv
        <5>3. ASSUME fading'[current'] > 0
              PROVE  fading'[current'] + (timer' - (time' - TailTime)) + Pend' <= Release
          <6>1. fading[current] + (timer - (time - TailTime)) + Pend <= Release
            BY <3>1, <3>4, <5>1, <5>3 DEF FadeInv
          <6>2. fading[current] \in Nat /\ fading'[current'] = fading[current]
            BY <3>1, <4>1, <5>1 DEF FadeInv
          <6> QED BY <1>3, <2>1, <3>1, <4>1, <6>1, <6>2
        <5> QED BY <3>2, <4>2, <4>3, <5>2, <5>3 DEF FadeInv
      <4> QED BY <4>4, <4>5
    <3> QED BY <3>3, <3>4
  <2> QED BY <1>3, <2>2, <2>3, <2>4 DEF A!EveryMs
<1>4. CASE A!Record
  <2>1. /\ current' = -1 /\ fading' = fading /\ (~disturbed' => ~disturbed /\ ~running)
    BY <1>4 DEF A!Record, AutoInv
  <2>2. ~Played' /\ (~running => ~Played)
    BY <2>1 DEF Played
  <2> QED BY <2>1, <2>2 DEF FadeInv
<1>5. CASE A!Stop
  <2>1. /\ UNCHANGED <<current, running, fading>>
        /\ (~disturbed' => ~disturbed /\ ~running)
    BY <1>5 DEF A!Stop, A!autoVars, AutoInv
  <2> QED BY <2>1 DEF FadeInv, Played
<1>6. CASE A!SetQuality /\ Pend' = Pend
  <2>1. UNCHANGED <<time, timer, current, running, fading, disturbed>>
    BY <1>6 DEF A!SetQuality, A!autoVars
  <2>2. A!Synth' = A!Synth /\ Played' = Played
    BY <2>1 DEF A!Synth, Played
  <2> QED BY <1>6, <2>1, <2>2 DEF FadeInv
<1> QED
  BY <1>1, <1>2, <1>3, <1>4, <1>5, <1>6 DEF SamplerStep

\* Every sample at its place so far is of the note in whose time it is: SlotsPure.
Slots ==
  uniform =>
    \A i \in 0 .. Steps - 1, p \in 0 .. A!MaxIndex :
      p * scale <= index /\ 1 <= A!At(p) /\ length * i <= A!At(p) /\ A!At(p) < length * (i + 1)
        => memory[p] \subseteq {i}

\* The place of sample x, when s of them share one.
LEMMA PlaceArith ==
  ASSUME NEW x \in Nat, NEW s \in Nat \ {0}
  PROVE  x \div s \in Nat /\ (x \div s) * s <= x /\ x < (x \div s + 1) * s
OBVIOUS

\* The places before it are full.
LEMMA FullArith ==
  ASSUME NEW x \in Nat, NEW s \in Nat \ {0}, NEW q \in Nat, NEW p \in Nat,
         q * s <= x + 1, x + 1 < (q + 1) * s, p * s <= x + 1, p # q
  PROVE  p * s <= x /\ (p + 1) * s - 1 <= x
<1>1. p * s \in Nat /\ q * s \in Nat /\ (p + 1) * s = p * s + s
  OBVIOUS
<1>2. CASE p > q
  <2>1. PICK e \in Nat : p = q + 1 + e
    <3>1. p - q - 1 \in Nat /\ p = q + 1 + (p - q - 1)
      BY <1>2
    <3> QED BY <3>1
  <2>2. p * s = (q + 1) * s + e * s /\ e * s \in Nat /\ (q + 1) * s \in Nat
    BY <2>1
  <2> QED BY <2>2
<1>3. CASE p < q
  <2>1. PICK e \in Nat : q = p + 1 + e
    <3>1. q - p - 1 \in Nat /\ q = p + 1 + (q - p - 1)
      BY <1>3
    <3> QED BY <3>1
  <2>2. q * s = (p + 1) * s + e * s /\ e * s \in Nat
    BY <2>1
  <2>3. (p + 1) * s <= x + 1
    BY <1>1, <2>2
  <2> QED BY <1>1, <2>3
<1> QED BY <1>2, <1>3

\* The recording is never behind the callbacks, and is open once it is ahead of the
\* first of them; with a tick pending, what it is ahead by is not yet missed.
RecInv ==
  ~disturbed =>
    /\ DOMAIN memory = 0 .. A!MaxIndex
    /\ running /\ current = -1 =>
         ~open /\ index = 0 /\ \A k \in 0 .. A!MaxIndex : memory[k] = {}
    /\ Played => index >= Elapsed + Pend /\ (index >= 1 => open)
    /\ A!Missed - Pend + Release < TailTime => Slots

\* What is recorded d samples after note c began, for d less than two notes, is in
\* its slot or in the next one's.
LEMMA SlotArith ==
  ASSUME NEW T \in Nat, NEW c \in Nat, NEW d \in Nat, NEW i \in Nat, d < 2 * T,
         T * i <= c * T + d, c * T + d < T * (i + 1)
  PROVE  i = c \/ (i = c + 1 /\ d >= T)
<1>1. CASE i < c
  <2>1. PICK e \in Nat : c = i + 1 + e
    <3>1. c - i - 1 \in Nat /\ c = i + 1 + (c - i - 1)
      BY <1>1
    <3> QED BY <3>1
  <2>2. c * T = T * (i + 1) + e * T /\ e * T \in Nat /\ T * (i + 1) \in Nat
    BY <2>1
  <2> QED BY <2>2
<1>2. CASE i > c + 1
  <2>1. PICK e \in Nat : i = c + 2 + e
    <3>1. i - c - 2 \in Nat /\ i = c + 2 + (i - c - 2)
      BY <1>2
    <3> QED BY <3>1
  <2>2. T * i = c * T + 2 * T + T * e /\ T * e \in Nat /\ c * T \in Nat
    BY <2>1
  <2> QED BY <2>2
<1>3. CASE i = c + 1
  <2>1. T * i = c * T + T /\ c * T \in Nat
    BY <1>3
  <2> QED BY <1>3, <2>1
<1> QED
  BY <1>1, <1>2, <1>3

\* The sample x + 1, recorded t ms into a note that began a samples after the first,
\* with p ticks pending before and q after: when less than the tail L is missed it is
\* in the note's slot or, once the release r is over, in the next.
LEMMA SampleArith ==
  ASSUME NEW x \in Nat, NEW a \in Nat, NEW t \in Nat, NEW T \in Nat, NEW L \in Nat,
         NEW r \in Nat, NEW p \in Nat, NEW q \in Nat,
         q <= 1, p <= q, q <= p + 1, t + 1 <= T, L < T, x >= a + t + p
  PROVE  /\ x + 1 >= a + t + q
         /\ x + 1 - (a + t) - q + r < L =>
              /\ x - (a + t) - p + r < L
              /\ \E d \in Nat :
                   /\ x + 1 = a + d /\ d < 2 * T
                   /\ d >= T => /\ ~(t < T - L)
                               /\ \A f \in Nat : f > 0 => f + (t - (T - L)) + p > r
<1>1. x + 1 >= a + t + q
  OBVIOUS
<1>2. SUFFICES ASSUME x + 1 - (a + t) - q + r < L
               PROVE  /\ x - (a + t) - p + r < L
                      /\ \E d \in Nat :
                           /\ x + 1 = a + d /\ d < 2 * T
                           /\ d >= T => /\ ~(t < T - L)
                                       /\ \A f \in Nat : f > 0 => f + (t - (T - L)) + p > r
  BY <1>1
<1>3. x - (a + t) - p + r < L
  BY <1>2
<1>4. PICK d \in Nat : x + 1 = a + d
  <2>1. x + 1 - a \in Nat /\ x + 1 = a + (x + 1 - a)
    OBVIOUS
  <2> QED BY <2>1
<1>5. d < 2 * T
  BY <1>2, <1>4
<1>6. ASSUME d >= T PROVE ~(t < T - L)
  BY <1>2, <1>4, <1>6
<1>7. ASSUME d >= T, NEW f \in Nat, f > 0 PROVE f + (t - (T - L)) + p > r
  BY <1>2, <1>4, <1>7
<1> QED
  BY <1>3, <1>4, <1>5, <1>6, <1>7

LEMMA RecInit == AppInit => RecInv
<1> SUFFICES ASSUME AppInit PROVE RecInv
  OBVIOUS
<1>1. running = FALSE /\ memory = [k \in 0 .. A!MaxIndex |-> {}]
  BY DEF AppInit, A!Init
<1> QED BY <1>1 DEF RecInv, Slots, Played

LEMMA RecSame ==
  ASSUME RecInv, UNCHANGED <<time, timer, current, running, open, index, memory, length>>,
         UNCHANGED <<scale, uniform>>, ~disturbed' => ~disturbed, Pend' = Pend
  PROVE  RecInv'
<1>1. A!Missed' = A!Missed /\ Slots' = Slots /\ Played' = Played /\ Elapsed' = Elapsed
  BY DEF A!Missed, Slots, A!At, Played, Elapsed
<1> QED BY <1>1 DEF RecInv

\* A millisecond of the DSP.  Of a note being played, the sample goes to its slot or,
\* when nothing is heard, possibly to the next.
LEMMA RecFrame ==
  ASSUME Release < TailTime, AutoInv, FadeInv, RecInv, A!Frame, Pend' \in {Pend, Pend + 1}
  PROVE  RecInv'
<1>0. Pend \in {0, 1} /\ Pend' \in {0, 1}
  BY PendBit DEF Pend
<1>1. /\ UNCHANGED <<time, timer, current, running, recording, scale, length, uniform, keys>>
      /\ (~disturbed' => ~disturbed)
      /\ open' = (open \/ (recording /\ A!Heard # {}))
  BY DEF A!Frame, A!Place, A!autoVars, AutoInv
<1> SUFFICES ASSUME ~disturbed' PROVE RecInv'
  BY DEF RecInv
<1>2. ~disturbed
  BY <1>1
<1>3. CASE ~(recording /\ open' /\ running)
  <2>1. UNCHANGED <<index, memory>>
    BY <1>3 DEF A!Frame, A!Place
  <2>2. A!Missed' = A!Missed /\ Slots' = Slots /\ Played' = Played /\ Elapsed' = Elapsed
    BY <1>1, <2>1 DEF A!Missed, Slots, A!At, Played, Elapsed
  <2>3. CASE ~running
    <3>1. Pend' = 0 /\ Pend = 0 /\ ~Played
      BY <1>1, <2>3 DEF Pend, Played
    <3> QED BY <1>1, <1>2, <2>1, <2>2, <2>3, <3>1 DEF RecInv
  <2>4. CASE running /\ current = -1
    <3>1. /\ A!Heard = {} /\ open' = open
      BY <1>1, <1>2, <2>4 DEF A!Heard, AutoInv, FadeInv, Played
    <3>2. Slots' /\ ~Played'
      BY <1>1, <1>2, <2>1, <2>4 DEF Slots, RecInv, Played
    <3> QED BY <1>1, <1>2, <2>1, <2>4, <3>1, <3>2 DEF RecInv
  <2>5. CASE Played
    <3>1. recording /\ ~open' /\ ~open /\ A!Heard = {}
      BY <1>1, <1>2, <1>3, <2>5 DEF AutoInv, Played
    <3>2. index = 0 /\ keys = {}
      BY <1>2, <2>5, <3>1 DEF RecInv, AutoInv, A!Heard
    <3>3. /\ current \in Nat /\ time \in Nat /\ timer \in Nat /\ timer >= time - TailTime
          /\ time > TailTime /\ TailTime \in Nat
      BY <1>2, <2>5, <3>2, SamplerAssumption DEF AutoInv, Played, SamplerAssumption
    <3>4. index >= Elapsed + Pend
      BY <1>2, <2>5 DEF RecInv
    <3>5. current * time \in Nat
      BY <3>3
    <3>6. FALSE
      BY <1>0, <3>2, <3>3, <3>4, <3>5 DEF Elapsed
    <3> QED BY <3>6
  <2> QED BY <1>2, <2>3, <2>4, <2>5 DEF AutoInv, Played
<1>4. CASE recording /\ open' /\ running
  <2>1. /\ index' = index + 1
        /\ memory' = [memory EXCEPT ![(index + 1) \div scale] = A!Heard]
    BY <1>4 DEF A!Frame, A!Place
  <2>2. current # -1
    <3>1. SUFFICES ASSUME current = -1 PROVE FALSE
      OBVIOUS
    <3>2. A!Heard = {} /\ ~open
      BY <1>2, <1>4, <3>1 DEF A!Heard, AutoInv, FadeInv, Played, RecInv
    <3> QED BY <1>1, <1>4, <3>2
  <2>3. Played /\ Played' /\ running'
    BY <1>1, <1>2, <1>4, <2>2 DEF AutoInv, Played
  <2>4. /\ current \in 0 .. Steps /\ time \in Nat /\ timer \in 0 .. time - 1 /\ index \in Nat
        /\ time > TailTime /\ length = time
        /\ keys = IF timer < time - TailTime THEN {current} ELSE {}
    BY <1>2, <1>4, <2>3 DEF AutoInv, Played
  <2>5. DOMAIN memory' = 0 .. A!MaxIndex /\ DOMAIN memory = 0 .. A!MaxIndex
    BY <1>2, <2>1 DEF RecInv
  <2>6. PICK a \in Nat : a = current * time
    BY <2>4
  <2>7. Elapsed = a + timer /\ Elapsed' = a + timer
    BY <1>1, <2>6 DEF Elapsed
  <2>8. /\ timer \in Nat /\ timer + 1 <= time /\ TailTime < time /\ TailTime \in Nat
        /\ time \in Nat /\ index \in Nat /\ Release \in Nat
    BY <2>4, SamplerAssumption DEF SamplerAssumption
  <2>9. /\ Pend \in Nat /\ Pend' \in Nat /\ Pend' <= 1 /\ Pend <= Pend' /\ Pend' <= Pend + 1
    BY <1>0
  <2>10. A!Missed = index - (a + timer) /\ A!Missed' = index + 1 - (a + timer)
    <3>1. A!Missed = index - Elapsed /\ A!Missed' = index' - Elapsed'
      BY DEF A!Missed, Elapsed
    <3> QED BY <2>1, <2>7, <2>8, <3>1
  <2>11. index >= a + timer + Pend
    BY <1>2, <2>3, <2>7 DEF RecInv
  <2>12. /\ index + 1 >= a + timer + Pend'
         /\ index + 1 - (a + timer) - Pend' + Release < TailTime =>
              /\ index - (a + timer) - Pend + Release < TailTime
              /\ \E d \in Nat :
                   /\ index + 1 = a + d /\ d < 2 * time
                   /\ d >= time =>
                        /\ ~(timer < time - TailTime)
                        /\ \A f \in Nat :
                             f > 0 => f + (timer - (time - TailTime)) + Pend > Release
    <3>1. PICK p \in Nat, q \in Nat : p = Pend /\ q = Pend'
      BY <2>9
    <3>2. q <= 1 /\ p <= q /\ q <= p + 1 /\ index >= a + timer + p
      BY <2>9, <2>11, <3>1
    <3> HIDE DEF Pend
    <3>3. /\ index + 1 >= a + timer + q
          /\ index + 1 - (a + timer) - q + Release < TailTime =>
              /\ index - (a + timer) - p + Release < TailTime
              /\ \E d \in Nat :
                   /\ index + 1 = a + d /\ d < 2 * time
                   /\ d >= time =>
                        /\ ~(timer < time - TailTime)
                        /\ \A f \in Nat : f > 0 => f + (timer - (time - TailTime)) + p > Release
      BY <2>8, <3>2, SampleArith
    <3> QED BY <3>1, <3>3
  <2>13. index' >= Elapsed' + Pend'
    BY <2>1, <2>7, <2>12
  <2>14. ASSUME A!Missed' - Pend' + Release < TailTime PROVE Slots'
    <3>1. index + 1 - (a + timer) - Pend' + Release < TailTime
      <4>1. PICK m \in Int : m = index + 1 - (a + timer)
        BY <2>8
      <4>2. A!Missed' = m
        BY <2>10, <4>1
      <4>3. m - Pend' + Release < TailTime
        BY <2>14, <4>2
      <4>4. PICK q \in Nat : q = Pend'
        BY <2>9
      <4>5. m - q + Release < TailTime
        BY <4>3, <4>4
      <4>6. index + 1 - (a + timer) - q + Release < TailTime
        BY <2>8, <4>1, <4>5
      <4> QED BY <4>4, <4>6
    <3>2. Slots
      BY <1>2, <2>10, <2>12, <3>1 DEF RecInv
    <3>3. PICK d \in Nat :
            /\ index + 1 = a + d /\ d < 2 * time
            /\ d >= time => /\ ~(timer < time - TailTime)
                           /\ \A f \in Nat :
                                f > 0 => f + (timer - (time - TailTime)) + Pend > Release
      BY <2>12, <3>1
    <3>4. A!Heard \subseteq {current}
      BY <1>2, <2>3, <2>4 DEF A!Heard, FadeInv
    <3>5. ASSUME d >= time PROVE A!Heard = {}
      <4>1. keys = {}
        BY <2>4, <3>3, <3>5
      <4>2. ~(fading[current] > 0)
        <5>1. SUFFICES ASSUME fading[current] > 0 PROVE FALSE
          OBVIOUS
        <5>2. fading[current] + (timer - (time - TailTime)) + Pend <= Release
          BY <1>2, <2>3, <5>1 DEF FadeInv
        <5>3. fading[current] \in Nat
          BY <2>4 DEF FadeInv, A!Synth
        <5>4. fading[current] + (timer - (time - TailTime)) + Pend > Release
          BY <3>3, <3>5, <5>1, <5>3
        <5> QED BY <2>8, <2>9, <5>2, <5>3, <5>4
      <4>3. \A n \in A!Synth : ~(fading[n] > 0)
        BY <1>2, <2>3, <4>2 DEF FadeInv
      <4> QED BY <4>1, <4>3 DEF A!Heard
    <3>6. SUFFICES ASSUME uniform, NEW i \in 0 .. Steps - 1, NEW p \in 0 .. A!MaxIndex,
                          p * scale <= index + 1, 1 <= A!At(p)', length * i <= A!At(p)',
                          A!At(p)' < length * (i + 1)
                   PROVE  memory'[p] \subseteq {i}
      BY <1>1, <2>1 DEF Slots, A!MaxIndex
    <3>9. scale \in Nat \ {0} /\ index + 1 \in Nat /\ p \in Nat
      BY <2>4 DEF AutoInv
    <3>10. PICK q \in Nat : q = (index + 1) \div scale
      BY <3>9, PlaceArith
    <3>11. q * scale <= index + 1 /\ index + 1 < (q + 1) * scale
      BY <3>9, <3>10, PlaceArith
    <3>12. memory' = [memory EXCEPT ![q] = A!Heard]
      BY <2>1, <3>10
    <3>13. A!At(p)' = IF (p + 1) * scale - 1 <= index + 1 THEN (p + 1) * scale - 1 ELSE index + 1
      BY <1>1, <2>1 DEF A!At
    <3>7. CASE p = q
      <4> DEFINE k == index + 1
      <4>1. memory'[p] = A!Heard
        BY <2>5, <3>12, <3>7
      <4>3. A!At(p)' = k
        <5>1. PICK z \in Nat : z = (q + 1) * scale
          BY <3>9
        <5> QED BY <3>7, <3>9, <3>11, <3>13, <5>1
      <4>4. length * i <= k /\ k < length * (i + 1)
        BY <3>6, <4>3
      <4>2. i = current \/ (i = current + 1 /\ d >= time)
        <5>1. i \in Nat /\ current \in Nat /\ time \in Nat /\ k = current * time + d
          BY <2>4, <2>6, <3>3
        <5>2. time * i <= current * time + d /\ current * time + d < time * (i + 1)
          BY <2>4, <4>4, <5>1
        <5> QED BY <3>3, <5>1, <5>2, SlotArith
      <4> QED BY <3>4, <3>5, <4>1, <4>2
    <3>8. CASE p # q
      <4>1. p * scale <= index /\ (p + 1) * scale - 1 <= index
        BY <2>4, <3>6, <3>8, <3>9, <3>11, FullArith
      <4>2. A!At(p)' = A!At(p)
        <5>1. PICK z \in Nat : z = (p + 1) * scale
          BY <3>9
        <5> QED BY <2>4, <3>13, <4>1, <5>1 DEF A!At
      <4>3. memory'[p] = memory[p]
        BY <2>5, <3>8, <3>12
      <4> QED BY <3>2, <3>6, <4>1, <4>2, <4>3 DEF Slots
    <3> QED BY <3>7, <3>8
  <2> QED BY <1>1, <1>4, <2>2, <2>5, <2>13, <2>14 DEF RecInv
<1> QED
  BY <1>3, <1>4

\* A callback: the next note starts after exactly record_time callbacks.
LEMMA RecEveryMs ==
  ASSUME AutoInv, RecInv, A!EveryMs, running => Pend = 1, Pend' = 0 PROVE RecInv'
<1>1. UNCHANGED <<time, recording, open, scale, index, memory, length, uniform, disturbed>>
  BY DEF A!EveryMs, A!dspVars
<1>2. Slots' = Slots
  BY <1>1 DEF Slots, A!At, A!MaxIndex
<1> SUFFICES ASSUME ~disturbed PROVE RecInv'
  BY <1>1 DEF RecInv
<1>3. CASE ~running
  <2>1. UNCHANGED <<timer, current, running>> /\ Pend = 0
    BY <1>3, PendBit DEF A!EveryMs
  <2>2. A!Missed' = A!Missed /\ Played' = Played /\ Elapsed' = Elapsed
    BY <1>1, <2>1 DEF A!Missed, Played, Elapsed
  <2> QED BY <1>1, <1>2, <1>3, <2>1, <2>2 DEF RecInv
<1>4. CASE running /\ current = -1
  <2>1. (current' = 0 /\ timer' = 0) \/ (current' = -1 /\ running')
    <3>1. A!NextNote => current' = 0 /\ timer' = 0
      BY <1>4 DEF A!NextNote
    <3>2. A!Count => current' = -1 /\ running'
      BY <1>4 DEF A!Count
    <3> QED BY <1>4, <3>1, <3>2 DEF A!EveryMs
  <2>2. index = 0 /\ (\A k \in 0 .. A!MaxIndex : memory[k] = {}) /\ ~open
    BY <1>4 DEF RecInv
  <2>3. Slots'
    BY <1>2, <2>2 DEF Slots
  <2>4. Played' => Elapsed' = 0
    <3>1. Played' => current' = 0 /\ timer' = 0
      BY <2>1 DEF Played
    <3>2. current' = 0 /\ timer' = 0 => current' * time' + timer' = 0
      BY <1>1, <1>4 DEF AutoInv
    <3> QED BY <3>1, <3>2 DEF Elapsed
  <2>5. current' = -1 => running' /\ ~open' /\ index' = 0
                         /\ \A k \in 0 .. A!MaxIndex : memory'[k] = {}
    BY <1>1, <2>1, <2>2
  <2>6. DOMAIN memory' = 0 .. A!MaxIndex
    BY <1>1 DEF RecInv
  <2>7. Played' => index' >= Elapsed' + Pend' /\ ~(index' >= 1)
    BY <1>1, <2>2, <2>4
  <2> QED BY <2>3, <2>5, <2>6, <2>7 DEF RecInv
<1>5. CASE Played
  <2>1. current \in 0 .. Steps /\ time \in Nat /\ timer \in 0 .. time - 1 /\ index \in Nat
    BY <1>5 DEF AutoInv, Played
  <2>2. Pend = 1 /\ running
    BY <1>5 DEF Played
  <2>3. Elapsed' = Elapsed + 1 /\ current' # -1
    <3>1. CASE A!Count
      <4>1. timer' = timer + 1 /\ current' = current
        BY <3>1 DEF A!Count
      <4>2. PICK a \in Nat : a = current * time
        BY <2>1
      <4> QED BY <1>1, <2>1, <4>1, <4>2 DEF Elapsed
    <3>2. CASE A!NextNote
      <4>1. timer + 1 = time /\ timer' = 0 /\ current' = current + 1
        BY <2>1, <3>2 DEF A!NextNote
      <4>2. (current + 1) * time = current * time + time /\ current * time \in Nat
        BY <2>1
      <4>3. current' * time' + timer' = (current * time + timer) + 1
        BY <1>1, <2>1, <4>1, <4>2
      <4> QED BY <2>1, <4>1, <4>3 DEF Elapsed
    <3> QED BY <2>2, <3>1, <3>2 DEF A!EveryMs
  <2>4. PICK e \in Nat : e = Elapsed
    <3>1. current * time \in Nat
      BY <2>1
    <3> QED BY <2>1, <3>1 DEF Elapsed
  <2>5. index >= e + 1 /\ (index >= 1 => open)
    BY <1>5, <2>2, <2>4 DEF RecInv
  <2>6. index' >= Elapsed' + Pend' /\ (index' >= 1 => open')
    BY <1>1, <2>1, <2>3, <2>4, <2>5
  <2>7. A!Missed' - Pend' = A!Missed - Pend
    <3>1. A!Missed = index - e /\ A!Missed' = index - (e + 1)
      BY <1>1, <2>3, <2>4 DEF A!Missed, Elapsed
    <3> QED BY <2>1, <2>2, <3>1
  <2>8. A!Missed' - Pend' + Release < TailTime => Slots'
    BY <1>2, <2>7 DEF RecInv
  <2>9. DOMAIN memory' = 0 .. A!MaxIndex
    BY <1>1 DEF RecInv
  <2> QED BY <2>3, <2>6, <2>8, <2>9 DEF RecInv
<1> QED
  BY <1>3, <1>4, <1>5 DEF AutoInv, Played

LEMMA RecStep ==
  ASSUME Release < TailTime, AutoInv, FadeInv, RecInv, SamplerStep PROVE RecInv'
<1>1. CASE UNCHANGED samplerVars /\ Pend' = Pend
  BY <1>1, RecSame DEF samplerVars
<1>2. CASE A!Frame /\ Pend' \in {Pend, Pend + 1}
  BY <1>2, RecFrame
<1>3. CASE A!EveryMs /\ (running => Pend = 1) /\ Pend' = 0
  BY <1>3, RecEveryMs
<1>4. CASE A!Record
  <2>1. /\ current' = -1 /\ open' = FALSE /\ index' = 0
        /\ memory' = [k \in 0 .. A!MaxIndex |-> {}]
    BY <1>4 DEF A!Record
  <2>2. Slots' /\ ~Played'
    <3>1. \A p \in 0 .. A!MaxIndex' : memory'[p] = {}
      BY <2>1 DEF A!MaxIndex
    <3> QED BY <2>1, <3>1 DEF Slots, Played
  <2> QED BY <2>1, <2>2 DEF RecInv, A!MaxIndex
<1>5. CASE A!Stop /\ Pend' = Pend
  <2>1. /\ UNCHANGED <<time, timer, current, running, open, index, memory, length>>
        /\ UNCHANGED <<scale, uniform>> /\ (~disturbed' => ~disturbed)
    BY <1>5 DEF A!Stop, A!autoVars
  <2> QED BY <1>5, <2>1, RecSame
<1>6. CASE A!SetQuality /\ Pend' = Pend
  <2>1. /\ UNCHANGED <<time, timer, current, running, open, index, memory, length, disturbed>>
        /\ uniform' = (index = 0)
    BY <1>6 DEF A!SetQuality, A!autoVars
  <2>2. A!Missed' = A!Missed /\ Played' = Played /\ Elapsed' = Elapsed
    BY <2>1 DEF A!Missed, Played, Elapsed
  <2>3. ASSUME ~disturbed PROVE Slots'
    <3>1. SUFFICES ASSUME index' = 0, NEW p \in 0 .. A!MaxIndex, 1 <= A!At(p)' PROVE FALSE
      BY <2>1 DEF Slots, A!MaxIndex
    <3>2. scale' \in Nat \ {0} /\ p \in Nat
      BY <1>6, SamplerAssumption DEF A!SetQuality, SamplerAssumption
    <3>3. PICK s \in Nat : s = scale'
      BY <3>2
    <3>4. A!At(p)' = IF (p + 1) * s - 1 <= 0 THEN (p + 1) * s - 1 ELSE 0
      BY <3>1, <3>3 DEF A!At
    <3>5. (p + 1) * s \in Nat
      <4>1. p + 1 \in Nat
        BY <3>2
      <4>2. \A a, b \in Nat : a * b \in Nat
        OBVIOUS
      <4> QED BY <3>3, <4>1, <4>2
    <3> QED BY <3>1, <3>4, <3>5
  <2> QED BY <1>6, <2>1, <2>2, <2>3 DEF RecInv
<1> QED
  BY <1>1, <1>2, <1>3, <1>4, <1>5, <1>6 DEF SamplerStep

\* For every number of notes, recording time, tail and release shorter than the tail
\* (which is half a second in autosampler.c): with the ticks missed and the release
\* fitting into the tail, what was recorded in the time of a slot is its own note only,
\* and is at its place for any quality that did not change, though the DSP and the autosampler have nothing but time in common.
THEOREM SlotsHoldTheirNote == ASSUME Release < TailTime PROVE AppSpec => []SlotsPure
<1>1. AppInit => AutoInv /\ FadeInv /\ RecInv
  BY AutoInit, FadeInit, RecInit
<1>2. ASSUME AutoInv /\ FadeInv /\ RecInv, [AppNext]_<<vars, app, appVars>>
      PROVE  (AutoInv /\ FadeInv /\ RecInv)'
  BY <1>2, SamplerSteps, AutoStep, FadeStep, RecStep
<1>3. AutoInv /\ RecInv => SlotsPure
  <2> SUFFICES ASSUME AutoInv, RecInv, ~disturbed, uniform, A!Missed + Release < TailTime
               PROVE  Slots
    BY DEF SlotsPure, A!SlotsPure, Slots
  <2>1. A!Missed \in Int
    <3>1. current * time \in Int /\ index \in Int /\ timer \in Int
      BY DEF AutoInv
    <3> QED BY <3>1 DEF A!Missed
  <2>2. A!Missed - Pend + Release < TailTime
    BY <2>1, PendBit, SamplerAssumption DEF SamplerAssumption
  <2> QED BY <2>2 DEF RecInv
<1> QED
  BY <1>1, <1>2, <1>3, PTL DEF AppSpec
=============================================================================
