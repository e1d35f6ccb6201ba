------------------------------ MODULE Polysynth ------------------------------
(***************************************************************************)
(* The polysynth application: process_note_event gives a note a voice      *)
(* (voice_manager.c) and opens its gate; once a tick module_process        *)
(* (module_interface.c) steps every voice's envelope, takes back a voice   *)
(* whose release has become quiet, and sends the DSP what has changed      *)
(* since it last sent it.  Everything runs in the main loop.               *)
(***************************************************************************)
EXTENDS Integers

CONSTANTS
  Notes,      \* MIDI notes and notes of the pads
  MaxVoices,  \* MAX_VOICES: 6
  Peak,       \* levels of an envelope are 0 .. Peak
  Quiet,      \* the level a release must have come down to: 0.3
  Cutoffs     \* cutoff frequencies as control voltages

INVALID_NOTE == 255
Voices == 0 .. MaxVoices - 1
Levels == 0 .. Peak
Stages == {"idle", "attack", "decay", "sustain", "release"}
Unset == -1   \* the DSP's own cutoff, until it is sent another

VARIABLES
  note,            \* of g_voice_manager.voices: INVALID_NOTE where not active
  releasing,       \* ... and in_release_stage
  gate,            \* of g_module: gate
  stage, level,    \* ... amp_env, of which amp_cv.last is the level
  sustain,         \* ... its sustain, one for all
  cutoff,          \* ... filter_cutoff, one for all
  sent,            \* ... filter_cv.last
  dspCutoff,       \* the cutoff of each voice of the DSP's module
  held, unvoiced   \* history: notes last put on; those that found no voice

voiceVars == <<note, releasing, gate, stage>>
vars == <<voiceVars, level, sustain, cutoff, sent, dspCutoff, held, unvoiced>>

\* After app_init, module_init and the DSP's module_init.
Init ==
  /\ note = [v \in Voices |-> INVALID_NOTE]
  /\ releasing = [v \in Voices |-> FALSE] /\ gate = [v \in Voices |-> FALSE]
  /\ stage = [v \in Voices |-> "idle"] /\ level = [v \in Voices |-> 0]
  /\ sustain = Peak /\ cutoff = 0
  /\ sent = [v \in Voices |-> 0] /\ dspCutoff = [v \in Voices |-> Unset]
  /\ held = {} /\ unvoiced = {}

Active(v) == note[v] # INVALID_NOTE
InRelease(v) == Active(v) /\ releasing[v]

-----------------------------------------------------------------------------
\* PARAM_GATE for a voice: gate and envelope on ...
Open(v) ==
  /\ gate' = [gate EXCEPT ![v] = TRUE] /\ stage' = [stage EXCEPT ![v] = "attack"]

\* ... and off.
Close(v) ==
  /\ gate' = [gate EXCEPT ![v] = FALSE]
  /\ stage' = [stage EXCEPT ![v] = IF @ = "idle" THEN "idle" ELSE "release"]

\* Mutant of Retrigger: the voice stays in its release stage.
RetriggerInRelease(v) ==
  /\ Open(v) /\ releasing' = releasing
  /\ UNCHANGED <<note, unvoiced>>

Retrigger(v) ==
  /\ Open(v) /\ releasing' = [releasing EXCEPT ![v] = FALSE]
  /\ UNCHANGED <<note, unvoiced>>

Assign(v, n) ==
  /\ note' = [note EXCEPT ![v] = n] /\ releasing' = [releasing EXCEPT ![v] = FALSE]
  /\ Open(v) /\ unvoiced' = unvoiced \ {n}

\* process_note_event, on: the note's voice again, or the first free one, or none.
NoteOn(n) ==
  /\ held' = held \cup {n}
  /\ \/ \E v \in Voices : note[v] = n /\ Retrigger(v)
     \/ /\ \A v \in Voices : note[v] # n
        /\ \E v \in Voices :
             /\ ~Active(v) /\ \A w \in 0 .. v - 1 : Active(w)
             /\ Assign(v, n)
     \/ /\ \A v \in Voices : note[v] # n /\ Active(v)
        /\ unvoiced' = unvoiced \cup {n} /\ UNCHANGED voiceVars
  /\ UNCHANGED <<level, sustain, cutoff, sent, dspCutoff>>

\* process_note_event, off: the voice keeps the note until its release is quiet.
NoteOff(n) ==
  /\ held' = held \ {n} /\ unvoiced' = unvoiced \ {n}
  /\ \/ /\ \E v \in Voices : /\ note[v] = n /\ ~InRelease(v)
                             /\ Close(v)
                             /\ releasing' = [releasing EXCEPT ![v] = TRUE]
        /\ UNCHANGED note
     \/ /\ \A v \in Voices : note[v] = n => InRelease(v)
        /\ UNCHANGED voiceVars
  /\ UNCHANGED <<level, sustain, cutoff, sent, dspCutoff>>

\* ENCODER_CUTOFF.
TurnCutoff ==
  /\ \E c \in Cutoffs : cutoff' = c
  /\ UNCHANGED <<voiceVars, level, sustain, sent, dspCutoff, held, unvoiced>>

\* KNOB_ATTACK with shift: the sustain level.
TurnSustain ==
  /\ \E l \in Levels : sustain' = l
  /\ UNCHANGED <<voiceVars, level, cutoff, sent, dspCutoff, held, unvoiced>>

\* tADSRT_tick: where a voice's envelope may go.
Ticked(v) ==
  CASE stage[v] = "idle" -> {<<"idle", 0>>}
    [] stage[v] = "attack" ->
         {<<"attack", l>> : l \in level[v] + 1 .. Peak - 1} \cup {<<"decay", Peak>>}
    [] stage[v] = "decay" ->
         {<<"decay", l>> : l \in sustain + 1 .. level[v] - 1} \cup {<<"sustain", sustain>>}
    [] stage[v] = "sustain" -> {<<"sustain", sustain>>}
    [] stage[v] = "release" ->
         {<<"release", l>> : l \in 0 .. level[v] - 1}
         \cup {<<"idle", 0>> : l \in {0} \cap {level[v]}}

\* Mutant of Freed: the first voice, which is never skipped, is not taken back.
FreedNotFirst ==
  {v \in Voices : v > 0 /\ InRelease(v) /\ level'[v] # level[v] /\ level'[v] <= Quiet}

\* The voices module_process takes back, when the level it sends is quiet.
Freed == {v \in Voices : InRelease(v) /\ level'[v] # level[v] /\ level'[v] <= Quiet}

\* It goes on to the filter of these.
Filtered == {v \in Voices : v = 0 \/ (Active(v) /\ v \notin Freed)}

\* What it does with the envelopes and the voices ...
StepVoices(next) ==
  /\ stage' = [v \in Voices |-> next[v][1]] /\ level' = [v \in Voices |-> next[v][2]]
  /\ note' = [v \in Voices |-> IF v \in Freed THEN INVALID_NOTE ELSE note[v]]
  /\ releasing' = [v \in Voices |-> releasing[v] /\ v \notin Freed]

\* Mutant of SendCutoffs: the parameter is sent without the voice's offset.
SendCutoffsNoOffset ==
  /\ sent' = [v \in Voices |-> IF v \in Filtered THEN cutoff ELSE sent[v]]
  /\ dspCutoff' = [dspCutoff EXCEPT ![0] =
                     IF \E v \in Filtered : cutoff # sent[v] THEN cutoff ELSE @]

\* ... and with the cutoffs.
SendCutoffs ==
  /\ sent' = [v \in Voices |-> IF v \in Filtered THEN cutoff ELSE sent[v]]
  /\ dspCutoff' = [v \in Voices |-> IF v \in Filtered /\ cutoff # sent[v]
                                    THEN cutoff ELSE dspCutoff[v]]

\* module_process.
Process ==
  /\ \E next \in [Voices -> UNION {Ticked(v) : v \in Voices}] :
       /\ \A v \in Voices : next[v] \in Ticked(v)
       /\ StepVoices(next)
  /\ SendCutoffs
  /\ UNCHANGED <<gate, sustain, cutoff, held, unvoiced>>

Event == TurnCutoff \/ TurnSustain \/ \E n \in Notes : NoteOn(n) \/ NoteOff(n)
Next == Event \/ Process
Spec == Init /\ [][Next]_vars

-----------------------------------------------------------------------------
\* Gates are open for exactly the notes that are held and found a voice, each on one
\* voice: no note hangs, whatever was released, repeated or taken back in between.
NoStuckNote ==
  /\ \A v, w \in Voices : Active(v) /\ note[v] = note[w] => v = w
  /\ {note[v] : v \in {w \in Voices : gate[w]}} = held \ unvoiced

\* A voice whose release starts above the quiet level comes back.
FreedInTime ==
  \A v \in Voices : (InRelease(v) /\ level[v] > Quiet) ~> ~InRelease(v)

\* After each tick the DSP filters every note that sounds at the cutoff of the knob,
\* whatever it was when the voice was last in use (0 excepted: see the README).
CutoffTracks ==
  [][Process => \A v \in Voices : note'[v] # INVALID_NOTE /\ cutoff # 0
                                  => dspCutoff'[v] = cutoff]_vars
=============================================================================
