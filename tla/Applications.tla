---------------------------- MODULE Applications ----------------------------
(***************************************************************************)
(* Applications on the user tick.  A firmware is built with one of them:   *)
(* its events come from services of the main loop, outside the callback,   *)
(* and its callback runs between the main loop's test of the flag and its  *)
(* clearing.  To wave3 each tick is also a millisecond of the DSP's time,  *)
(* which passes whether or not the callback is called for it.              *)
(***************************************************************************)
EXTENDS UserTick

CONSTANTS
  Notes, MaxVoices, Peak, Quiet, Cutoffs,    \* of Polysynth
  Steps, Times, TailTime, Lead, Scales, Release, MaxMissed   \* of Autosampler

ASSUME SamplerAssumption ==
  /\ Steps \in Nat /\ Times \subseteq Nat
  /\ TailTime \in Nat \ {0} /\ Lead \in Nat /\ Release \in Nat /\ MaxMissed \in Nat
  /\ Scales \subseteq Nat \ {0}   \* powers of two

VARIABLES
  app,  \* the APP the firmware is built with; "other" registers any divisor
  note, releasing, gate, stage, level, sustain, cutoff, sent, dspCutoff, held, unvoiced,
  time, timer, current, running, recording, open, scale, index, memory, length,
  keys, fading, uniform, disturbed

P == INSTANCE Polysynth
A == INSTANCE Autosampler

voiceVars == <<note, releasing, gate, stage, level, sustain, cutoff, sent, dspCutoff,
               held, unvoiced>>
samplerVars == <<time, timer, current, running, recording, open, scale, index, memory,
                 length, keys, fading, uniform, disturbed>>
appVars == <<voiceVars, samplerVars>>

\* After the app_init of polysynth.c and wave3.c, which register every tick.
AppInit ==
  /\ P!Init /\ A!Init
  /\ \/ app = "other" /\ Init
     \/ /\ app \in {"polysynth", "wave3"}
        /\ registered = TRUE /\ divisor = 0 /\ count = 0 /\ flag = FALSE
        /\ pc = "other" /\ ticks = 0 /\ owed = 0

Polysynth ==
  /\ app = "polysynth" /\ UNCHANGED samplerVars
  /\ \/ (Tick \/ StartCallback \/ Clear) /\ UNCHANGED voiceVars
     \/ EndCallback /\ P!Process
     \/ pc = "other" /\ P!Event /\ UNCHANGED vars

Wave3 ==
  /\ app = "wave3" /\ UNCHANGED voiceVars
  /\ \/ (StartCallback \/ Clear) /\ UNCHANGED samplerVars
     \/ Tick /\ A!Frame
     \/ EndCallback /\ A!EveryMs
     \/ pc = "other" /\ (A!Record \/ A!Stop \/ A!SetQuality) /\ UNCHANGED vars

AppNext ==
  /\ UNCHANGED app
  /\ \/ app = "other" /\ Next /\ UNCHANGED <<voiceVars, samplerVars>>
     \/ Polysynth
     \/ Wave3

AppSpec == AppInit /\ [][AppNext]_<<vars, app, appVars>>

\* The timer runs for ever, and main passes the test for ever: neither waits for the
\* application, whose part in their steps is always possible.
FairAppSpec == AppSpec /\ WF_vars(Tick) /\ WF_vars(Main)

-----------------------------------------------------------------------------
\* The properties of polysynth and wave3, on the user tick as it is.
NoStuckNote == P!NoStuckNote
FreedInTime == P!FreedInTime
CutoffTracks == P!CutoffTracks
SlotsPure == A!SlotsPure
OneNote == A!OneNote
=============================================================================
