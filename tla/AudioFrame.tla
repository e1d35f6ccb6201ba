----------------------------- MODULE AudioFrame -----------------------------
(***************************************************************************)
(* Audio on the Blackfin, a frame at a time.  The interrupt of the         *)
(* receiving DMA (per_sport.c) takes a frame from the codec, gives it the  *)
(* last output and sets a flag.  main (kernel/main.c) tests the flag, has  *)
(* the module process the frame, clears the flag and gives one step to its *)
(* CPU service.  Nothing keeps the two apart while the module is at work:  *)
(* what comes out right does so because it is done in time.                *)
(***************************************************************************)
EXTENDS Naturals

CONSTANTS
  Period,    \* time between two frames, in steps of a clock
  Loads,     \* the longest the module and the CPU service may take
  MaxFrames  \* bound: frames the codec sends

ASSUME AudioAssumption ==
  /\ Period \in Nat \ {0} /\ MaxFrames \in Nat
  /\ Loads \subseteq [module : Nat \ {0}, service : Nat \ {0}]

Channels == {0, 1}
Both(k) == [c \in Channels |-> k]

VARIABLES
  load,           \* those of the firmware that is built
  in, out, tx,    \* g_codec_in, _out, _tx_buffer: of each sample, its frame's number
  received,       \* g_sport0_frame_received
  pc,             \* main: in the "service" or in the "module"
  read, written,  \* the samples the module has read, the channels it has written
  age, spent,     \* time since the last frame; time main has been where it is
  frame,          \* history: the number of the last frame
  missed          \* history: a frame came while the flag of the last was set

mainVars == <<pc, read, written, out>>
audioVars == <<load, in, tx, received, mainVars, age, spent, frame, missed>>

\* After sport0_init and module_init.
AudioInit ==
  /\ load \in Loads
  /\ in = Both(0) /\ out = Both(0) /\ tx = Both(0) /\ received = FALSE
  /\ pc = "service" /\ read = Both(0) /\ written = {}
  /\ age = 0 /\ spent = 0 /\ frame = 0 /\ missed = FALSE

-----------------------------------------------------------------------------
Limit == IF pc = "module" THEN load.module ELSE load.service

\* Time goes by, no longer than what main is doing may take, and no frame is due.
Pass ==
  /\ age < Period - 1 /\ spent < Limit
  /\ age' = age + 1 /\ spent' = spent + 1
  /\ UNCHANGED <<load, in, tx, received, mainVars, frame, missed>>

\* Mutant of Interrupt: the output of one channel only is given to the codec.
InterruptOneChannel ==
  /\ age = Period - 1 /\ spent < Limit /\ frame < MaxFrames
  /\ age' = 0 /\ spent' = spent + 1
  /\ frame' = frame + 1
  /\ in' = Both(frame') /\ tx' = [tx EXCEPT ![0] = out[0]] /\ received' = TRUE
  /\ missed' = IF received THEN TRUE ELSE missed
  /\ UNCHANGED <<load, mainVars>>

\* _sport0_isr.
Interrupt ==
  /\ age = Period - 1 /\ spent < Limit /\ frame < MaxFrames
  /\ age' = 0 /\ spent' = spent + 1
  /\ frame' = frame + 1
  /\ in' = Both(frame') /\ tx' = out /\ received' = TRUE
  /\ missed' = IF received THEN TRUE ELSE missed
  /\ UNCHANGED <<load, mainVars>>

\* svc_cpu_task returns, main goes round: module_process if a frame has come,
\* or the service again.
Test ==
  /\ pc = "service" /\ spent' = 0
  /\ IF received
     THEN pc' = "module" /\ read' = Both(0) /\ written' = {}
     ELSE UNCHANGED <<pc, read, written>>
  /\ UNCHANGED <<load, in, out, tx, received, age, frame, missed>>

\* The module reads a sample of the input ...
Read(c) ==
  /\ pc = "module" /\ read[c] = 0
  /\ read' = [read EXCEPT ![c] = in[c]]
  /\ UNCHANGED <<load, in, out, tx, received, pc, written, age, spent, frame, missed>>

\* ... and writes what it makes of it.
Write(c) ==
  /\ pc = "module" /\ read[c] # 0 /\ c \notin written
  /\ out' = [out EXCEPT ![c] = read[c]] /\ written' = written \cup {c}
  /\ UNCHANGED <<load, in, tx, received, pc, read, age, spent, frame, missed>>

\* Mutant of Processed: the flag is left for the next frame.
ProcessedLeavesFlag ==
  /\ pc = "module" /\ written = Channels
  /\ pc' = "service" /\ spent' = 0
  /\ UNCHANGED <<load, in, out, tx, received, read, written, age, frame, missed>>

\* module_process returns and sport0_frame_processed clears the flag.
Processed ==
  /\ pc = "module" /\ written = Channels
  /\ pc' = "service" /\ spent' = 0
  /\ received' = FALSE
  /\ UNCHANGED <<load, in, out, tx, read, written, age, frame, missed>>

AudioNext == Pass \/ Interrupt \/ Test \/ Processed \/ \E c \in Channels : Read(c) \/ Write(c)

AudioSpec == AudioInit /\ [][AudioNext]_audioVars

-----------------------------------------------------------------------------
\* If the module and one step of the service together take less than a period, a
\* frame never comes while the one before it is being processed, wherever main was
\* when that came.
InTime == load.module + load.service < Period => ~missed

\* Until a frame comes too soon the codec is given, with every frame, the output made
\* from the one before: none skipped, none twice, both channels of the same frame.
OneFrameLater == [][frame' # frame /\ ~missed' => tx' = Both(frame)]_audioVars
=============================================================================
