----------------------------- MODULE MCMainLoop -----------------------------
(***************************************************************************)
(* Instances for TLC of what the main loop of the ARM does against time    *)
(* and interrupts: it starts the other chips by delays it polls, and it    *)
(* reads a receive buffer that an interrupt fills.  The models share no    *)
(* state, so a behaviour is one of them while the other rests.             *)
(***************************************************************************)
EXTENDS Boot, RingRx

VARIABLE part

\* Two cycles to a microsecond; times short enough for a few wraps of the timer.
MCHold == [dsp |-> 3, lcd |-> 1]
MCSettle == [dsp |-> 2, lcd |-> 1]

\* Of a timer at rest one start is enough.
LoopInit ==
  /\ part \in {"boot", "buffer"}
  /\ BootStart /\ Init
  /\ part # "boot" => count = 0

LoopNext ==
  /\ UNCHANGED part
  /\ \/ part = "boot" /\ BootNext /\ UNCHANGED vars
     \/ part = "buffer" /\ Next /\ UNCHANGED bootVars

\* The fairness of BootFairSpec and of RingRx's FairSpec.
LoopSpec ==
  /\ LoopInit /\ [][LoopNext]_<<part, bootVars, vars>>
  /\ WF_bootVars(part = "boot" /\ Advance) /\ WF_bootVars(part = "boot" /\ Main)
  /\ WF_vars(part = "buffer" /\ Get)

\* AppRuns of the behaviours in which the chips are started: the application is run
\* at last, unless main stayed away for a whole period.
BootRunsApp == part = "boot" => AppRuns
=============================================================================
