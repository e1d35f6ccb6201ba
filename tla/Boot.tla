-------------------------------- MODULE Boot --------------------------------
(***************************************************************************)
(* From power-on to the application.  main.c calls the kernel's task until *)
(* the DSP service says ready, then the kernel's and the application's     *)
(* task in turn.  Each kernel pass gives one step to svc_dsp_task and one  *)
(* to svc_display_task, which take their chip through a reset: hold it,    *)
(* release it, wait, send it its program (the Blackfin) or its set-up (the *)
(* LCD).  Both measure their times with delays polled once per pass, and a *)
(* pass takes any time: waiting for the panel, sending the DSP its image,  *)
(* drawing, the application's own task and every interrupt come between.   *)
(***************************************************************************)
EXTENDS Delay

CONSTANTS
  Hold,    \* microseconds each chip is held in reset: 2100 for the DSP, 5 for the LCD
  Settle,  \* microseconds from its release to its use: 1000 and 5
  Cap      \* bound: the history counts no cycles beyond this

Parts == {"dsp", "lcd"}

ASSUME BootAssumption ==
  /\ Hold \in [Parts -> Nat] /\ Settle \in [Parts -> Nat] /\ Cap \in Nat
  /\ \A p \in Parts : Hold[p] * Cycles <= Cap /\ Settle[p] * Cycles <= Cap

VARIABLES
  count,         \* the timer's count
  stage, delay,  \* each task's state and its reset_delay
  main,          \* the task main is to step next: a part's or "user"
  scheduling,    \* main is in its second loop
  ready,         \* g_dsp_ready
  app,           \* usr_main_task's state
  real,          \* history: cycles since each delay was started, up to Cap
  gap,           \* history: cycles since each delay last read the timer, up to Period + 1
  passed,        \* history: each delay's time had passed when it last read the timer
  aliased        \* history: a whole period passed between two reads of a delay

taskVars == <<stage, delay, passed, ready>>
mainVars == <<main, scheduling, app>>
bootVars == <<count, taskVars, mainVars, real, gap, aliased>>

BootStart ==
  /\ count \in 0 .. Period
  /\ stage = [dsp |-> "init", lcd |-> "assert"]
  /\ delay = [p \in Parts |-> NoDelay]
  /\ main = "dsp" /\ scheduling = FALSE /\ ready = FALSE /\ app = "init"
  /\ real = [p \in Parts |-> 0] /\ gap = [p \in Parts |-> 0]
  /\ passed = [p \in Parts |-> FALSE] /\ aliased = FALSE

-----------------------------------------------------------------------------
\* The timer counts one cycle.
Advance ==
  /\ count' = IF count = Period THEN 0 ELSE count + 1
  /\ real' = [p \in Parts |-> IF real[p] < Cap THEN real[p] + 1 ELSE Cap]
  /\ gap' = [p \in Parts |-> IF gap[p] <= Period THEN gap[p] + 1 ELSE gap[p]]
  /\ UNCHANGED <<taskVars, mainVars, aliased>>

\* main's order: the kernel's tasks, and in the second loop the application's.
AfterDsp == main' = "lcd" /\ UNCHANGED <<scheduling, app>>

AfterLcd ==
  /\ main' = IF scheduling THEN "user" ELSE "dsp"
  /\ scheduling' = (scheduling \/ ready)
  /\ UNCHANGED app

Stepped(p) == main = p /\ IF p = "dsp" THEN AfterDsp ELSE AfterLcd

\* STATE_INIT of svc_dsp_task.
InitTask(p) ==
  /\ Stepped(p) /\ stage[p] = "init"
  /\ stage' = [stage EXCEPT ![p] = "assert"]
  /\ UNCHANGED <<count, delay, ready, real, gap, passed, aliased>>

\* delay_start by task p.
Restart(p, time) ==
  /\ delay' = [delay EXCEPT ![p] = Started(time, count)]
  /\ real' = [real EXCEPT ![p] = 0] /\ gap' = [gap EXCEPT ![p] = 0]
  /\ passed' = [passed EXCEPT ![p] = FALSE]

\* STATE_ASSERT_RESET: the reset is asserted and its time started.
AssertReset(p) ==
  /\ Stepped(p) /\ stage[p] = "assert"
  /\ stage' = [stage EXCEPT ![p] = "release"]
  /\ Restart(p, Hold[p])
  /\ UNCHANGED <<count, ready, aliased>>

\* A call of delay_us that returns false.
Wait(p) ==
  /\ Stepped(p) /\ stage[p] \in {"release", "settle"}
  /\ Reads(delay[p])
  /\ delay' = [delay EXCEPT ![p] = Called(@, count)]
  /\ gap' = [gap EXCEPT ![p] = 0]
  /\ passed' = [passed EXCEPT ![p] = real[p] >= delay[p].time * Cycles]
  /\ aliased' = (aliased \/ gap[p] > Period)
  /\ UNCHANGED <<count, stage, ready, real>>

\* STATE_RELEASE_RESET with the delay expired: the reset is released.
ReleaseReset(p) ==
  /\ Stepped(p) /\ stage[p] = "release"
  /\ ~Reads(delay[p])
  /\ stage' = [stage EXCEPT ![p] = "settle"]
  /\ Restart(p, Settle[p])
  /\ UNCHANGED <<count, ready, aliased>>

\* STATE_BOOT of the DSP and STATE_INIT of the LCD with the delay expired: the
\* chip is sent its program or its set-up.
Boot(p) ==
  /\ Stepped(p) /\ stage[p] = "settle"
  /\ ~Reads(delay[p])
  /\ delay' = [delay EXCEPT ![p] = Called(@, count)]
  /\ stage' = [stage EXCEPT ![p] = "run"]
  /\ UNCHANGED <<count, ready, real, gap, passed, aliased>>

\* Mutant of RunTask: the DSP service never says ready.
RunTaskSilent(p) ==
  /\ Stepped(p) /\ stage[p] = "run"
  /\ UNCHANGED <<count, stage, delay, ready, real, gap, passed, aliased>>

\* STATE_RUN; the DSP's first pass in it makes the service ready.
RunTask(p) ==
  /\ Stepped(p) /\ stage[p] = "run"
  /\ ready' = IF p = "dsp" THEN TRUE ELSE ready
  /\ UNCHANGED <<count, stage, delay, real, gap, passed, aliased>>

\* usr_main_task: app_init, then app_run.
UserTask ==
  /\ main = "user" /\ main' = "dsp" /\ app' = "run"
  /\ UNCHANGED <<count, taskVars, scheduling, real, gap, aliased>>

Task(p) == \/ InitTask(p) \/ AssertReset(p) \/ Wait(p)
           \/ ReleaseReset(p) \/ Boot(p) \/ RunTask(p)
Main == UserTask \/ \E p \in Parts : Task(p)
BootNext == Advance \/ Main

\* Time passes and main goes on: no task of it blocks for ever.
BootSpec == BootStart /\ [][BootNext]_bootVars
BootFairSpec == BootSpec /\ WF_bootVars(Advance) /\ WF_bootVars(Main)

-----------------------------------------------------------------------------
\* "Hold in reset for 2.1 ms", "Wait 1 ms after reset released": neither chip is
\* released or used early, wherever the timer stood, however it wrapped, and
\* however rarely main came round.
NeverEarly ==
  [][\A p \in Parts :
       /\ (stage[p] = "release" /\ stage'[p] = "settle" => real[p] >= Hold[p] * Cycles)
       /\ (stage[p] = "settle" /\ stage'[p] = "run" => real[p] >= Settle[p] * Cycles)]_bootVars

\* "this only works if called at least once per second": main coming round at
\* least once in a period, a chip moves on at the pass after the one that found
\* its time passed.
Prompt ==
  [][\A p \in Parts :
       /\ main = p /\ main' # p /\ stage[p] \in {"release", "settle"}
       /\ passed[p] /\ ~aliased
       => stage'[p] # stage[p]]_bootVars

\* The application is not run before the DSP has its program.
AppAfterDsp == main = "user" => stage["dsp"] = "run"

\* The application is run at last, unless main stayed away for a whole period.
AppRuns == <>(aliased \/ app = "run")
=============================================================================
