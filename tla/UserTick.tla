------------------------------ MODULE UserTick ------------------------------
(***************************************************************************)
(* The user tick of knl_main.c.  The 1 ms systick interrupt (svc_systick.c)*)
(* divides its ticks by a divisor the application registers and sets a     *)
(* flag; once per pass the kernel's main loop tests the flag, runs the     *)
(* application's callback and clears the flag.  The interrupt may fall     *)
(* between any two of the main loop's accesses to the flag.                *)
(***************************************************************************)
EXTENDS Naturals

CONSTANTS
  CountMod,  \* number of values of user_tick, a uint8_t: 256
  Divisors,  \* the divisors applications register, uint32_t
  MaxTicks   \* bound: where the history stops counting ticks

ASSUME UserTickAssumption ==
  CountMod \in Nat \ {0} /\ Divisors \subseteq Nat /\ MaxTicks \in Nat \ {0}

VARIABLES
  registered, divisor,  \* p_user_tick_callback # NULL, g_user_tick_div
  count, flag,          \* user_tick, g_user_tick
  pc,                   \* main: "other" services, "callback" running, "clear" to come
  ticks,                \* history: ticks since the flag was last set or the divisor changed
  owed                  \* history: 1 if the flag was set since a callback last started

vars == <<registered, divisor, count, flag, pc, ticks, owed>>

Init ==
  /\ registered = FALSE /\ divisor = 0
  /\ count = 0 /\ flag = FALSE
  /\ pc = "other" /\ ticks = 0 /\ owed = 0

-----------------------------------------------------------------------------
\* knl_register_user_tick_callback, called by the application's tasks or by its
\* callback: main is outside the test and the clear.
Register ==
  /\ pc \in {"other", "callback"}
  /\ \E d \in Divisors : divisor' = d
  /\ registered' = TRUE /\ ticks' = 0
  /\ UNCHANGED <<count, flag, pc, owed>>

\* Mutant of Tick: the count must meet the divisor exactly.
TickExact ==
  /\ IF count = divisor
     THEN flag' = TRUE /\ count' = 0 /\ ticks' = 0 /\ owed' = 1
     ELSE /\ count' = (count + 1) % CountMod
          /\ ticks' = IF ticks < MaxTicks THEN ticks + 1 ELSE ticks
          /\ UNCHANGED <<flag, owed>>
  /\ UNCHANGED <<registered, divisor, pc>>

\* Mutant of Tick: the count must exceed the divisor.
TickExceeds ==
  /\ IF count > divisor
     THEN flag' = TRUE /\ count' = 0 /\ ticks' = 0 /\ owed' = 1
     ELSE /\ count' = (count + 1) % CountMod
          /\ ticks' = IF ticks < MaxTicks THEN ticks + 1 ELSE ticks
          /\ UNCHANGED <<flag, owed>>
  /\ UNCHANGED <<registered, divisor, pc>>

\* The interrupt: _systick_callback.
Tick ==
  /\ IF count >= divisor
     THEN flag' = TRUE /\ count' = 0 /\ ticks' = 0 /\ owed' = 1
     ELSE /\ count' = (count + 1) % CountMod
          /\ ticks' = IF ticks < MaxTicks THEN ticks + 1 ELSE ticks
          /\ UNCHANGED <<flag, owed>>
  /\ UNCHANGED <<registered, divisor, pc>>

\* _kernel_run reaches the test with the flag set ...
StartCallback ==
  /\ pc = "other" /\ flag /\ registered
  /\ pc' = "callback" /\ owed' = 0
  /\ UNCHANGED <<registered, divisor, count, flag, ticks>>

\* ... the callback returns ...
EndCallback ==
  /\ pc = "callback" /\ pc' = "clear"
  /\ UNCHANGED <<registered, divisor, count, flag, ticks, owed>>

\* Mutant of Clear: the flag is not cleared.
ClearNothing ==
  /\ pc = "clear" /\ pc' = "other"
  /\ UNCHANGED <<registered, divisor, count, flag, ticks, owed>>

\* ... and the flag is cleared.
Clear ==
  /\ pc = "clear" /\ pc' = "other" /\ flag' = FALSE
  /\ UNCHANGED <<registered, divisor, count, ticks, owed>>

Main == StartCallback \/ EndCallback \/ Clear
Next == Register \/ Tick \/ Main

\* The timer runs for ever, and main passes the test for ever.
Spec == Init /\ [][Next]_vars
FairSpec == Spec /\ WF_vars(Tick) /\ WF_vars(Main)

-----------------------------------------------------------------------------
\* No callback without a tick for it: each time one starts, the flag has been set
\* since the last one started.
CallbackOwed == [][StartCallback => owed = 1]_vars

\* Whatever divisor was registered before, and wherever the count stood, the flag
\* is set again within divisor + 1 ticks: a divisor too wide for the count, or a
\* count left above a new divisor, would wrap past it.
WithinPeriod == ticks <= divisor

\* While the callback is registered it keeps being called.
KeepsCalling == registered ~> pc = "callback"
=============================================================================
