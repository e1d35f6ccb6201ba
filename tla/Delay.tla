------------------------------- MODULE Delay --------------------------------
(***************************************************************************)
(* The polled delays of svc_delay.c.  A free-running timer counts 0 to     *)
(* DELAY_PERIOD and starts again; a delay adds up, call by call, what the  *)
(* timer has counted since the call before, and notices that its time has  *)
(* passed one call after the call that completed it.                       *)
(***************************************************************************)
EXTENDS Naturals

CONSTANTS
  Period,  \* DELAY_PERIOD, the timer's last count: 149999999
  Cycles   \* CYCLES_PER_US: 150

ASSUME DelayAssumption == Period \in Nat \ {0} /\ Cycles \in Nat \ {0}

\* A t_delay_state.
Delays == [time : Nat, start : 0 .. Period, cycles : Nat, us : Nat, expired : BOOLEAN]
NoDelay == [time |-> 0, start |-> 0, cycles |-> 0, us |-> 0, expired |-> FALSE]

\* delay_start, at the timer's count.
Started(time, count) ==
  [time |-> time, start |-> count, cycles |-> 0, us |-> 0, expired |-> FALSE]

\* Mutant of Delta: the wrap of the timer is a cycle long.
DeltaLong(start, count) ==
  IF count >= start THEN count - start ELSE (Period - start) + count + 2

\* Cycles between two reads of the timer less than a period apart.
Delta(start, count) ==
  IF count >= start THEN count - start ELSE (Period - start) + count + 1

\* The call reads the timer: it is neither expired nor has it added up its time.
Reads(d) == ~d.expired /\ d.us < d.time

\* Mutant of Called: the cycles short of a microsecond are dropped.
CalledDropsCycles(d, count) ==
  LET sum == d.cycles + Delta(d.start, count)
  IN IF Reads(d)
     THEN [d EXCEPT !.cycles = 0, !.us = @ + sum \div Cycles, !.start = count]
     ELSE [d EXCEPT !.us = 0, !.cycles = 0, !.expired = TRUE]

\* The state after delay_us; what it returns is its `expired`.
Called(d, count) ==
  LET sum == d.cycles + Delta(d.start, count)
  IN IF Reads(d)
     THEN [d EXCEPT !.cycles = sum % Cycles, !.us = @ + sum \div Cycles, !.start = count]
     ELSE [d EXCEPT !.us = 0, !.cycles = 0, !.expired = TRUE]
=============================================================================
