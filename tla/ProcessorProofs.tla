-------------------------- MODULE ProcessorProofs --------------------------
(***************************************************************************)
(* Proofs about the two processors.  Boot, for every timer period, every   *)
(* number of cycles to a microsecond, all times, and main coming round as  *)
(* rarely as it likes; and, when it comes round in time, how soon a chip   *)
(* moves on.  DspProtocol, for any parameters, values and number of calls, *)
(* however the two main loops, the interrupts and the transfers between    *)
(* them are delayed and interleaved: what the DSP executes, as long as the *)
(* bytes sent are those of the messages.                                   *)
(***************************************************************************)
EXTENDS Boot, DspProtocol, FiniteSetTheorems, SequenceTheorems, TLAPS


-----------------------------------------------------------------------------
(* Facts about the delays of svc_delay.c.                                  *)

\* Division by the cycles of a microsecond loses nothing.
LEMMA Carry ==
  ASSUME NEW n \in Nat
  PROVE  /\ n \div Cycles \in Nat /\ n % Cycles \in 0 .. Cycles - 1
         /\ n = ((n \div Cycles) * Cycles) + (n % Cycles)
BY DelayAssumption DEF DelayAssumption

\* Where the timer stands, g cycles after it stood at start, if g is less than
\* a whole turn of it; a larger g stands for any longer time.
At(start, now, g) ==
  g <= Period => now = start + g \/ now = start + g - (Period + 1)

\* What a call adds up is never more than the time since the call before.
LEMMA DeltaBound ==
  ASSUME NEW s \in 0 .. Period, NEW c \in 0 .. Period, NEW g \in 0 .. Period + 1,
         At(s, c, g)
  PROVE  Delta(s, c) \in Nat /\ Delta(s, c) <= g
<1> USE DelayAssumption DEF DelayAssumption
<1>1. CASE c >= s
  BY <1>1 DEF Delta, At
<1>2. CASE ~(c >= s)
  BY <1>2 DEF Delta, At
<1> QED
  BY <1>1, <1>2

\* A call that reads the timer keeps the delay's time, moves its start to this
\* call, and adds the cycles of Delta to its microseconds and cycles.
LEMMA CallReads ==
  ASSUME NEW d \in Delays, NEW c \in 0 .. Period, Reads(d), Delta(d.start, c) \in Nat
  PROVE  /\ Called(d, c) \in Delays /\ Called(d, c).cycles < Cycles
         /\ Called(d, c).time = d.time /\ Called(d, c).start = c
         /\ ~Called(d, c).expired
         /\ Called(d, c).us * Cycles + Called(d, c).cycles
              = d.us * Cycles + d.cycles + Delta(d.start, c)
<1> USE DelayAssumption DEF DelayAssumption
<1> DEFINE sum == d.cycles + Delta(d.start, c)
           q == sum \div Cycles
           r == sum % Cycles
<1>1. sum \in Nat /\ d.us \in Nat /\ d.cycles \in Nat
  BY DEF Delays
<1>2. q \in Nat /\ r \in 0 .. Cycles - 1 /\ sum = q * Cycles + r
  BY <1>1, Carry
<1>3. Called(d, c) = [d EXCEPT !.cycles = r, !.us = d.us + q, !.start = c]
  BY DEF Called
<1> HIDE DEF q, r
<1>4. Called(d, c) \in Delays
  <2>1. d.time \in Nat /\ d.us + q \in Nat /\ r \in Nat /\ d.expired \in BOOLEAN
    BY <1>1, <1>2 DEF Delays
  <2>2. Called(d, c) = [time |-> d.time, start |-> c, cycles |-> r,
                        us |-> d.us + q, expired |-> d.expired]
    BY <1>3 DEF Delays
  <2> QED
    BY <2>1, <2>2 DEF Delays
<1>8. Called(d, c).cycles = r /\ Called(d, c).us = d.us + q
  BY <1>3 DEF Delays
<1>5. (d.us + q) * Cycles + r = d.us * Cycles + (q * Cycles + r)
  BY <1>1, <1>2
<1>6. Called(d, c).time = d.time /\ Called(d, c).start = c
  BY <1>3 DEF Delays
<1>7. ~Called(d, c).expired
  BY <1>3 DEF Delays, Reads
<1> QED
  BY <1>1, <1>2, <1>4, <1>5, <1>6, <1>7, <1>8

\* A call that does not read the timer leaves the delay expired.
LEMMA CallExpires ==
  ASSUME NEW d \in Delays, NEW c \in 0 .. Period, ~Reads(d)
  PROVE  Called(d, c) \in Delays /\ Called(d, c).cycles < Cycles
<1>1. Called(d, c) = [d EXCEPT !.us = 0, !.cycles = 0, !.expired = TRUE]
  BY DEF Called
<1>2. Called(d, c) = [time |-> d.time, start |-> d.start, cycles |-> 0,
                      us |-> 0, expired |-> TRUE]
  BY <1>1 DEF Delays
<1> QED
  BY <1>2, DelayAssumption DEF DelayAssumption, Delays

\* A delay just started.
LEMMA Starting ==
  ASSUME NEW t \in Nat, NEW c \in 0 .. Period
  PROVE  Started(t, c) \in Delays /\ Started(t, c).cycles < Cycles
BY DelayAssumption DEF DelayAssumption, Started, Delays

-----------------------------------------------------------------------------
(* Types.                                                                  *)

Stages == {"init", "assert", "release", "settle", "run"}

\* The types the delays' arithmetic needs.
TypeInv ==
  /\ count \in 0 .. Period
  /\ stage \in [Parts -> Stages]
  /\ delay \in [Parts -> Delays]
  /\ real \in [Parts -> 0 .. Cap] /\ gap \in [Parts -> 0 .. Period + 1]

\* What a delay in use has added up, and what has passed since its last read, is
\* not more than the time since it was started; and the timer stands where that
\* puts it.
Sound(p) ==
  stage[p] \in {"release", "settle"} =>
    /\ delay[p].time = IF stage[p] = "release" THEN Hold[p] ELSE Settle[p]
    /\ ~delay[p].expired
    /\ real[p] = Cap \/ delay[p].us * Cycles + delay[p].cycles + gap[p] <= real[p]
    /\ At(delay[p].start, count, gap[p])

IInv == TypeInv /\ \A p \in Parts : Sound(p)

LEMMA BootInit == BootStart => IInv
<1> SUFFICES ASSUME BootStart PROVE IInv
  OBVIOUS
<1>1. TypeInv
  BY DelayAssumption, BootAssumption
  DEF DelayAssumption, BootAssumption, BootStart, TypeInv, Stages, Parts, Delays, NoDelay
<1>2. ASSUME NEW p \in Parts PROVE Sound(p)
  BY DEF BootStart, Parts, Sound
<1> QED
  BY <1>1, <1>2 DEF IInv

\* A task's step keeps TypeInv, and Sound of the other part, if it leaves the
\* timer alone and changes at most its own entries.
LEMMA OwnStep ==
  ASSUME IInv, NEW p \in Parts, NEW s \in Stages, NEW d \in Delays,
         NEW r \in 0 .. Cap, NEW g \in 0 .. Period + 1,
         count' = count, stage' = [stage EXCEPT ![p] = s],
         delay' = [delay EXCEPT ![p] = d],
         real' = [real EXCEPT ![p] = r], gap' = [gap EXCEPT ![p] = g]
  PROVE  /\ TypeInv' /\ \A o \in Parts \ {p} : Sound(o)'
         /\ stage'[p] = s /\ delay'[p] = d /\ real'[p] = r /\ gap'[p] = g
<1>1. TypeInv'
  BY DEF IInv, TypeInv
<1>2. stage'[p] = s /\ delay'[p] = d /\ real'[p] = r /\ gap'[p] = g
  BY DEF IInv, TypeInv
<1>3. ASSUME NEW o \in Parts \ {p} PROVE Sound(o)'
  <2>1. stage'[o] = stage[o] /\ delay'[o] = delay[o] /\ real'[o] = real[o] /\ gap'[o] = gap[o]
    BY DEF IInv, TypeInv
  <2> QED
    BY <2>1 DEF IInv, Sound
<1> QED
  BY <1>1, <1>2, <1>3

\* delay_start makes the delay sound.
LEMMA RestartSound ==
  ASSUME IInv, NEW p \in Parts, NEW s \in {"release", "settle"}, NEW t \in Nat,
         t = IF s = "release" THEN Hold[p] ELSE Settle[p],
         count' = count, stage' = [stage EXCEPT ![p] = s], Restart(p, t)
  PROVE  IInv'
<1> USE DelayAssumption, BootAssumption DEF DelayAssumption, BootAssumption
<1>1. count \in 0 .. Period
  BY DEF IInv, TypeInv
<1>2. Started(t, count) \in Delays
  BY <1>1, Starting
<1>3. /\ TypeInv' /\ \A o \in Parts \ {p} : Sound(o)'
      /\ stage'[p] = s /\ delay'[p] = Started(t, count) /\ real'[p] = 0 /\ gap'[p] = 0
  <2>1. /\ delay' = [delay EXCEPT ![p] = Started(t, count)]
        /\ real' = [real EXCEPT ![p] = 0] /\ gap' = [gap EXCEPT ![p] = 0]
    BY DEF Restart
  <2>2. s \in Stages /\ 0 \in 0 .. Cap /\ 0 \in 0 .. Period + 1
    BY DEF Stages
  <2> HIDE DEF Restart
  <2> QED
    BY ONLY IInv, count' = count, stage' = [stage EXCEPT ![p] = s], p \in Parts,
            <1>2, <2>1, <2>2, OwnStep
<1>4. Sound(p)'
  <2>1. /\ delay'[p].time = t /\ ~delay'[p].expired /\ delay'[p].start = count
        /\ delay'[p].us = 0 /\ delay'[p].cycles = 0
    BY <1>3 DEF Started
  <2>2. At(delay'[p].start, count', gap'[p])
    BY <1>1, <1>3, <2>1 DEF At
  <2>3. delay'[p].us * Cycles + delay'[p].cycles + gap'[p] <= real'[p]
    BY <1>3, <2>1
  <2> QED
    BY <1>3, <2>1, <2>2, <2>3 DEF Sound, At
<1> QED
  BY <1>3, <1>4 DEF IInv

LEMMA BootStep == ASSUME IInv, [BootNext]_bootVars PROVE IInv'
<1> USE DelayAssumption, BootAssumption DEF DelayAssumption, BootAssumption
<1>1. CASE Advance
  <2>1. TypeInv'
    BY <1>1 DEF Advance, IInv, TypeInv, taskVars
  <2>2. ASSUME NEW p \in Parts PROVE Sound(p)'
    <3> SUFFICES ASSUME stage[p] \in {"release", "settle"} PROVE Sound(p)'
      BY <1>1 DEF Sound, Advance, taskVars
    <3>1. /\ stage' = stage /\ delay' = delay
          /\ count' = IF count = Period THEN 0 ELSE count + 1
          /\ real'[p] = IF real[p] < Cap THEN real[p] + 1 ELSE Cap
          /\ gap'[p] = IF gap[p] <= Period THEN gap[p] + 1 ELSE gap[p]
      BY <1>1 DEF Advance, taskVars
    <3>2. /\ count \in 0 .. Period /\ real[p] \in 0 .. Cap /\ gap[p] \in 0 .. Period + 1
          /\ delay[p].start \in 0 .. Period
          /\ delay[p].us \in Nat /\ delay[p].cycles \in Nat
      BY DEF IInv, TypeInv, Delays
    <3>3. /\ delay[p].time = IF stage[p] = "release" THEN Hold[p] ELSE Settle[p]
          /\ ~delay[p].expired
          /\ real[p] = Cap \/ delay[p].us * Cycles + delay[p].cycles + gap[p] <= real[p]
          /\ At(delay[p].start, count, gap[p])
      BY DEF IInv, Sound
    <3>4. At(delay[p].start, count', gap'[p])
      <4> SUFFICES ASSUME gap'[p] <= Period
                   PROVE  \/ count' = delay[p].start + gap'[p]
                          \/ count' = delay[p].start + gap'[p] - (Period + 1)
        BY DEF At
      <4>1. gap'[p] = gap[p] + 1 /\ gap[p] + 1 <= Period
        BY <3>1, <3>2
      <4>2. CASE count = delay[p].start + gap[p]
        BY <3>1, <3>2, <4>1, <4>2
      <4>3. CASE count = delay[p].start + gap[p] - (Period + 1)
        BY <3>1, <3>2, <4>1, <4>3
      <4> QED
        BY <3>2, <3>3, <4>1, <4>2, <4>3 DEF At
    <3>5. delay[p].us * Cycles \in Nat
      BY <3>2
    <3>6. real'[p] = Cap \/ delay[p].us * Cycles + delay[p].cycles + gap'[p] <= real'[p]
      BY <3>1, <3>2, <3>3, <3>5
    <3> QED
      BY <3>1, <3>3, <3>4, <3>6 DEF Sound, At
  <2> QED
    BY <2>1, <2>2 DEF IInv
<1>2. CASE UserTask
  BY <1>2 DEF UserTask, taskVars, IInv, TypeInv, Sound, At
<1>3. ASSUME NEW p \in Parts, InitTask(p) PROVE IInv'
  <2>1. /\ count' = count /\ stage' = [stage EXCEPT ![p] = "assert"]
        /\ delay' = delay /\ real' = real /\ gap' = gap
    BY <1>3 DEF InitTask
  <2> QED
    BY <2>1 DEF IInv, TypeInv, Stages, Sound, At
<1>4. ASSUME NEW p \in Parts, AssertReset(p) PROVE IInv'
  BY <1>4, RestartSound DEF AssertReset
<1>5. ASSUME NEW p \in Parts, Wait(p) PROVE IInv'
  <2>1. /\ stage[p] \in {"release", "settle"} /\ Reads(delay[p]) /\ count' = count
        /\ delay' = [delay EXCEPT ![p] = Called(delay[p], count)]
        /\ gap' = [gap EXCEPT ![p] = 0] /\ real' = real /\ stage' = stage
    BY <1>5 DEF Wait
  <2>2. /\ count \in 0 .. Period /\ real[p] \in 0 .. Cap /\ gap[p] \in 0 .. Period + 1
        /\ delay[p] \in Delays /\ delay[p].start \in 0 .. Period
        /\ delay[p].us \in Nat /\ delay[p].cycles \in Nat
        /\ stage = [stage EXCEPT ![p] = stage[p]] /\ stage[p] \in Stages
        /\ real = [real EXCEPT ![p] = real[p]]
    BY DEF IInv, TypeInv, Delays
  <2>3. /\ delay[p].time = IF stage[p] = "release" THEN Hold[p] ELSE Settle[p]
        /\ real[p] = Cap \/ delay[p].us * Cycles + delay[p].cycles + gap[p] <= real[p]
        /\ At(delay[p].start, count, gap[p])
    BY <2>1 DEF IInv, Sound
  <2> DEFINE d == Called(delay[p], count)
             delta == Delta(delay[p].start, count)
  <2>4. delta \in Nat /\ delta <= gap[p]
    BY <2>2, <2>3, DeltaBound
  <2>5. /\ d \in Delays /\ d.time = delay[p].time /\ d.start = count /\ ~d.expired
        /\ d.us * Cycles + d.cycles = delay[p].us * Cycles + delay[p].cycles + delta
    BY <2>1, <2>2, <2>4, CallReads
  <2>6. /\ TypeInv' /\ \A o \in Parts \ {p} : Sound(o)'
        /\ stage'[p] = stage[p] /\ delay'[p] = d /\ real'[p] = real[p] /\ gap'[p] = 0
    <3> HIDE DEF d
    <3>1. /\ delay' = [delay EXCEPT ![p] = d]
          /\ stage' = [stage EXCEPT ![p] = stage[p]] /\ real' = [real EXCEPT ![p] = real[p]]
      BY <2>1, <2>2 DEF d
    <3>2. 0 \in 0 .. Period + 1
      OBVIOUS
    <3>3. d \in Delays
      BY <2>5
    <3>4. stage[p] \in Stages /\ real[p] \in 0 .. Cap
      BY <2>2
    <3>5. count' = count /\ gap' = [gap EXCEPT ![p] = 0]
      BY <2>1
    <3> QED
      BY ONLY IInv, p \in Parts, <3>1, <3>2, <3>3, <3>4, <3>5, OwnStep
  <2>7. Sound(p)'
    <3> HIDE DEF d, delta
    <3>1. At(delay'[p].start, count', gap'[p])
      BY <2>1, <2>2, <2>5, <2>6 DEF At
    <3>2. delay[p].us * Cycles \in Nat /\ d.us * Cycles + d.cycles \in Nat
      BY <2>2, <2>4, <2>5
    <3>3. real[p] = Cap \/ d.us * Cycles + d.cycles + 0 <= real[p]
      BY <2>2, <2>3, <2>4, <2>5, <3>2
    <3> QED
      BY <2>1, <2>3, <2>5, <2>6, <3>1, <3>3 DEF Sound, At
  <2> QED
    BY <2>6, <2>7 DEF IInv
<1>6. ASSUME NEW p \in Parts, ReleaseReset(p) PROVE IInv'
  BY <1>6, RestartSound DEF ReleaseReset
<1>7. ASSUME NEW p \in Parts, Boot(p) PROVE IInv'
  <2>1. /\ count' = count /\ stage' = [stage EXCEPT ![p] = "run"] /\ ~Reads(delay[p])
        /\ delay' = [delay EXCEPT ![p] = Called(delay[p], count)]
        /\ real' = real /\ gap' = gap
    BY <1>7 DEF Boot
  <2>2. /\ count \in 0 .. Period /\ real[p] \in 0 .. Cap /\ gap[p] \in 0 .. Period + 1
        /\ delay[p] \in Delays
        /\ real = [real EXCEPT ![p] = real[p]] /\ gap = [gap EXCEPT ![p] = gap[p]]
    BY DEF IInv, TypeInv
  <2>3. Called(delay[p], count) \in Delays
    BY <2>1, <2>2, CallExpires
  <2>4. TypeInv' /\ (\A o \in Parts \ {p} : Sound(o)') /\ stage'[p] = "run"
    BY <2>1, <2>2, <2>3, OwnStep DEF Stages
  <2>5. Sound(p)'
    BY <2>4 DEF Sound
  <2> QED
    BY <2>4, <2>5 DEF IInv
<1>8. ASSUME NEW p \in Parts, RunTask(p) PROVE IInv'
  BY <1>8 DEF RunTask, IInv, TypeInv, Sound, At
<1>9. CASE UNCHANGED bootVars
  BY <1>9 DEF bootVars, taskVars, IInv, TypeInv, Sound, At
<1> QED
  BY <1>1, <1>2, <1>3, <1>4, <1>5, <1>6, <1>7, <1>8, <1>9 DEF BootNext, Main, Task

\* The inductive invariant holds in every reachable state: the types the delays'
\* arithmetic needs, and no delay counts more time than has passed since delay_start.
THEOREM SoundDelays == BootSpec => []IInv
BY BootInit, BootStep, PTL DEF BootSpec

-----------------------------------------------------------------------------
(* The chips' times.                                                       *)

\* A delay in use that does not read the timer any more has passed its time.
LEMMA Passed ==
  ASSUME IInv, NEW p \in Parts, stage[p] \in {"release", "settle"}, ~Reads(delay[p])
  PROVE  real[p] >= delay[p].time * Cycles
<1> USE DelayAssumption, BootAssumption DEF DelayAssumption, BootAssumption
<1> DEFINE t == delay[p].time
           u == delay[p].us
           c == delay[p].cycles
<1>1. /\ t \in Nat /\ u \in Nat /\ c \in Nat
      /\ real[p] \in 0 .. Cap /\ gap[p] \in 0 .. Period + 1
  BY DEF IInv, TypeInv, Delays
<1>2. /\ t = IF stage[p] = "release" THEN Hold[p] ELSE Settle[p]
      /\ ~delay[p].expired
      /\ real[p] = Cap \/ u * Cycles + c + gap[p] <= real[p]
  BY DEF IInv, Sound
<1>3. t <= u
  BY <1>1, <1>2 DEF Reads
<1>4. t * Cycles <= Cap
  BY <1>2
<1> HIDE DEF t, u, c
<1>5. PICK k \in Nat : u = t + k
  <2>1. u - t \in Nat /\ u = t + (u - t)
    BY <1>1, <1>3
  <2> QED
    BY <2>1
<1>6. u * Cycles = t * Cycles + k * Cycles /\ k * Cycles \in Nat /\ t * Cycles \in Nat
  BY <1>1, <1>5
<1>7. real[p] >= t * Cycles
  BY <1>1, <1>2, <1>4, <1>6
<1> QED
  BY <1>7 DEF t

\* Only the two tasks' own steps release a chip and use it.
LEMMA OnlyOwnSteps ==
  ASSUME IInv, BootNext, NEW p \in Parts
  PROVE  /\ stage[p] = "release" /\ stage'[p] = "settle" => ~Reads(delay[p])
         /\ stage[p] = "settle" /\ stage'[p] = "run" => ~Reads(delay[p])
<1> USE DEF IInv, TypeInv
<1>1. CASE Advance \/ UserTask
  BY <1>1 DEF Advance, UserTask, taskVars
<1>2. ASSUME NEW o \in Parts, InitTask(o) \/ AssertReset(o) \/ Wait(o) \/ RunTask(o)
      PROVE  /\ ~(stage[p] = "release" /\ stage'[p] = "settle")
             /\ ~(stage[p] = "settle" /\ stage'[p] = "run")
  BY <1>2 DEF InitTask, AssertReset, Wait, RunTask
<1>3. ASSUME NEW o \in Parts, ReleaseReset(o) \/ Boot(o)
      PROVE  (p = o /\ ~Reads(delay[p])) \/ stage'[p] = stage[p]
  BY <1>3 DEF ReleaseReset, Boot
<1> QED
  BY <1>1, <1>2, <1>3 DEF BootNext, Main, Task

\* For every timer period, cycles to a microsecond and times, neither chip is
\* released from reset or sent its program early, even if main comes round less
\* than once in a period (svc_dsp.c, svc_display.c, svc_delay.c: delay_us).
THEOREM ChipsNeverEarly == BootSpec => NeverEarly
<1>1. IInv /\ [BootNext]_bootVars =>
        [\A p \in Parts :
           /\ (stage[p] = "release" /\ stage'[p] = "settle" => real[p] >= Hold[p] * Cycles)
           /\ (stage[p] = "settle" /\ stage'[p] = "run" => real[p] >= Settle[p] * Cycles)]_bootVars
  <2> SUFFICES ASSUME IInv, BootNext, NEW p \in Parts
               PROVE  /\ (stage[p] = "release" /\ stage'[p] = "settle" => real[p] >= Hold[p] * Cycles)
                      /\ (stage[p] = "settle" /\ stage'[p] = "run" => real[p] >= Settle[p] * Cycles)
    OBVIOUS
  <2>1. stage[p] \in {"release", "settle"} =>
          delay[p].time = IF stage[p] = "release" THEN Hold[p] ELSE Settle[p]
    BY DEF IInv, Sound
  <2>2. ASSUME stage[p] = "release", stage'[p] = "settle" PROVE real[p] >= Hold[p] * Cycles
    BY <2>1, <2>2, OnlyOwnSteps, Passed
  <2>3. ASSUME stage[p] = "settle", stage'[p] = "run" PROVE real[p] >= Settle[p] * Cycles
    BY <2>1, <2>3, OnlyOwnSteps, Passed
  <2> QED
    BY <2>2, <2>3
<1> QED
  BY <1>1, SoundDelays, PTL DEF BootSpec, NeverEarly

-----------------------------------------------------------------------------
(* The order of the boot.                                                  *)

\* main steps the application only in its second loop, which it reaches only
\* when the DSP service, having sent the DSP its program, says ready.
OrderInv ==
  /\ stage \in [Parts -> Stages] /\ main \in Parts \cup {"user"}
  /\ main = "user" => scheduling = TRUE
  /\ scheduling = TRUE => ready = TRUE
  /\ ready = TRUE => stage["dsp"] = "run"

\* The application's task is never stepped before the DSP has its program
\* (main.c against svc_dsp.c).
THEOREM AppWaitsForDsp == BootSpec => []AppAfterDsp
<1>1. BootStart => OrderInv
  BY DEF BootStart, OrderInv, Parts, Stages
<1>2. ASSUME OrderInv, [BootNext]_bootVars PROVE OrderInv'
  <2>1. CASE Advance \/ UNCHANGED bootVars
    BY <1>2, <2>1 DEF OrderInv, Advance, bootVars, taskVars, mainVars
  <2>2. CASE UserTask
    BY <1>2, <2>2 DEF OrderInv, UserTask, taskVars, Parts
  <2>3. ASSUME NEW p \in Parts, Task(p)
        PROVE  /\ stage' \in [Parts -> Stages]
               /\ (stage["dsp"] = "run" => stage'["dsp"] = "run")
               /\ (ready' = ready \/ (stage["dsp"] = "run" /\ ready' = TRUE))
    <3>1. CASE RunTask(p)
      <4>1. ready' = (IF p = "dsp" THEN TRUE ELSE ready) /\ stage[p] = "run" /\ stage' = stage
        BY <3>1 DEF RunTask
      <4>2. ready' = ready \/ (p = "dsp" /\ ready' = TRUE)
        BY <4>1
      <4> QED
        BY <1>2, <4>1, <4>2 DEF OrderInv
    <3>2. CASE ~RunTask(p)
      <4>1. ready' = ready
        BY <2>3, <3>2 DEF Task, InitTask, AssertReset, Wait, ReleaseReset, Boot
      <4>2. PICK s \in Stages : stage' = [stage EXCEPT ![p] = s] /\ (stage[p] = "run" => s = "run")
        BY <1>2, <2>3, <3>2 DEF OrderInv, Task, InitTask, AssertReset, Wait, ReleaseReset,
                                Boot, Stages
      <4> QED
        BY <1>2, <4>1, <4>2 DEF OrderInv, Parts
    <3> QED
      BY <3>1, <3>2
  <2>4. ASSUME NEW p \in Parts, Task(p) PROVE Stepped(p)
    BY <2>4 DEF Task, InitTask, AssertReset, Wait, ReleaseReset, Boot, RunTask
  <2>5. ASSUME NEW p \in Parts, Task(p) PROVE OrderInv'
    <3>1. CASE p = "dsp"
      BY <1>2, <2>3, <2>4, <2>5, <3>1 DEF OrderInv, Stepped, AfterDsp, Parts
    <3>2. CASE p = "lcd"
      BY <1>2, <2>3, <2>4, <2>5, <3>2 DEF OrderInv, Stepped, AfterLcd, Parts
    <3> QED
      BY <2>5, <3>1, <3>2 DEF Parts
  <2> QED
    BY <1>2, <2>1, <2>2, <2>5 DEF BootNext, Main
<1>3. OrderInv => AppAfterDsp
  BY DEF OrderInv, AppAfterDsp
<1> QED
  BY <1>1, <1>2, <1>3, PTL DEF BootSpec

-----------------------------------------------------------------------------
(* Nothing is waited for longer than one more pass.                        *)

\* What a delay has added up, in cycles.
Elapsed(d) == d.us * Cycles + d.cycles

\* While main comes round in time, what a delay in use has added up and what has
\* passed since its last read are not less than the time since it was started; so a
\* delay whose time had passed at its last read has added up its time.
Exact(p) ==
  stage[p] \in {"release", "settle"} /\ ~aliased =>
    /\ delay[p].cycles < Cycles
    /\ gap[p] <= Period => real[p] <= Elapsed(delay[p]) + gap[p]
    /\ passed[p] => delay[p].time * Cycles <= Elapsed(delay[p])

ExactInv ==
  /\ aliased \in BOOLEAN /\ passed \in [Parts -> BOOLEAN]
  /\ \A p \in Parts : Exact(p)

\* A call that comes less than a period after the one before adds up all of the time
\* between them.
LEMMA DeltaExact ==
  ASSUME NEW s \in 0 .. Period, NEW c \in 0 .. Period, NEW g \in 0 .. Period, At(s, c, g)
  PROVE  Delta(s, c) = g
<1> USE DelayAssumption DEF DelayAssumption
<1>1. CASE c >= s
  BY <1>1 DEF Delta, At
<1>2. CASE ~(c >= s)
  BY <1>2 DEF Delta, At
<1> QED
  BY <1>1, <1>2

\* A part none of whose entries change, while nothing is undone of aliased.
LEMMA ExactOther ==
  ASSUME NEW p, Exact(p), stage'[p] = stage[p], delay'[p] = delay[p],
         real'[p] = real[p], gap'[p] = gap[p], passed'[p] = passed[p], aliased => aliased'
  PROVE  Exact(p)'
BY DEF Exact, Elapsed

\* delay_start begins at nothing.
LEMMA ExactRestart ==
  ASSUME IInv, ExactInv, NEW p \in Parts, NEW t \in Nat, NEW s,
         stage' = [stage EXCEPT ![p] = s], Restart(p, t), aliased' = aliased
  PROVE  ExactInv'
<1> USE DelayAssumption DEF DelayAssumption
<1>1. /\ delay' = [delay EXCEPT ![p] = Started(t, count)]
      /\ real' = [real EXCEPT ![p] = 0] /\ gap' = [gap EXCEPT ![p] = 0]
      /\ passed' = [passed EXCEPT ![p] = FALSE]
  BY DEF Restart
<1>2. /\ stage \in [Parts -> Stages] /\ delay \in [Parts -> Delays]
      /\ real \in [Parts -> 0 .. Cap] /\ gap \in [Parts -> 0 .. Period + 1]
      /\ passed \in [Parts -> BOOLEAN] /\ aliased \in BOOLEAN
  BY DEF IInv, TypeInv, ExactInv
<1>3. Exact(p)'
  <2>1. /\ delay'[p] = Started(t, count) /\ real'[p] = 0 /\ gap'[p] = 0
        /\ passed'[p] = FALSE
    BY <1>1, <1>2
  <2>2. Elapsed(delay'[p]) = 0 /\ delay'[p].cycles = 0
    BY <2>1 DEF Started, Elapsed
  <2>3. Elapsed(delay[p])' = Elapsed(delay'[p])
    BY DEF Elapsed
  <2> QED BY <2>1, <2>2, <2>3 DEF Exact
<1>4. ASSUME NEW o \in Parts \ {p} PROVE Exact(o)'
  <2>1. /\ stage'[o] = stage[o] /\ delay'[o] = delay[o] /\ real'[o] = real[o]
        /\ gap'[o] = gap[o] /\ passed'[o] = passed[o]
    BY <1>1, <1>2
  <2>2. Exact(o)
    BY DEF ExactInv
  <2> QED BY <2>1, <2>2, ExactOther
<1>5. passed' \in [Parts -> BOOLEAN] /\ aliased' \in BOOLEAN
  BY <1>1, <1>2
<1> QED BY <1>3, <1>4, <1>5 DEF ExactInv

LEMMA ExactInit == BootStart => ExactInv
<1> SUFFICES ASSUME BootStart PROVE ExactInv
  OBVIOUS
<1>1. passed \in [Parts -> BOOLEAN] /\ aliased \in BOOLEAN
  BY DEF BootStart
<1>2. ASSUME NEW p \in Parts PROVE Exact(p)
  <2>1. stage[p] \notin {"release", "settle"}
    BY DEF BootStart, Parts
  <2> QED BY <2>1 DEF Exact
<1> QED BY <1>1, <1>2 DEF ExactInv

LEMMA ExactStep == ASSUME IInv, ExactInv, [BootNext]_bootVars PROVE ExactInv'
<1> USE DelayAssumption, BootAssumption DEF DelayAssumption, BootAssumption
<1>0. /\ stage \in [Parts -> Stages] /\ delay \in [Parts -> Delays]
      /\ real \in [Parts -> 0 .. Cap] /\ gap \in [Parts -> 0 .. Period + 1]
      /\ passed \in [Parts -> BOOLEAN] /\ aliased \in BOOLEAN
      /\ \A p \in Parts : Exact(p)
  BY DEF IInv, TypeInv, ExactInv
<1>1. CASE Advance
  <2>1. UNCHANGED <<stage, delay, passed, aliased>>
    BY <1>1 DEF Advance, taskVars
  <2>2. ASSUME NEW p \in Parts PROVE Exact(p)'
    <3>1. /\ real'[p] = IF real[p] < Cap THEN real[p] + 1 ELSE Cap
          /\ gap'[p] = IF gap[p] <= Period THEN gap[p] + 1 ELSE gap[p]
      BY <1>1 DEF Advance
    <3>2. delay[p].us \in Nat /\ delay[p].cycles \in Nat /\ real[p] \in 0 .. Cap
          /\ gap[p] \in 0 .. Period + 1
      BY <1>0 DEF Delays
    <3>3. Elapsed(delay[p]) \in Nat
      BY <3>2 DEF Elapsed
    <3>4. Elapsed(delay[p])' = Elapsed(delay[p])
      BY <2>1 DEF Elapsed
    <3>5. gap[p] <= Period /\ real[p] <= Elapsed(delay[p]) + gap[p]
          => real'[p] <= Elapsed(delay[p]) + gap'[p]
      BY <3>1, <3>2, <3>3
    <3>6. gap'[p] <= Period => gap[p] <= Period
      BY <3>1, <3>2
    <3>7. Exact(p)
      BY <1>0
    <3> QED BY <2>1, <3>4, <3>5, <3>6, <3>7 DEF Exact
  <2> QED BY <1>0, <2>1, <2>2 DEF ExactInv
<1>2. CASE UserTask
  <2>1. UNCHANGED <<stage, delay, passed, real, gap, aliased>>
    BY <1>2 DEF UserTask, taskVars
  <2> QED BY <1>0, <2>1, ExactOther DEF ExactInv
<1>3. ASSUME NEW p \in Parts, InitTask(p) PROVE ExactInv'
  <2>1. stage' = [stage EXCEPT ![p] = "assert"] /\ UNCHANGED <<delay, passed, real, gap, aliased>>
    BY <1>3 DEF InitTask
  <2>2. ASSUME NEW o \in Parts PROVE Exact(o)'
    <3>1. CASE o = p
      BY <1>0, <2>1, <3>1 DEF Exact
    <3>2. CASE o # p
      <4>1. stage'[o] = stage[o]
        BY <1>0, <2>1, <3>2
      <4> QED BY <1>0, <2>1, <4>1, ExactOther
    <3> QED BY <3>1, <3>2
  <2> QED BY <1>0, <2>1, <2>2 DEF ExactInv
<1>4. ASSUME NEW p \in Parts, AssertReset(p) PROVE ExactInv'
  <2>1. stage' = [stage EXCEPT ![p] = "release"] /\ Restart(p, Hold[p]) /\ aliased' = aliased
    BY <1>4 DEF AssertReset
  <2>2. Hold[p] \in Nat
    OBVIOUS
  <2> QED BY ONLY IInv, ExactInv, p \in Parts, <2>1, <2>2, ExactRestart
<1>5. ASSUME NEW p \in Parts, Wait(p) PROVE ExactInv'
  <2>1. /\ stage[p] \in {"release", "settle"} /\ Reads(delay[p]) /\ count' = count
        /\ delay' = [delay EXCEPT ![p] = Called(delay[p], count)]
        /\ gap' = [gap EXCEPT ![p] = 0] /\ real' = real /\ stage' = stage
        /\ passed' = [passed EXCEPT ![p] = real[p] >= delay[p].time * Cycles]
        /\ aliased' = (aliased \/ gap[p] > Period)
    BY <1>5 DEF Wait
  <2>2. /\ count \in 0 .. Period /\ real[p] \in 0 .. Cap /\ gap[p] \in 0 .. Period + 1
        /\ delay[p] \in Delays /\ delay[p].start \in 0 .. Period /\ delay[p].time \in Nat
        /\ delay[p].us \in Nat /\ delay[p].cycles \in Nat
        /\ At(delay[p].start, count, gap[p])
    BY <2>1 DEF IInv, TypeInv, Delays, Sound
  <2> DEFINE d == Called(delay[p], count)
  <2>3. Delta(delay[p].start, count) \in Nat
    BY <2>2, DeltaBound
  <2>4. /\ d.cycles < Cycles /\ d.time = delay[p].time
        /\ Elapsed(d) = Elapsed(delay[p]) + Delta(delay[p].start, count)
    BY <2>1, <2>2, <2>3, CallReads DEF Elapsed
  <2>5. delay'[p] = d /\ gap'[p] = 0 /\ passed'[p] = (real[p] >= delay[p].time * Cycles)
    BY <1>0, <2>1
  <2> HIDE DEF d
  <2>6. ASSUME ~aliased'
        PROVE  real[p] <= Elapsed(d)
    <3>1. ~aliased /\ gap[p] \in 0 .. Period
      <4>1. ~aliased /\ ~(gap[p] > Period)
        BY <2>1, <2>6
      <4> QED BY <2>2, <4>1
    <3>2. Delta(delay[p].start, count) = gap[p]
      BY <2>2, <3>1, DeltaExact
    <3>3. real[p] <= Elapsed(delay[p]) + gap[p]
      BY <1>0, <2>1, <3>1 DEF Exact
    <3> QED BY <2>4, <3>2, <3>3
  <2>7. Exact(p)'
    <3>1. Elapsed(d) \in Nat /\ delay[p].time * Cycles \in Nat
      <4>1. Elapsed(delay[p]) \in Nat /\ delay[p].time * Cycles \in Nat
        BY <2>2 DEF Elapsed
      <4> QED BY <2>3, <2>4, <4>1
    <3>2. Elapsed(delay[p])' = Elapsed(d)
      BY <2>5 DEF Elapsed
    <3>3. ASSUME ~aliased'
          PROVE  /\ gap'[p] <= Period => real'[p] <= Elapsed(d) + gap'[p]
                 /\ passed'[p] => delay'[p].time * Cycles <= Elapsed(d)
      <4>1. real[p] <= Elapsed(d)
        BY <2>6, <3>3
      <4>2. real'[p] <= Elapsed(d) + gap'[p]
        BY <2>1, <2>2, <2>5, <3>1, <4>1
      <4>3. passed'[p] => delay[p].time * Cycles <= real[p]
        BY <2>2, <2>5, <3>1
      <4>4. passed'[p] => delay[p].time * Cycles <= Elapsed(d)
        BY <2>2, <3>1, <4>1, <4>3
      <4>5. delay'[p].time = delay[p].time
        BY <2>4, <2>5
      <4> QED BY <4>2, <4>4, <4>5
    <3> QED BY <2>4, <2>5, <3>2, <3>3 DEF Exact
  <2>8. ASSUME NEW o \in Parts \ {p} PROVE Exact(o)'
    <3>1. /\ stage'[o] = stage[o] /\ delay'[o] = delay[o] /\ real'[o] = real[o]
          /\ gap'[o] = gap[o] /\ passed'[o] = passed[o] /\ (aliased => aliased')
      BY <1>0, <2>1
    <3> QED BY <1>0, <3>1, ExactOther
  <2>9. passed' \in [Parts -> BOOLEAN] /\ aliased' \in BOOLEAN
    BY <1>0, <2>1, <2>2
  <2> QED BY <2>7, <2>8, <2>9 DEF ExactInv
<1>6. ASSUME NEW p \in Parts, ReleaseReset(p) PROVE ExactInv'
  <2>1. stage' = [stage EXCEPT ![p] = "settle"] /\ Restart(p, Settle[p]) /\ aliased' = aliased
    BY <1>6 DEF ReleaseReset
  <2>2. Settle[p] \in Nat
    OBVIOUS
  <2> QED BY ONLY IInv, ExactInv, p \in Parts, <2>1, <2>2, ExactRestart
<1>7. ASSUME NEW p \in Parts, Boot(p) PROVE ExactInv'
  <2>1. /\ stage' = [stage EXCEPT ![p] = "run"] /\ UNCHANGED <<passed, real, gap, aliased>>
        /\ delay' = [delay EXCEPT ![p] = Called(delay[p], count)]
    BY <1>7 DEF Boot
  <2>2. ASSUME NEW o \in Parts PROVE Exact(o)'
    <3>1. CASE o = p
      BY <1>0, <2>1, <3>1 DEF Exact
    <3>2. CASE o # p
      <4>1. stage'[o] = stage[o] /\ delay'[o] = delay[o]
        BY <1>0, <2>1, <3>2
      <4> QED BY <1>0, <2>1, <4>1, ExactOther
    <3> QED BY <3>1, <3>2
  <2> QED BY <1>0, <2>1, <2>2 DEF ExactInv
<1>8. ASSUME NEW p \in Parts, RunTask(p) PROVE ExactInv'
  <2>1. UNCHANGED <<stage, delay, passed, real, gap, aliased>>
    BY <1>8 DEF RunTask
  <2> QED BY <1>0, <2>1, ExactOther DEF ExactInv
<1>9. CASE UNCHANGED bootVars
  <2>1. UNCHANGED <<stage, delay, passed, real, gap, aliased>>
    BY <1>9 DEF bootVars, taskVars
  <2> QED BY <1>0, <2>1, ExactOther DEF ExactInv
<1> QED
  BY <1>1, <1>2, <1>3, <1>4, <1>5, <1>6, <1>7, <1>8, <1>9 DEF BootNext, Main, Task

\* A delay whose time had passed at its last read does not read the timer again.
LEMMA PassedStops ==
  ASSUME IInv, ExactInv, NEW p \in Parts, stage[p] \in {"release", "settle"},
         passed[p], ~aliased
  PROVE  ~Reads(delay[p])
<1> USE DelayAssumption DEF DelayAssumption
<1>1. PICK t \in Nat, u \in Nat, c \in Nat :
        t = delay[p].time /\ u = delay[p].us /\ c = delay[p].cycles
  BY DEF IInv, TypeInv, Delays
<1>2. c < Cycles /\ t * Cycles <= u * Cycles + c
  BY <1>1 DEF ExactInv, Exact, Elapsed
<1>3. ASSUME u < t PROVE FALSE
  <2>1. PICK k \in Nat : t = u + 1 + k
    <3>1. t - u - 1 \in Nat /\ t = u + 1 + (t - u - 1)
      BY <1>3
    <3> QED BY <3>1
  <2>2. t * Cycles = u * Cycles + Cycles + k * Cycles /\ k * Cycles \in Nat
        /\ u * Cycles \in Nat
    BY <2>1
  <2> QED BY <1>2, <2>2
<1> QED BY <1>1, <1>3 DEF Reads

\* For every timer period, cycles to a microsecond and times, a chip whose time had
\* passed when main last looked moves on at main's next pass, if main comes round
\* once in a period (svc_delay.c: "this only works if called at least once per
\* second"; svc_dsp.c, svc_display.c).
THEOREM ChipsPrompt == BootSpec => Prompt
<1>1. IInv /\ ExactInv /\ [BootNext]_bootVars =>
        [\A p \in Parts :
           /\ main = p /\ main' # p /\ stage[p] \in {"release", "settle"}
           /\ passed[p] /\ ~aliased
           => stage'[p] # stage[p]]_bootVars
  <2> SUFFICES ASSUME IInv, ExactInv, BootNext, NEW p \in Parts, main = p, main' # p,
                      stage[p] \in {"release", "settle"}, passed[p], ~aliased
               PROVE  stage'[p] # stage[p]
    OBVIOUS
  <2>1. ~Reads(delay[p])
    BY PassedStops
  <2>2. ~Advance /\ ~UserTask
    BY DEF Advance, mainVars, UserTask, Parts
  <2>3. PICK o \in Parts : Task(o)
    BY <2>2 DEF BootNext, Main
  <2>4. o = p
    BY <2>3 DEF Task, InitTask, AssertReset, Wait, ReleaseReset, Boot, RunTask, Stepped
  <2>5. ReleaseReset(p) \/ Boot(p)
    BY <2>1, <2>3, <2>4 DEF Task, InitTask, AssertReset, Wait, RunTask
  <2> QED
    BY <2>5 DEF ReleaseReset, Boot, IInv, TypeInv
<1>2. BootSpec => []ExactInv
  BY BootInit, BootStep, ExactInit, ExactStep, PTL DEF BootSpec
<1> QED
  BY <1>1, <1>2, SoundDelays, PTL DEF BootSpec, Prompt

\* Byte i of a message as it is sent, counted from 1; zeros follow it.
ByteAt(m, i) ==
  IF 1 <= i /\ i <= 4 THEN <<Start, m.type, m.id, Len(m.payload)>>[i]
  ELSE IF 5 <= i /\ i <= 4 + Len(m.payload) THEN m.payload[i - 4] ELSE 0

\* The bytes after which the parser handles a message.
Extent(m) == IF m.payload = <<>> THEN 5 ELSE 4 + Len(m.payload)

Rests(p) == p.state = "start" /\ p.count = 0

\* The parser has taken the first i bytes of m.
Parsed(p, m, i) ==
  /\ p.state = IF i <= 3 THEN <<"type", "id", "length">>[i] ELSE "payload"
  /\ i >= 2 => p.type = m.type
  /\ i >= 3 => p.id = m.id
  /\ i >= 4 => p.length = Len(m.payload)
  /\ p.count = IF i <= 4 THEN 0 ELSE i - 4
  /\ \A j \in 1 .. p.count : p.payload[j] = m.payload[j]

\* The bytes on their way to the DSP, the first the next one it takes.
Outgoing == dspRx \o (txbuf \o (armed \o (txq \o out)))
Newest == calls[Len(calls)]

\* With byte i of call k, or a zero after it, the DSP has handled it.
Over(k, i) == k = 0 \/ i >= Extent(calls[k])

Expected(k, i) == IF k = 0 THEN 0 ELSE ByteAt(calls[k], i)

\* Byte p on its way to the DSP is byte at[p] of call of[p] or a zero after it;
\* of[0] and at[0] are those of the byte the DSP took last.
Laid(of, at) ==
  /\ of \in [0 .. Len(Outgoing) -> 0 .. Len(calls)]
  /\ at \in [0 .. Len(Outgoing) -> Nat \ {0}]
  /\ \A p \in 1 .. Len(Outgoing) :
       /\ Outgoing[p] = Expected(of[p], at[p])
       /\ \/ of[p] = of[p - 1] /\ at[p] = at[p - 1] + 1
          \/ of[p] = of[p - 1] + 1 /\ at[p] = 1 /\ Over(of[p - 1], at[p - 1])
  /\ of[Len(Outgoing)] = Len(calls)
  /\ calls # <<>> => at[Len(Outgoing)] >= 4 + Len(Newest.payload)
  /\ padded => Over(of[Len(Outgoing)], at[Len(Outgoing)])

\* What the DSP has made of the bytes it took.
Taken(k, i) ==
  /\ Len(executed) = IF Over(k, i) THEN k ELSE k - 1
  /\ IF Over(k, i) THEN Rests(dsp) ELSE Parsed(dsp, calls[k], i)

ExecutedInv ==
  /\ Len(executed) <= Len(calls)
  /\ \A k \in 1 .. Len(executed) : executed[k] = calls[k]

Parser == [state : {"start", "type", "id", "length", "payload"}, type : Byte, id : Byte,
           length : Byte, payload : [1 .. 8 -> Byte], count : Nat]

IsMessage(m) ==
  /\ m.type \in Byte /\ m.id \in Byte
  /\ m.payload \in Seq(Byte) /\ Len(m.payload) \in Nat /\ Len(m.payload) <= 8

LEMMA SmallBytes == \A n \in Nat : n <= 255 => n \in Byte
BY DEF Byte

\* A function on 1 .. n is a sequence.
LEMMA IsSequence ==
  ASSUME NEW n \in Nat, NEW S, NEW v \in [1 .. n -> S]
  PROVE  v \in Seq(S) /\ Len(v) = n
<1>1. v = [i \in 1 .. n |-> v[i]] OBVIOUS
<1>2. \A i \in 1 .. n : v[i] \in S OBVIOUS
<1>3. [i \in 1 .. n |-> v[i]] \in Seq(S) /\ Len([i \in 1 .. n |-> v[i]]) = n BY <1>2
<1> QED BY <1>1, <1>3

LEMMA ConcatAt ==
  ASSUME NEW S, NEW s \in Seq(S), NEW t \in Seq(S)
  PROVE  /\ s \o t \in Seq(S) /\ Len(s) \in Nat /\ Len(t) \in Nat
         /\ Len(s \o t) = Len(s) + Len(t)
         /\ \A i \in Int : /\ 1 <= i /\ i <= Len(s) => (s \o t)[i] = s[i]
                         /\ Len(s) < i /\ i <= Len(s) + Len(t) => (s \o t)[i] = t[i - Len(s)]
OBVIOUS

Kinds(m) ==
  \/ /\ m.type = Module /\ m.id = GetValue /\ Len(m.payload) = 4
     /\ m.payload[3] \in Indexes /\ m.payload[4] = 0
  \/ /\ m.type = Module /\ m.id = SetValue /\ Len(m.payload) = 8
     /\ m.payload[3] \in Indexes /\ m.payload[4] = 0
  \/ m.type = System /\ m.id \in {GetPortState, GetProfile} /\ m.payload = <<>>

\* What the application may send.
LEMMA CallKinds ==
  ASSUME NEW m \in Calls
  PROVE  IsMessage(m) /\ m = Message(m.type, m.id, m.payload) /\ Kinds(m)
<1>1. Indexes \subseteq Byte /\ Values \subseteq [1 .. 4 -> Byte]
  BY ProtocolAssumption DEF ProtocolAssumption
<1>2. /\ Module \in Byte /\ System \in Byte /\ GetValue \in Byte /\ SetValue \in Byte
      /\ GetPortState \in Byte /\ GetProfile \in Byte
  BY SmallBytes DEF Module, System, GetValue, SetValue, GetPortState, GetProfile
<1>3. \A type, id, payload : /\ Message(type, id, payload).type = type
                            /\ Message(type, id, payload).id = id
                            /\ Message(type, id, payload).payload = payload
  BY DEF Message
<1>4. ASSUME NEW i \in Indexes
      PROVE  /\ Param(i) \in Seq(Byte) /\ Len(Param(i)) = 4 /\ Len(Param(i)) \in Nat
             /\ Param(i)[3] = i /\ Param(i)[4] = 0
  BY <1>1, SmallBytes DEF Param
<1>5. ASSUME NEW i \in Indexes, m = Message(Module, GetValue, Param(i))
      PROVE  IsMessage(m) /\ m = Message(m.type, m.id, m.payload) /\ Kinds(m)
  <2>1. m.type = Module /\ m.id = GetValue /\ m.payload = Param(i) BY <1>3, <1>5
  <2>2. m.payload \in Seq(Byte) /\ Len(m.payload) \in Nat /\ Len(m.payload) = 4
    BY <1>4, <2>1
  <2>3. IsMessage(m) BY <1>2, <2>1, <2>2 DEF IsMessage
  <2>4. Kinds(m) BY <1>4, <2>1 DEF Kinds
  <2> QED BY <1>5, <2>1, <2>3, <2>4
<1>6. ASSUME NEW i \in Indexes, NEW v \in Values, m = Message(Module, SetValue, Param(i) \o v)
      PROVE  IsMessage(m) /\ m = Message(m.type, m.id, m.payload) /\ Kinds(m)
  <2> DEFINE s == Param(i) \o v
  <2>1. v \in [1 .. 4 -> Byte] BY <1>1
  <2>2. v \in Seq(Byte) /\ Len(v) = 4 BY <2>1, IsSequence
  <2>3. s \in Seq(Byte) /\ Len(s) \in Nat /\ Len(s) = 8 /\ s[3] = i /\ s[4] = 0
    <3>1. Param(i) \in Seq(Byte) /\ v \in Seq(Byte) BY <1>4, <2>2
    <3>2. /\ s \in Seq(Byte) /\ Len(s) = Len(Param(i)) + Len(v)
          /\ \A j \in Int : 1 <= j /\ j <= Len(Param(i)) => s[j] = Param(i)[j]
      BY <3>1, ConcatAt
    <3> QED BY <1>4, <2>2, <3>2
  <2> HIDE DEF s
  <2>4. m.type = Module /\ m.id = SetValue /\ m.payload = s
    <3>1. m = Message(Module, SetValue, s) BY <1>6 DEF s
    <3> QED BY <1>3, <3>1
  <2>5. IsMessage(m)
    <3>1. s \in Seq(Byte) /\ Len(s) \in Nat /\ Len(s) <= 8 BY <2>3
    <3>2. m.payload \in Seq(Byte) /\ Len(m.payload) \in Nat /\ Len(m.payload) <= 8
      BY <3>1, <2>4
    <3> QED BY <1>2, <2>4, <3>2 DEF IsMessage
  <2>6. Kinds(m) BY <2>3, <2>4 DEF Kinds
  <2> QED BY <1>6, <2>4, <2>5, <2>6 DEF s
<1>7. ASSUME NEW id \in {GetPortState, GetProfile}, m = Message(System, id, <<>>)
      PROVE  IsMessage(m) /\ m = Message(m.type, m.id, m.payload) /\ Kinds(m)
  <2>1. <<>> \in Seq(Byte) /\ Len(<<>>) = 0 OBVIOUS
  <2>2. m.type = System /\ m.id = id /\ m.payload = <<>> BY <1>3, <1>7
  <2>3. IsMessage(m) BY <1>2, <2>1, <2>2 DEF IsMessage
  <2>4. Kinds(m) BY <2>2 DEF Kinds
  <2> QED BY <1>7, <2>2, <2>3, <2>4
<1> QED BY <1>5, <1>6, <1>7 DEF Calls

\* What _transmit_message sends, byte by byte.
LEMMA Encoded ==
  ASSUME NEW m, IsMessage(m)
  PROVE  /\ Encode(m) \in Seq(Byte) /\ Len(Encode(m)) = 4 + Len(m.payload)
         /\ \A i \in 1 .. 4 + Len(m.payload) : Encode(m)[i] = ByteAt(m, i)
<1> DEFINE header == <<Start, m.type, m.id, Len(m.payload)>>
<1>1. Start \in Byte /\ Len(m.payload) \in Byte BY SmallBytes DEF Start, IsMessage
<1>2. header \in Seq(Byte) /\ Len(header) = 4 BY <1>1 DEF IsMessage
<1>3. Encode(m) = header \o m.payload BY DEF Encode
<1>4. ASSUME NEW i \in 1 .. 4 + Len(m.payload)
      PROVE  ByteAt(m, i) = IF i <= 4 THEN header[i] ELSE m.payload[i - 4]
  BY DEF ByteAt, IsMessage
<1> HIDE DEF header
<1>5. /\ header \o m.payload \in Seq(Byte) /\ Len(header \o m.payload) = 4 + Len(m.payload)
      /\ \A i \in 1 .. 4 + Len(m.payload) :
           (header \o m.payload)[i] = IF i <= 4 THEN header[i] ELSE m.payload[i - 4]
  <2> DEFINE s == m.payload
  <2>1. s \in Seq(Byte) /\ Len(s) \in Nat BY DEF IsMessage
  <2> HIDE DEF s
  <2>2. header \in Seq(Byte) BY <1>2
  <2>3. /\ header \o s \in Seq(Byte) /\ Len(header \o s) = Len(header) + Len(s)
        /\ \A i \in 1 .. Len(header) + Len(s) :
             (header \o s)[i] = IF i <= Len(header) THEN header[i] ELSE s[i - Len(header)]
    BY <2>1, <2>2
  <2>4. Len(header) = 4 BY <1>2
  <2> QED BY <2>3, <2>4 DEF s
<1> QED BY <1>3, <1>4, <1>5

\* Every byte of a message, and every zero after it, is a byte.
LEMMA ByteAtType ==
  ASSUME NEW m, IsMessage(m), NEW i \in Int
  PROVE  ByteAt(m, i) \in Byte
<1>1. Start \in Byte /\ Len(m.payload) \in Byte /\ 0 \in Byte
  BY SmallBytes DEF Start, IsMessage
<1>2. ASSUME 1 <= i, i <= 4 PROVE i = 1 \/ i = 2 \/ i = 3 \/ i = 4 BY <1>2
<1>3. ASSUME 1 <= i, i <= 4 PROVE <<Start, m.type, m.id, Len(m.payload)>>[i] \in Byte
  BY <1>1, <1>2, <1>3 DEF IsMessage
<1>4. ASSUME 5 <= i, i <= 4 + Len(m.payload) PROVE m.payload[i - 4] \in Byte
  BY <1>4 DEF IsMessage
<1> QED BY <1>1, <1>3, <1>4 DEF ByteAt

LEMMA ParserFields ==
  ASSUME NEW p \in Parser
  PROVE  /\ p.payload \in [1 .. 8 -> Byte] /\ p.count \in Nat /\ p.length \in Nat
         /\ p.length \in Byte /\ p.type \in Byte /\ p.id \in Byte
         /\ p.state \in {"start", "type", "id", "length", "payload"}
<1>1. \A x \in Byte : x \in Nat BY DEF Byte
<1> QED BY <1>1 DEF Parser

\* What the payload step stores.
LEMMA FillStores ==
  ASSUME NEW p \in Parser, NEW b \in Byte, NEW q, q = Fill(p, b)
  PROVE  /\ q \in Parser
         /\ q.state = p.state /\ q.type = p.type /\ q.id = p.id /\ q.length = p.length
         /\ p.count >= p.length => q = p
         /\ p.count < p.length /\ p.count < 8 =>
              /\ q.payload = [p.payload EXCEPT ![p.count + 1] = b]
              /\ q.count = p.count + 1
<1>1. /\ p.payload \in [1 .. 8 -> Byte] /\ p.count \in Nat /\ p.length \in Nat
  BY ParserFields
<1>2. ASSUME NEW x \in [1 .. 8 -> Byte], NEW y \in Nat, q = [p EXCEPT !.payload = x, !.count = y]
      PROVE  /\ q \in Parser /\ q.payload = x /\ q.count = y
             /\ q.state = p.state /\ q.type = p.type /\ q.id = p.id /\ q.length = p.length
  BY <1>2 DEF Parser
<1>3. CASE p.count >= p.length
  <2>1. q = p BY <1>1, <1>3 DEF Fill
  <2> QED BY <1>1, <1>3, <2>1
<1>4. CASE p.count < p.length
  <2> DEFINE x == IF p.count < 8 THEN [p.payload EXCEPT ![p.count + 1] = b] ELSE p.payload
  <2>1. q = [p EXCEPT !.payload = x, !.count = p.count + 1]
    BY <1>1, <1>4 DEF Fill
  <2>2. x \in [1 .. 8 -> Byte] /\ p.count + 1 \in Nat BY <1>1
  <2>3. p.count < 8 => x = [p.payload EXCEPT ![p.count + 1] = b] OBVIOUS
  <2> HIDE DEF x
  <2>4. q \in Parser /\ q.payload = x /\ q.count = p.count + 1
        /\ q.state = p.state /\ q.type = p.type /\ q.id = p.id /\ q.length = p.length
    BY <2>1, <2>2, <1>2
  <2> QED BY <2>3, <2>4, <1>1, <1>4
<1> QED BY <1>1, <1>3, <1>4

LEMMA ReceiveType ==
  ASSUME NEW p \in Parser, NEW b \in Byte
  PROVE  Receive(p, b) \in Parser
<1>1. Fill(p, b) \in Parser BY FillStores
<1> QED BY <1>1 DEF Receive, Parser

\* The bytes of the header are stored, each in its state.
LEMMA HeaderStores ==
  ASSUME NEW p \in Parser, NEW b \in Byte, NEW q, q = Receive(p, b)
  PROVE  /\ p.state = "type" => q.state = "id" /\ q.type = b
         /\ p.state = "id" => q.state = "length" /\ q.type = p.type /\ q.id = b
         /\ p.state = "length" =>
              q.state = "payload" /\ q.type = p.type /\ q.id = p.id /\ q.length = b
         /\ p.state \in {"type", "id", "length"} => q.count = p.count /\ ~Handles(p, b)
<1>1. CASE p.state = "type"
  <2>1. q = [p EXCEPT !.type = b, !.state = "id"] BY <1>1 DEF Receive
  <2> QED BY <1>1, <2>1 DEF Parser, Handles
<1>2. CASE p.state = "id"
  <2>1. q = [p EXCEPT !.id = b, !.state = "length"] BY <1>2 DEF Receive
  <2> QED BY <1>2, <2>1 DEF Parser, Handles
<1>3. CASE p.state = "length"
  <2>1. q = [p EXCEPT !.length = b, !.state = "payload"] BY <1>3 DEF Receive
  <2> QED BY <1>3, <2>1 DEF Parser, Handles
<1> QED BY <1>1, <1>2, <1>3

\* At rest the parser waits for a start byte.
LEMMA RestingSkips ==
  ASSUME NEW p \in Parser, Rests(p), NEW b \in Byte, b # Start
  PROVE  Receive(p, b) = p /\ ~Handles(p, b)
<1>1. [p EXCEPT !.state = p.state] = p BY DEF Parser
<1> QED BY <1>1 DEF Receive, Rests, Handles

LEMMA RestingStarts ==
  ASSUME NEW p \in Parser, Rests(p), NEW m
  PROVE  Parsed(Receive(p, Start), m, 1) /\ ~Handles(p, Start)
BY DEF Receive, Rests, Handles, Parsed, Parser

\* A byte of a message but its last one brings the parser one byte further.
LEMMA ParsesOn ==
  ASSUME NEW p \in Parser, NEW m, IsMessage(m), NEW i \in Nat, 1 <= i, i + 2 <= Extent(m),
         Parsed(p, m, i)
  PROVE  Parsed(Receive(p, ByteAt(m, i + 1)), m, i + 1) /\ ~Handles(p, ByteAt(m, i + 1))
<1> DEFINE b == ByteAt(m, i + 1)
<1>1. /\ m.payload \in Seq(Byte) /\ Len(m.payload) \in Nat /\ Len(m.payload) <= 8
      /\ b \in Byte /\ p.count \in Nat
  BY ByteAtType, ParserFields DEF IsMessage
<1>2. i <= 3 \/ i <= 2 + Len(m.payload)
  BY <1>1 DEF Extent
<1> DEFINE q == Receive(p, b)
<1>3. CASE i = 1
  <2>1. b = m.type BY <1>3 DEF ByteAt
  <2>2. p.state = "type" /\ p.count = 0 BY <1>3 DEF Parsed
  <2>3. q.state = "id" /\ q.type = b /\ q.count = 0 /\ ~Handles(p, b)
    BY <1>1, <2>2, HeaderStores
  <2> HIDE DEF q, b
  <2>4. Parsed(q, m, 2) BY <2>1, <2>3 DEF Parsed
  <2> QED BY <1>3, <2>3, <2>4 DEF q, b
<1>4. CASE i = 2
  <2>1. b = m.id BY <1>4 DEF ByteAt
  <2>2. p.state = "id" /\ p.count = 0 /\ p.type = m.type BY <1>4 DEF Parsed
  <2>3. q.state = "length" /\ q.type = p.type /\ q.id = b /\ q.count = 0 /\ ~Handles(p, b)
    BY <1>1, <2>2, HeaderStores
  <2> HIDE DEF q, b
  <2>4. Parsed(q, m, 3) BY <2>1, <2>2, <2>3 DEF Parsed
  <2> QED BY <1>4, <2>3, <2>4 DEF q, b
<1>5. CASE i = 3
  <2>1. b = Len(m.payload) BY <1>5 DEF ByteAt
  <2>2. p.state = "length" /\ p.count = 0 /\ p.type = m.type /\ p.id = m.id
    BY <1>5 DEF Parsed
  <2>3. /\ q.state = "payload" /\ q.type = p.type /\ q.id = p.id /\ q.length = b /\ q.count = 0
        /\ ~Handles(p, b)
    BY <1>1, <2>2, HeaderStores
  <2> HIDE DEF q, b
  <2>4. Parsed(q, m, 4) BY <2>1, <2>2, <2>3 DEF Parsed
  <2> QED BY <1>5, <2>3, <2>4 DEF q, b
<1>6. CASE i >= 4
  <2>1. i <= 2 + Len(m.payload) BY <1>1, <1>2, <1>6
  <2>2. b = m.payload[i - 3] BY <1>1, <2>1, <1>6 DEF ByteAt
  <2>3. /\ p.state = "payload" /\ p.type = m.type /\ p.id = m.id /\ p.length = Len(m.payload)
        /\ p.count = i - 4 /\ \A j \in 1 .. i - 4 : p.payload[j] = m.payload[j]
    BY <1>6 DEF Parsed
  <2> DEFINE f == Fill(p, b)
  <2>4. /\ f.state = p.state /\ f.type = p.type /\ f.id = p.id /\ f.length = p.length
        /\ f.payload = [p.payload EXCEPT ![p.count + 1] = b] /\ f.count = p.count + 1
    BY <1>1, <2>1, <2>3, <1>6, FillStores
  <2>5. ~Handles(p, b) BY <2>1, <2>3, <2>4, <1>1 DEF Handles
  <2>6. q = f BY <2>3, <2>5 DEF Receive
  <2> HIDE DEF f, b
  <2>7. \A j \in 1 .. i - 3 : f.payload[j] = m.payload[j]
    <3>1. p.payload \in [1 .. 8 -> Byte] BY ParserFields
    <3>2. p.count + 1 = i - 3 BY <2>3, <1>6
    <3>3. ASSUME NEW j \in 1 .. i - 3 PROVE f.payload[j] = IF j = i - 3 THEN b ELSE p.payload[j]
      <4>1. f.payload = [p.payload EXCEPT ![i - 3] = b] BY <3>2, <2>4
      <4>2. j \in 1 .. 8 /\ i - 3 \in 1 .. 8 BY <2>1, <1>1, <1>6
      <4> QED BY <4>1, <4>2, <3>1
    <3> QED BY <3>3, <2>2, <2>3, <1>6
  <2>8. Parsed(f, m, i + 1)
    BY <2>3, <2>4, <2>7, <1>6 DEF Parsed
  <2> QED BY <2>5, <2>6, <2>8 DEF b
<1> QED BY <1>3, <1>4, <1>5, <1>6

\* With its last byte a message is handled as it was sent, and the parser rests.
LEMMA ParsesAll ==
  ASSUME NEW p \in Parser, NEW m, IsMessage(m), Parsed(p, m, Extent(m) - 1),
         NEW b, b = ByteAt(m, Extent(m))
  PROVE  /\ Handles(p, b) /\ Rests(Receive(p, b))
         /\ Handled(p, b) = Message(m.type, m.id, Fill(p, b).payload)
         /\ p.length = Len(m.payload)
         /\ Fill(p, b).payload \in [1 .. 8 -> Byte]
         /\ \A j \in 1 .. Len(m.payload) : Fill(p, b).payload[j] = m.payload[j]
<1> DEFINE n == Len(m.payload)  i == Extent(m) - 1
<1>1. /\ m.payload \in Seq(Byte) /\ n \in Nat /\ n <= 8 /\ Extent(m) \in Int
  BY DEF IsMessage, Extent
<1>2. b \in Byte BY ByteAtType, <1>1
<1>3. n = 0 <=> m.payload = <<>> BY <1>1
<1>4. Extent(m) = (IF n = 0 THEN 5 ELSE 4 + n) /\ i >= 4 BY <1>1, <1>3 DEF Extent
<1>5. /\ p.state = "payload" /\ p.type = m.type /\ p.id = m.id /\ p.length = n
      /\ p.count = i - 4 /\ \A j \in 1 .. i - 4 : p.payload[j] = m.payload[j]
  BY <1>1, <1>4 DEF Parsed
<1>6. /\ Fill(p, b).count >= n
      /\ \A j \in 1 .. n : Fill(p, b).payload[j] = m.payload[j]
  <2>1. CASE n = 0
    <3>1. Fill(p, b) = p
      <4>1. p.count >= p.length BY <2>1, <1>4, <1>5
      <4> QED BY <4>1, <1>2, FillStores
    <3> QED BY <3>1, <2>1, <1>4, <1>5
  <2>2. CASE n # 0
    <3>1. b = m.payload[n] /\ p.count = n - 1 BY <2>2, <1>1, <1>4, <1>5 DEF ByteAt
    <3> DEFINE f == Fill(p, b)
    <3>2. f.payload = [p.payload EXCEPT ![p.count + 1] = b] /\ f.count = p.count + 1
      <4>1. p.count < p.length /\ p.count < 8 BY <3>1, <1>1, <1>5
      <4> QED BY <4>1, <1>2, FillStores
    <3>3. p.count + 1 = n BY <3>1, <1>1
    <3>4. p.payload \in [1 .. 8 -> Byte] BY ParserFields
    <3> HIDE DEF f
    <3>5. ASSUME NEW j \in 1 .. n PROVE f.payload[j] = IF j = n THEN b ELSE p.payload[j]
      <4>1. f.payload = [p.payload EXCEPT ![n] = b] BY <3>2, <3>3
      <4>2. n \in Nat /\ n <= 8 /\ j \in Int /\ 1 <= j /\ j <= n BY <1>1
      <4> HIDE DEF n
      <4>3. j \in 1 .. 8 /\ n \in 1 .. 8 BY <4>2
      <4> QED BY <4>1, <4>3, <3>4
    <3>6. \A j \in 1 .. n : f.payload[j] = m.payload[j]
      BY <3>5, <3>1, <1>4, <1>5, <1>1, <2>2
    <3> QED BY <3>2, <3>3, <3>6, <1>1 DEF f
  <2> QED BY <2>1, <2>2
<1>7. Fill(p, b) \in Parser BY <1>2, FillStores
<1>8. Handles(p, b) BY <1>5, <1>6 DEF Handles
<1>9. Receive(p, b) = [Fill(p, b) EXCEPT !.count = 0, !.state = "start"]
  BY <1>5, <1>8 DEF Receive
<1>10. Rests(Receive(p, b)) BY <1>7, <1>9 DEF Rests, Parser
<1>11. Handled(p, b) = Message(m.type, m.id, Fill(p, b).payload)
  BY <1>5 DEF Handled
<1>12. Fill(p, b).payload \in [1 .. 8 -> Byte] BY <1>7, ParserFields
<1> QED BY <1>5, <1>6, <1>8, <1>10, <1>11, <1>12

-----------------------------------------------------------------------------
ProtocolTypeInv ==
  /\ dsp \in Parser
  /\ out \in Seq(Byte) /\ txq \in Seq(Byte) /\ armed \in Seq(Byte)
  /\ txbuf \in Seq(Byte) /\ dspRx \in Seq(Byte)
  /\ calls \in Seq(Calls) /\ executed \in Seq(Calls)

\* Where main is tells what it has yet to queue, and a byte that is queued has one
\* armed before it, but where main is about to see to that.
DriverInv ==
  /\ pc \in {"task", "put", "test", "enable", "poll", "polled"}
  /\ pc = "put" => out # <<>>
  /\ pc \in {"task", "poll", "polled"} => out = <<>>
  /\ armed = <<>> /\ pc # "test" => txq = <<>>
  /\ armed = <<>> \/ \E b \in Byte : armed = <<b>>

LEMMA Ways ==
  ASSUME ProtocolTypeInv
  PROVE  Outgoing \in Seq(Byte) /\ Len(Outgoing) \in Nat
BY DEF ProtocolTypeInv, Outgoing

\* A byte that moves from the front of one queue to the end of the one before it.
LEMMA Moved ==
  ASSUME NEW a \in Seq(Byte), NEW b \in Seq(Byte), NEW r \in Seq(Byte), b # <<>>
  PROVE  /\ Append(a, Head(b)) \o (Tail(b) \o r) = a \o (b \o r)
         /\ Append(a, Head(b)) \in Seq(Byte) /\ Tail(b) \in Seq(Byte)
         /\ Head(b) \in Byte
<1>0. Head(b) \in Byte /\ Tail(b) \in Seq(Byte) BY HeadTailProperties
<1>1. PICK h \in Byte, t \in Seq(Byte) : h = Head(b) /\ t = Tail(b) BY <1>0
<1>2. b = <<h>> \o t BY <1>1
<1>3. Append(a, h) = a \o <<h>> /\ <<h>> \in Seq(Byte) /\ Append(a, h) \in Seq(Byte)
  OBVIOUS
<1>4. (a \o <<h>>) \o (t \o r) = a \o (<<h>> \o (t \o r))
  <2>1. t \o r \in Seq(Byte) BY ConcatProperties
  <2> QED BY <2>1, <1>3, ConcatAssociative
<1>5. <<h>> \o (t \o r) = (<<h>> \o t) \o r BY <1>1, <1>3, ConcatAssociative
<1> QED BY <1>1, <1>2, <1>3, <1>4, <1>5

\* The sequences that leave Outgoing as it is.
Forwards ==
  Put \/ Test \/ TxInterrupt \/ Exchange \/ RxInterrupt \/ CpuReceive \/ Enable
  \/ (PollReturns /\ UNCHANGED armed) \/ UNCHANGED protocolVars

LEMMA ForwardsWays ==
  ASSUME ProtocolTypeInv, DriverInv, Forwards
  PROVE  /\ Outgoing' = Outgoing /\ ProtocolTypeInv' /\ DriverInv'
         /\ UNCHANGED <<dsp, calls, executed, padded>>
<1>1. /\ out \in Seq(Byte) /\ txq \in Seq(Byte) /\ armed \in Seq(Byte)
      /\ txbuf \in Seq(Byte) /\ dspRx \in Seq(Byte)
  BY DEF ProtocolTypeInv
<1>2. UNCHANGED <<dsp, calls, executed, padded>>
  BY DEF Forwards, Put, Test, TxInterrupt, Exchange, RxInterrupt, CpuReceive, Enable,
         PollReturns, protocolVars, modules, history
<1>3. CASE Put
  <2>1. /\ out # <<>> /\ txq' = Append(txq, Head(out)) /\ out' = Tail(out) /\ pc' = "test"
        /\ UNCHANGED <<armed, txbuf, dspRx>>
    BY <1>3 DEF Put, DriverInv
  <2>2. txq' \o (out' \o <<>>) = txq \o (out \o <<>>) /\ txq' \in Seq(Byte) /\ out' \in Seq(Byte)
    BY <1>1, <2>1, Moved
  <2>3. txq' \o out' = txq \o out
    <3>1. out' \o <<>> = out' /\ out \o <<>> = out BY <1>1, <2>2, ConcatEmptySeq
    <3> QED BY <2>2, <3>1
  <2>4. Outgoing' = Outgoing BY <2>1, <2>3 DEF Outgoing
  <2>5. ProtocolTypeInv' BY <1>2, <2>1, <2>2 DEF ProtocolTypeInv
  <2>6. DriverInv' BY <2>1 DEF DriverInv
  <2> QED BY <1>2, <2>4, <2>5, <2>6
<1>4. CASE Test
  <2>1. CASE armed = <<>> /\ txq # <<>>
    <3>1. /\ armed' = <<Head(txq)>> /\ txq' = Tail(txq) /\ pc' = "enable"
          /\ UNCHANGED <<out, txbuf, dspRx>>
      BY <1>4, <2>1 DEF Test
    <3>2. armed' = Append(armed, Head(txq)) BY <2>1, <3>1
    <3>3. /\ armed' \o (txq' \o out) = armed \o (txq \o out)
          /\ armed' \in Seq(Byte) /\ txq' \in Seq(Byte) /\ Head(txq) \in Byte
      BY <1>1, <2>1, <3>1, <3>2, Moved
    <3>4. Outgoing' = Outgoing BY <3>1, <3>3 DEF Outgoing
    <3>5. ProtocolTypeInv' BY <1>2, <3>1, <3>3 DEF ProtocolTypeInv
    <3>6. DriverInv' BY <3>1, <3>3 DEF DriverInv
    <3> QED BY <1>2, <3>4, <3>5, <3>6
  <2>2. CASE ~(armed = <<>> /\ txq # <<>>)
    <3>1. UNCHANGED <<armed, txq, out, txbuf, dspRx>> /\ pc' = NextByte
      BY <1>4, <2>2 DEF Test
    <3>2. Outgoing' = Outgoing BY <3>1 DEF Outgoing
    <3>3. ProtocolTypeInv' BY <1>2, <3>1 DEF ProtocolTypeInv
    <3>4. DriverInv' BY <2>2, <3>1 DEF DriverInv, NextByte
    <3> QED BY <1>2, <3>2, <3>3, <3>4
  <2> QED BY <2>1, <2>2
<1>5. CASE TxInterrupt
  <2>1. PICK b \in Byte : armed = <<b>> BY <1>5 DEF TxInterrupt, DriverInv
  <2>2. /\ txbuf' = Append(txbuf, b) /\ UNCHANGED <<out, dspRx, pc>>
    BY <1>5, <2>1 DEF TxInterrupt, loop
  <2>3. /\ txbuf' \o (<<>> \o (txq \o out)) = txbuf \o (armed \o (txq \o out))
        /\ txbuf' \in Seq(Byte)
    <3>1. Head(armed) = b /\ Tail(armed) = <<>> /\ armed # <<>> BY <2>1
    <3>2. txq \o out \in Seq(Byte) BY <1>1, ConcatProperties
    <3>3. PICK x \in Seq(Byte), y \in Seq(Byte), z \in Seq(Byte) :
            x = txbuf /\ y = armed /\ z = txq \o out
      BY <1>1, <3>2
    <3>4. y # <<>> BY <3>1, <3>3
    <3>5. /\ Append(x, Head(y)) \o (Tail(y) \o z) = x \o (y \o z)
          /\ Append(x, Head(y)) \in Seq(Byte)
      BY <3>4, Moved
    <3> QED BY <2>2, <3>1, <3>3, <3>5
  <2>4. CASE txq = <<>>
    <3>1. armed' = <<>> /\ txq' = txq BY <1>5, <2>4 DEF TxInterrupt
    <3>2. Outgoing' = Outgoing BY <2>2, <2>3, <3>1 DEF Outgoing
    <3>3. ProtocolTypeInv' BY <1>2, <2>2, <2>3, <3>1 DEF ProtocolTypeInv
    <3>4. DriverInv' BY <2>2, <2>4, <3>1 DEF DriverInv
    <3> QED BY <1>2, <3>2, <3>3, <3>4
  <2>5. CASE txq # <<>>
    <3>1. armed' = <<Head(txq)>> /\ txq' = Tail(txq) BY <1>5, <2>5 DEF TxInterrupt
    <3>2. armed' = Append(<<>>, Head(txq)) /\ <<>> \in Seq(Byte) BY <3>1
    <3>3. /\ armed' \o (txq' \o out) = <<>> \o (txq \o out)
          /\ armed' \in Seq(Byte) /\ txq' \in Seq(Byte) /\ Head(txq) \in Byte
      BY <1>1, <2>5, <3>1, <3>2, Moved
    <3>4. Outgoing' = Outgoing BY <2>2, <2>3, <3>3 DEF Outgoing
    <3>5. ProtocolTypeInv' BY <1>2, <2>2, <2>3, <3>3 DEF ProtocolTypeInv
    <3>6. DriverInv' BY <2>2, <3>1, <3>3 DEF DriverInv
    <3> QED BY <1>2, <3>4, <3>5, <3>6
  <2> QED BY <2>4, <2>5
<1>6. CASE Exchange
  <2>1. /\ txbuf # <<>> /\ dspRx' = Append(dspRx, Head(txbuf)) /\ txbuf' = Tail(txbuf)
        /\ UNCHANGED <<armed, txq, out, pc>>
    BY <1>6 DEF Exchange, loop, transmit
  <2>2. armed \o (txq \o out) \in Seq(Byte) BY <1>1
  <2>3. /\ dspRx' \o (txbuf' \o (armed \o (txq \o out)))
             = dspRx \o (txbuf \o (armed \o (txq \o out)))
        /\ dspRx' \in Seq(Byte) /\ txbuf' \in Seq(Byte)
    <3>1. PICK x \in Seq(Byte), y \in Seq(Byte), z \in Seq(Byte) :
            x = dspRx /\ y = txbuf /\ z = armed \o (txq \o out)
      BY <1>1, <2>2
    <3>2. y # <<>> BY <2>1, <3>1
    <3>3. /\ Append(x, Head(y)) \o (Tail(y) \o z) = x \o (y \o z)
          /\ Append(x, Head(y)) \in Seq(Byte) /\ Tail(y) \in Seq(Byte)
      BY <3>2, Moved
    <3> QED BY <2>1, <3>1, <3>3
  <2>4. Outgoing' = Outgoing BY <2>1, <2>3 DEF Outgoing
  <2>5. ProtocolTypeInv' BY <1>2, <2>1, <2>3 DEF ProtocolTypeInv
  <2>6. DriverInv' BY <2>1 DEF DriverInv
  <2> QED BY <1>2, <2>4, <2>5, <2>6
<1>7. CASE UNCHANGED <<out, txq, armed, txbuf, dspRx>> /\ DriverInv'
  <2>1. Outgoing' = Outgoing BY <1>7 DEF Outgoing
  <2>2. ProtocolTypeInv' BY <1>2, <1>7 DEF ProtocolTypeInv
  <2> QED BY <1>2, <1>7, <2>1, <2>2
<1>8. CASE RxInterrupt \/ CpuReceive \/ UNCHANGED protocolVars
  <2>1. UNCHANGED <<out, txq, armed, txbuf, dspRx, pc>>
    BY <1>8 DEF RxInterrupt, CpuReceive, protocolVars, loop, transmit
  <2>2. DriverInv' BY <2>1 DEF DriverInv
  <2> QED BY <2>1, <2>2, <1>7
<1>9. CASE Enable \/ (PollReturns /\ UNCHANGED armed)
  <2>1. /\ UNCHANGED <<out, txq, armed, txbuf, dspRx>>
        /\ \/ pc = "enable" /\ pc' = NextByte
           \/ pc = "poll" /\ pc' = "polled"
           \/ pc = "polled" /\ pc' = "task"
    BY <1>9 DEF Enable, PollReturns, loop, transmit
  <2>2. DriverInv' BY <2>1 DEF DriverInv, NextByte
  <2> QED BY <2>1, <2>2, <1>7
<1> QED BY <1>3, <1>4, <1>5, <1>6, <1>8, <1>9 DEF Forwards

\* What the other steps do to the bytes on their way.
LEMMA CallWays ==
  ASSUME ProtocolTypeInv, DriverInv, NEW m \in Calls, Call(m)
  PROVE  /\ Len(Outgoing') = Len(Outgoing) + (4 + Len(m.payload))
         /\ \A p \in 1 .. Len(Outgoing) : Outgoing'[p] = Outgoing[p]
         /\ \A p \in 1 .. 4 + Len(m.payload) : Outgoing'[Len(Outgoing) + p] = ByteAt(m, p)
         /\ ProtocolTypeInv' /\ DriverInv'
<1> DEFINE e == Encode(m)
<1>1. /\ e \in Seq(Byte) /\ Len(e) = 4 + Len(m.payload) /\ Len(m.payload) \in Nat
      /\ \A p \in 1 .. 4 + Len(m.payload) : e[p] = ByteAt(m, p)
  BY CallKinds, Encoded DEF IsMessage
<1>2. e \in Seq(Byte) /\ e # <<>> BY <1>1
<1> HIDE DEF e
<1>3. /\ out = <<>> /\ out' = e /\ pc' = "put" /\ calls' = Append(calls, m)
      /\ UNCHANGED <<dspRx, txbuf, armed, txq, dsp, executed>>
      /\ armed = <<>> => txq = <<>>
  BY DEF Call, DriverInv, e, transmit, modules
<1>4. Outgoing' = Outgoing \o e
  <2>1. /\ dspRx \in Seq(Byte) /\ txbuf \in Seq(Byte) /\ armed \in Seq(Byte)
        /\ txq \in Seq(Byte) /\ txq \o <<>> = txq
    BY DEF ProtocolTypeInv
  <2>2. (armed \o txq) \o e = armed \o (txq \o e) BY <1>2, <2>1, ConcatAssociative
  <2>3. (txbuf \o (armed \o txq)) \o e = txbuf \o ((armed \o txq) \o e)
    <3>1. armed \o txq \in Seq(Byte) BY <2>1, ConcatProperties
    <3>2. PICK x \in Seq(Byte), y \in Seq(Byte) : x = txbuf /\ y = armed \o txq
      BY <2>1, <3>1
    <3>3. (x \o y) \o e = x \o (y \o e) BY <1>2, ConcatAssociative
    <3> QED BY <3>2, <3>3
  <2>4. (dspRx \o (txbuf \o (armed \o txq))) \o e = dspRx \o ((txbuf \o (armed \o txq)) \o e)
    <3>1. txbuf \o (armed \o txq) \in Seq(Byte) BY <2>1, ConcatProperties
    <3>2. PICK x \in Seq(Byte), y \in Seq(Byte) :
            x = dspRx /\ y = txbuf \o (armed \o txq)
      BY <2>1, <3>1
    <3>3. (x \o y) \o e = x \o (y \o e) BY <1>2, ConcatAssociative
    <3> QED BY <3>2, <3>3
  <2> QED BY <1>3, <2>1, <2>2, <2>3, <2>4 DEF Outgoing
<1>5. Outgoing \in Seq(Byte) BY Ways
<1> HIDE DEF Outgoing
<1>6. /\ Len(Outgoing') = Len(Outgoing) + Len(e)
      /\ \A p \in 1 .. Len(Outgoing) : Outgoing'[p] = Outgoing[p]
      /\ \A p \in 1 .. Len(e) : Outgoing'[Len(Outgoing) + p] = e[p]
  BY <1>2, <1>4, <1>5
<1>7. ProtocolTypeInv'
  <2>1. calls' \in Seq(Calls) BY <1>3 DEF ProtocolTypeInv
  <2> QED BY <1>2, <1>3, <2>1 DEF ProtocolTypeInv
<1>8. DriverInv' BY <1>2, <1>3 DEF DriverInv
<1> QED BY <1>1, <1>3, <1>6, <1>7, <1>8

LEMMA PollWays ==
  ASSUME ProtocolTypeInv, DriverInv, CpuPoll, armed = <<>>
  PROVE  Outgoing' = Append(Outgoing, 0) /\ ProtocolTypeInv' /\ DriverInv'
<1>1. /\ out = <<>> /\ txq = <<>> /\ armed' = <<0>> /\ pc' = "poll"
      /\ UNCHANGED <<dspRx, txbuf, txq, out, dsp, calls, executed>>
  BY DEF CpuPoll, DriverInv, modules
<1>2. dspRx \in Seq(Byte) /\ txbuf \in Seq(Byte) /\ 0 \in Byte
  BY SmallBytes DEF ProtocolTypeInv
<1>3. Outgoing = dspRx \o txbuf /\ Outgoing' = dspRx \o (txbuf \o <<0>>)
  BY <1>1, <1>2 DEF Outgoing
<1>4. Outgoing' = Append(Outgoing, 0)
  <2>1. (dspRx \o txbuf) \o <<0>> = dspRx \o (txbuf \o <<0>>) BY <1>2, ConcatAssociative
  <2>2. dspRx \o txbuf \in Seq(Byte) BY <1>2
  <2>3. Append(dspRx \o txbuf, 0) = (dspRx \o txbuf) \o <<0>> BY <1>2, <2>2, AppendIsConcat
  <2> QED BY <1>3, <2>1, <2>3
<1>5. ProtocolTypeInv' BY <1>1, <1>2 DEF ProtocolTypeInv
<1>6. DriverInv' BY <1>1, <1>2 DEF DriverInv
<1> QED BY <1>4, <1>5, <1>6

LEMMA TakeWays ==
  ASSUME ProtocolTypeInv, DriverInv, DspReceive
  PROVE  /\ Outgoing # <<>> /\ Head(dspRx) = Outgoing[1] /\ Outgoing' = Tail(Outgoing)
         /\ dspRx' \in Seq(Byte) /\ DriverInv'
<1>1. /\ dspRx \in Seq(Byte) /\ dspRx # <<>> /\ dspRx' = Tail(dspRx)
      /\ UNCHANGED <<txbuf, armed, txq, out, pc>>
  BY DEF ProtocolTypeInv, DspReceive, loop, transmit
<1> DEFINE r == txbuf \o (armed \o (txq \o out))
<1>2. r \in Seq(Byte) BY DEF ProtocolTypeInv
<1>3. Outgoing = dspRx \o r /\ Outgoing' = Tail(dspRx) \o r BY <1>1 DEF Outgoing
<1> HIDE DEF r
<1>4. Outgoing # <<>> /\ Head(dspRx) = Outgoing[1] /\ Outgoing' = Tail(Outgoing)
  BY <1>1, <1>2, <1>3
<1>5. DriverInv' BY <1>1 DEF DriverInv
<1> QED BY <1>1, <1>4, <1>5

-----------------------------------------------------------------------------
LEMMA ByteIsNat == \A x \in Byte : x \in Nat
BY DEF Byte

\* Eight bytes, as the payload array holds them.
LEMMA EightBytes ==
  ASSUME NEW f \in [1 .. 8 -> Byte]
  PROVE  /\ f \in Seq(Byte) /\ Len(f) = 8 /\ SubSeq(f, 1, 8) = f
         /\ SubSeq(f, 5, 8) \in [1 .. 4 -> Byte]
<1>1. f \in Seq(Byte) /\ Len(f) = 8 BY IsSequence
<1>2. SubSeq(f, 1, 8) = f BY <1>1
<1>3. SubSeq(f, 5, 8) = [i \in 1 .. 4 |-> f[i + 4]] BY <1>1
<1>4. \A i \in 1 .. 4 : f[i + 4] \in Byte OBVIOUS
<1> QED BY <1>1, <1>2, <1>3, <1>4

Begins(f, s) == \A j \in 1 .. Len(s) : f[j] = s[j]

\* A sequence cut off at length n is one of length n with the same elements.
LEMMA CutOff ==
  ASSUME NEW S, NEW f \in Seq(S), NEW s \in Seq(S), Len(s) <= Len(f), Begins(f, s)
  PROVE  SubSeq(f, 1, Len(s)) = s
BY DEF Begins

\* What the DSP records of call m when it handles it.
LEMMA HandledEffect ==
  ASSUME NEW m \in Calls, NEW f \in [1 .. 8 -> Byte], Begins(f, m.payload),
         NEW h, h = Message(m.type, m.id, f), NEW l, l = Len(m.payload)
  PROVE  [h EXCEPT !.payload = IF l > 8 THEN @ ELSE SubSeq(@, 1, l)] = m
<1>1. IsMessage(m) /\ m = Message(m.type, m.id, m.payload) BY CallKinds
<1>2. f \in Seq(Byte) /\ Len(f) = 8 BY EightBytes
<1>3. m.payload \in Seq(Byte) /\ l \in Nat /\ l <= 8 BY <1>1 DEF IsMessage
<1>4. h.type = m.type /\ h.id = m.id /\ h.payload = f BY DEF Message
<1>5. SubSeq(f, 1, l) = m.payload
  <2>1. f \in Seq(Byte) /\ Len(m.payload) <= Len(f) BY <1>2, <1>3
  <2> QED BY <2>1, <1>3, CutOff
<1>6. [h EXCEPT !.payload = IF l > 8 THEN @ ELSE SubSeq(@, 1, l)]
        = [h EXCEPT !.payload = SubSeq(f, 1, l)]
  <2>1. \A x, y : (IF l > 8 THEN x ELSE y) = y BY <1>3
  <2> QED BY <2>1, <1>4
<1>7. \A x : [h EXCEPT !.payload = x] = Message(m.type, m.id, x) BY DEF Message
<1> QED BY <1>1, <1>5, <1>6, <1>7

-----------------------------------------------------------------------------
\* The DSP handles the next of the calls.
Executes ==
  /\ Len(executed) < Len(calls)
  /\ executed' = Append(executed, calls[Len(executed) + 1])

\* The bytes of call k and the zeros after it bring the DSP to handle it once.
LEMMA DspStep ==
  ASSUME ProtocolTypeInv, DspReceive,
         NEW k \in 0 .. Len(calls), NEW i \in Nat \ {0}, Taken(k, i),
         NEW l \in 0 .. Len(calls), NEW j \in Nat \ {0}, Head(dspRx) = Expected(l, j),
         \/ l = k /\ j = i + 1
         \/ l = k + 1 /\ j = 1 /\ Over(k, i)
  PROVE  /\ Taken(l, j)' /\ dsp' \in Parser
         /\ UNCHANGED executed \/ Executes
<1> DEFINE b == Head(dspRx)
<1>1. /\ b \in Byte /\ dsp \in Parser
      /\ calls \in Seq(Calls) /\ executed \in Seq(Calls) /\ Len(calls) \in Nat
      /\ Len(executed) \in Nat
  BY DEF ProtocolTypeInv, DspReceive
<1>2. dsp' = Receive(dsp, b) /\ UNCHANGED calls /\ dsp' \in Parser
  BY <1>1, ReceiveType DEF DspReceive, history
<1>3. ~Handles(dsp, b) => UNCHANGED executed
  BY DEF DspReceive
<1>4. \A n \in 1 .. Len(calls) :
        /\ calls[n] \in Calls /\ IsMessage(calls[n]) /\ Len(calls[n].payload) \in Nat
        /\ Extent(calls[n]) \in Nat /\ Extent(calls[n]) >= 5
        /\ Extent(calls[n]) >= 4 + Len(calls[n].payload)
  BY <1>1, CallKinds DEF IsMessage, Extent
<1>5. Over(l, j)' = Over(l, j) /\ Parsed(dsp, calls[l], j)' = Parsed(dsp', calls[l], j)
  BY <1>2 DEF Over, Parsed
<1>6. CASE Over(k, i) /\ l = k /\ j = i + 1
  <2>1. Over(l, j) BY <1>4, <1>6 DEF Over
  <2>2. b = 0
    <3>1. CASE k = 0 BY <3>1, <1>6 DEF Expected
    <3>2. CASE k # 0
      <4>1. i >= Extent(calls[k]) /\ k \in 1 .. Len(calls) BY <3>2, <1>6 DEF Over
      <4>2. j >= 5 + Len(calls[k].payload) /\ j > 4 BY <4>1, <1>4, <1>6
      <4>3. ByteAt(calls[k], j) = 0 BY <4>1, <4>2, <1>4 DEF ByteAt
      <4> QED BY <3>2, <4>3, <1>6 DEF Expected
    <3> QED BY <3>1, <3>2
  <2>3. Rests(dsp) /\ Len(executed) = k BY <1>6 DEF Taken
  <2>4. dsp' = dsp /\ ~Handles(dsp, b) BY <1>1, <1>2, <2>2, <2>3, RestingSkips DEF Start
  <2>5. Taken(l, j)'
    <3>1. Len(executed)' = l BY <1>3, <2>3, <2>4, <1>6
    <3>2. Rests(dsp)' BY <2>3, <2>4 DEF Rests
    <3> QED BY <1>5, <2>1, <3>1, <3>2 DEF Taken
  <2> QED BY <1>2, <1>3, <2>4, <2>5
<1>7. CASE l = k + 1 /\ j = 1 /\ Over(k, i)
  <2>1. l # 0 /\ l \in 1 .. Len(calls) BY <1>7
  <2>2. ~Over(l, j) BY <1>4, <1>7, <2>1 DEF Over
  <2>3. b = Start BY <1>7, <2>1 DEF Expected, ByteAt
  <2>4. Rests(dsp) /\ Len(executed) = k BY <1>7 DEF Taken
  <2>5. Parsed(dsp', calls[l], 1) /\ ~Handles(dsp, b)
    BY <1>1, <1>2, <2>3, <2>4, RestingStarts
  <2>6. Taken(l, j)'
    <3>1. Len(executed)' = l - 1 BY <1>3, <2>4, <2>5, <1>7
    <3> QED BY <1>5, <1>7, <2>2, <2>5, <3>1 DEF Taken
  <2> QED BY <1>2, <1>3, <2>5, <2>6
<1>8. CASE l = k /\ j = i + 1 /\ ~Over(k, i)
  <2> DEFINE m == calls[k]
  <2>1. k # 0 /\ k \in 1 .. Len(calls) /\ i < Extent(m) BY <1>8, <1>4 DEF Over
  <2>2. /\ m \in Calls /\ IsMessage(m) /\ Extent(m) \in Nat /\ Len(m.payload) \in Nat
        /\ Extent(m) >= 5
    BY <1>4, <2>1
  <2>3. Parsed(dsp, m, i) /\ Len(executed) = k - 1 BY <1>8 DEF Taken
  <2>4. b = ByteAt(m, i + 1) BY <1>8, <2>1 DEF Expected
  <2>5. CASE i + 2 <= Extent(m)
    <3> HIDE DEF m
    <3>1. Parsed(dsp', m, i + 1) /\ ~Handles(dsp, b)
      BY <1>1, <1>2, <2>2, <2>3, <2>4, <2>5, ParsesOn
    <3>2. ~Over(l, j) BY <2>1, <2>2, <2>5, <1>8 DEF Over, m
    <3>3. Taken(l, j)'
      <4>1. Len(executed)' = l - 1 BY <1>3, <2>3, <3>1, <1>8
      <4> QED BY <1>5, <1>8, <3>1, <3>2, <4>1 DEF Taken, m
    <3> QED BY <1>2, <1>3, <3>1, <3>3
  <2>6. CASE i + 2 > Extent(m)
    <3>1. i = Extent(m) - 1 BY <2>1, <2>2, <2>6
    <3> DEFINE f == Fill(dsp, b).payload  h == Message(m.type, m.id, f)
    <3> HIDE DEF m
    <3>2. /\ Handles(dsp, b) /\ Rests(dsp') /\ Handled(dsp, b) = h
          /\ dsp.length = Len(m.payload) /\ f \in [1 .. 8 -> Byte]
          /\ \A x \in 1 .. Len(m.payload) : f[x] = m.payload[x]
      <4>1. Parsed(dsp, m, Extent(m) - 1) BY <2>3, <3>1
      <4>2. b = ByteAt(m, Extent(m)) BY <2>2, <2>4, <3>1
      <4>3. dsp \in Parser /\ IsMessage(m) /\ dsp' = Receive(dsp, b) BY <1>1, <1>2, <2>2
      <4> HIDE DEF b
      <4>4. PICK p, x : p = dsp /\ x = b OBVIOUS
      <4>5. p \in Parser /\ Parsed(p, m, Extent(m) - 1) /\ x = ByteAt(m, Extent(m))
        BY <4>1, <4>2, <4>3, <4>4
      <4>6. /\ Handles(p, x) /\ Rests(Receive(p, x))
            /\ Handled(p, x) = Message(m.type, m.id, Fill(p, x).payload)
            /\ p.length = Len(m.payload)
            /\ Fill(p, x).payload \in [1 .. 8 -> Byte]
            /\ \A q \in 1 .. Len(m.payload) : Fill(p, x).payload[q] = m.payload[q]
        BY <2>2, <4>5, ParsesAll, SMTT(60)
      <4> QED BY <4>3, <4>4, <4>6
    <3>3. Begins(f, m.payload) BY <3>2 DEF Begins
    <3>4. executed' = Append(executed, [h EXCEPT !.payload =
            IF dsp.length > 8 THEN @ ELSE SubSeq(@, 1, dsp.length)])
      BY <3>2 DEF DspReceive
    <3> HIDE DEF b, f
    <3> DEFINE n == dsp.length
    <3>5. n = Len(m.payload) /\ f \in [1 .. 8 -> Byte] BY <3>2
    <3>60. h = Message(m.type, m.id, f) /\ m \in Calls BY <2>2
    <3> HIDE DEF h, n
    <3>6. [h EXCEPT !.payload = IF n > 8 THEN @ ELSE SubSeq(@, 1, n)] = m
      BY <3>60, <3>3, <3>5, HandledEffect
    <3>7. executed' = Append(executed, m) BY <3>4, <3>6 DEF n
    <3>8. Executes
      <4>1. Len(executed) + 1 = k BY <2>1, <2>3
      <4>2. Len(executed) < Len(calls) BY <2>1, <2>3, <1>1
      <4>3. m = calls[Len(executed) + 1] BY <4>1 DEF m
      <4> QED BY <3>7, <4>2, <4>3 DEF Executes
    <3>9. Over(l, j) BY <1>8, <3>1, <2>2 DEF Over, m
    <3>10. Taken(l, j)'
      <4>1. Len(executed') = k BY <3>7, <2>3, <2>1, <1>1
      <4>2. Rests(dsp)' BY <3>2 DEF Rests
      <4> QED BY <4>1, <4>2, <1>5, <1>8, <3>9 DEF Taken
    <3> QED BY <1>2, <3>8, <3>10
  <2> QED BY <2>5, <2>6, <2>1, <2>2
<1> QED BY <1>6, <1>7, <1>8

-----------------------------------------------------------------------------
\* A new call follows the last one, if that has sent a byte to end it.
LEMMA LaidCall ==
  ASSUME ProtocolTypeInv, DriverInv, NEW m \in Calls, Call(m), padded,
         NEW of, NEW at, Laid(of, at)
  PROVE  \E of2, at2 : Laid(of2, at2)' /\ of2[0] = of[0] /\ at2[0] = at[0]
<1>a. PICK L : L = Len(Outgoing) OBVIOUS
<1>b. PICK C : C = Len(calls) OBVIOUS
<1>c. PICK e : e = 4 + Len(m.payload) OBVIOUS
<1>1. /\ L \in Nat /\ C \in Nat /\ calls \in Seq(Calls) /\ Len(m.payload) \in Nat /\ e >= 4
      /\ e \in Nat
  <2>1. L \in Nat /\ C \in Nat /\ calls \in Seq(Calls)
    BY Ways, <1>a, <1>b DEF ProtocolTypeInv
  <2>2. Len(m.payload) \in Nat BY CallKinds DEF IsMessage
  <2> QED BY <2>1, <2>2, <1>c
<1>2. padded /\ calls' = Append(calls, m) /\ padded' = (m.payload # <<>>)
  BY DEF Call
<1>3. /\ Len(Outgoing') = L + e
      /\ \A p \in 1 .. L : Outgoing'[p] = Outgoing[p]
      /\ \A p \in 1 .. e : Outgoing'[L + p] = ByteAt(m, p)
  BY CallWays, <1>a, <1>c
<1>4. /\ Len(calls') = C + 1 /\ calls'[C + 1] = m /\ \A k \in 1 .. C : calls'[k] = calls[k]
      /\ calls' # <<>> /\ Newest' = m
  BY <1>1, <1>2, <1>b DEF Newest
<1>5. /\ of \in [0 .. L -> 0 .. C] /\ at \in [0 .. L -> Nat \ {0}]
      /\ \A p \in 1 .. L :
           /\ Outgoing[p] = Expected(of[p], at[p])
           /\ \/ of[p] = of[p - 1] /\ at[p] = at[p - 1] + 1
              \/ of[p] = of[p - 1] + 1 /\ at[p] = 1 /\ Over(of[p - 1], at[p - 1])
      /\ of[L] = C /\ Over(of[L], at[L])
  BY <1>2, <1>a, <1>b DEF Laid
<1>6. PICK of2 : of2 = [p \in 0 .. L + e |-> IF p <= L THEN of[p] ELSE C + 1] OBVIOUS
<1>7. PICK at2 : at2 = [p \in 0 .. L + e |-> IF p <= L THEN at[p] ELSE p - L] OBVIOUS
<1>8. /\ of2 \in [0 .. L + e -> 0 .. C + 1] /\ at2 \in [0 .. L + e -> Nat \ {0}]
      /\ \A p \in 0 .. L : of2[p] = of[p] /\ at2[p] = at[p]
      /\ \A p \in L + 1 .. L + e : of2[p] = C + 1 /\ at2[p] = p - L
  <2> QED BY <1>1, <1>5, <1>6, <1>7
<1>9. \A k \in 0 .. C, i \in Nat : Expected(k, i)' = Expected(k, i) /\ Over(k, i)' = Over(k, i)
  BY <1>1, <1>4, <1>b DEF Expected, Over
<1>10. \A i \in Nat : Expected(C + 1, i)' = ByteAt(m, i)
  BY <1>1, <1>4 DEF Expected
<1>11. \A p \in 0 .. L : of[p] \in 0 .. C /\ at[p] \in Nat BY <1>5
<1>12. ASSUME NEW p \in 1 .. L + e
       PROVE  /\ Outgoing'[p] = Expected(of2[p], at2[p])'
              /\ \/ of2[p] = of2[p - 1] /\ at2[p] = at2[p - 1] + 1
                 \/ of2[p] = of2[p - 1] + 1 /\ at2[p] = 1 /\ Over(of2[p - 1], at2[p - 1])'
  <2>1. CASE p <= L
    <3>1. /\ p \in 1 .. L /\ p \in 0 .. L /\ p - 1 \in 0 .. L BY <2>1, <1>1
    <3>2. /\ of2[p] = of[p] /\ at2[p] = at[p] /\ of2[p - 1] = of[p - 1] /\ at2[p - 1] = at[p - 1]
      BY <3>1, <1>8
    <3>3. /\ Expected(of[p], at[p])' = Expected(of[p], at[p])
          /\ Over(of[p - 1], at[p - 1])' = Over(of[p - 1], at[p - 1])
      BY <3>1, <1>9, <1>11
    <3> QED BY <3>1, <3>2, <3>3, <1>3, <1>5
  <2>2. CASE p > L
    <3>1. p \in L + 1 .. L + e /\ p - L \in 1 .. e /\ L + (p - L) = p BY <2>2, <1>1
    <3>2. of2[p] = C + 1 /\ at2[p] = p - L BY <3>1, <1>8
    <3>3. Outgoing'[p] = Expected(of2[p], at2[p])'
      <4>1. Outgoing'[p] = ByteAt(m, p - L) BY <3>1, <1>3
      <4>2. Expected(C + 1, p - L)' = ByteAt(m, p - L) BY <3>1, <1>10
      <4> QED BY <3>2, <4>1, <4>2
    <3>4. CASE p = L + 1
      <4>1. p - 1 = L /\ L \in 0 .. L BY <3>4, <1>1
      <4>2. of2[p - 1] = C /\ at2[p - 1] = at[L] /\ of[L] = C /\ of2[p - 1] = of[L]
        BY <4>1, <1>5, <1>8
      <4>3. Over(of[L], at[L])' BY <4>1, <1>5, <1>9, <1>11
      <4> QED BY <3>2, <3>3, <3>4, <4>2, <4>3, <1>1
    <3>5. CASE p # L + 1
      <4>1. p - 1 \in L + 1 .. L + e /\ p - 1 - L + 1 = p - L BY <3>1, <3>5, <1>1
      <4>2. of2[p - 1] = C + 1 /\ at2[p - 1] = p - 1 - L BY <4>1, <1>8
      <4> QED BY <3>2, <3>3, <4>1, <4>2
    <3> QED BY <3>4, <3>5
  <2> QED BY <2>1, <2>2, <1>1
<1>14. of2[L + e] = C + 1 /\ at2[L + e] = 4 + Len(m.payload)
  <2>1. L + e \in L + 1 .. L + e /\ (L + e) - L = e BY <1>1
  <2>2. of2[L + e] = C + 1 /\ at2[L + e] = (L + e) - L BY <2>1, <1>8
  <2> QED BY <2>1, <2>2, <1>c
<1>15. padded' => Over(C + 1, 4 + Len(m.payload))'
  <2>1. SUFFICES ASSUME m.payload # <<>> PROVE Over(C + 1, 4 + Len(m.payload))'
    BY <1>2
  <2> QED BY <2>1, <1>1, <1>4 DEF Over, Extent
<1>16. of2[0] = of[0] /\ at2[0] = at[0] BY <1>8, <1>1
<1>17. Laid(of2, at2)'
  <2>1. calls' # <<>> => at2[L + e] >= 4 + Len(Newest'.payload)
    BY <1>4, <1>14, <1>1
  <2>2. padded' => Over(of2[L + e], at2[L + e])' BY <1>14, <1>15
  <2>3. Len(Outgoing') = L + e /\ Len(calls') = C + 1 BY <1>3, <1>4
  <2>4. of2[Len(Outgoing')] = Len(calls') BY <2>3, <1>14
  <2> QED BY <2>1, <2>2, <2>3, <2>4, <1>8, <1>12 DEF Laid
<1> QED BY <1>16, <1>17

\* A dummy byte comes after the last byte of the last call, and ends it.
LEMMA LaidPoll ==
  ASSUME ProtocolTypeInv, DriverInv, CpuPoll, armed = <<>>, NEW of, NEW at, Laid(of, at)
  PROVE  \E of2, at2 : Laid(of2, at2)' /\ of2[0] = of[0] /\ at2[0] = at[0]
<1>a. PICK L : L = Len(Outgoing) OBVIOUS
<1>b. PICK C : C = Len(calls) OBVIOUS
<1>1. L \in Nat /\ C \in Nat /\ calls \in Seq(Calls) /\ Outgoing \in Seq(Byte)
  BY Ways, <1>a, <1>b DEF ProtocolTypeInv
<1>2. UNCHANGED calls BY DEF CpuPoll
<1>3. Outgoing' = Append(Outgoing, 0) BY PollWays
<1>4. /\ Len(Outgoing') = L + 1 /\ Outgoing'[L + 1] = 0
      /\ \A p \in 1 .. L : Outgoing'[p] = Outgoing[p]
  <2>1. 0 \in Byte BY SmallBytes
  <2> HIDE DEF Outgoing
  <2> QED BY <2>1, <1>1, <1>3, <1>a
<1>5. /\ of \in [0 .. L -> 0 .. C] /\ at \in [0 .. L -> Nat \ {0}]
      /\ \A p \in 1 .. L :
           /\ Outgoing[p] = Expected(of[p], at[p])
           /\ \/ of[p] = of[p - 1] /\ at[p] = at[p - 1] + 1
              \/ of[p] = of[p - 1] + 1 /\ at[p] = 1 /\ Over(of[p - 1], at[p - 1])
      /\ of[L] = C /\ (calls # <<>> => at[L] >= 4 + Len(Newest.payload))
  BY <1>a, <1>b DEF Laid
<1>6. PICK of2 : of2 = [p \in 0 .. L + 1 |-> IF p <= L THEN of[p] ELSE C] OBVIOUS
<1>7. PICK at2 : at2 = [p \in 0 .. L + 1 |-> IF p <= L THEN at[p] ELSE at[L] + 1] OBVIOUS
<1>8. /\ of2 \in [0 .. L + 1 -> 0 .. C] /\ at2 \in [0 .. L + 1 -> Nat \ {0}]
      /\ \A p \in 0 .. L : of2[p] = of[p] /\ at2[p] = at[p]
      /\ of2[L + 1] = C /\ at2[L + 1] = at[L] + 1
  <2>1. /\ \A p \in 0 .. L : of[p] \in 0 .. C /\ at[p] \in Nat \ {0}
        /\ L \in 0 .. L /\ C \in 0 .. C
    <3>1. L \in 0 .. L /\ C \in 0 .. C BY <1>1
    <3>2. of \in [0 .. L -> 0 .. C] /\ at \in [0 .. L -> Nat \ {0}] BY <1>5
    <3> QED BY ONLY <3>1, <3>2
  <2>2. at[L] + 1 \in Nat \ {0} BY <2>1
  <2>3. \A p \in 0 .. L + 1 : p <= L => p \in 0 .. L BY <1>1
  <2>4. of2 \in [0 .. L + 1 -> 0 .. C] BY <2>1, <2>3, <1>6
  <2>5. at2 \in [0 .. L + 1 -> Nat \ {0}] BY <2>1, <2>2, <2>3, <1>7
  <2>6. /\ \A p \in 0 .. L : p <= L /\ p \in 0 .. L + 1
        /\ L + 1 \in 0 .. L + 1 /\ ~(L + 1 <= L)
    BY <1>1
  <2> QED BY <2>4, <2>5, <2>6, <1>6, <1>7
<1>9. \A k, i : Expected(k, i)' = Expected(k, i) /\ Over(k, i)' = Over(k, i)
  BY <1>2 DEF Expected, Over
<1>10. /\ \A p \in 0 .. L : of[p] \in Int /\ at[p] \in Nat
       /\ L \in 0 .. L /\ of[L] = C /\ at[L] \in Nat
  <2>1. L \in 0 .. L /\ of[L] = C BY <1>1, <1>5
  <2>2. \A p \in 0 .. L : of[p] \in 0 .. C /\ at[p] \in Nat BY <1>5
  <2> QED BY <2>1, <2>2
<1>11. Expected(C, at[L] + 1) = 0
  <2>1. CASE C = 0 BY <2>1 DEF Expected
  <2>2. CASE C # 0
    <3>1. calls # <<>> /\ Newest = calls[C] /\ calls[C] \in Calls
      BY <2>2, <1>1, <1>b DEF Newest
    <3>2. Len(calls[C].payload) \in Nat BY <3>1, CallKinds DEF IsMessage
    <3>3. at[L] + 1 >= 5 + Len(calls[C].payload) /\ at[L] + 1 > 4 BY <3>1, <3>2, <1>5, <1>10
    <3>4. ByteAt(calls[C], at[L] + 1) = 0 BY <3>2, <3>3, <1>10 DEF ByteAt
    <3> QED BY <2>2, <3>4 DEF Expected
  <2> QED BY <2>1, <2>2
<1>12. ASSUME NEW p \in 1 .. L + 1
       PROVE  /\ Outgoing'[p] = Expected(of2[p], at2[p])'
              /\ \/ of2[p] = of2[p - 1] /\ at2[p] = at2[p - 1] + 1
                 \/ of2[p] = of2[p - 1] + 1 /\ at2[p] = 1 /\ Over(of2[p - 1], at2[p - 1])'
  <2>1. CASE p <= L
    <3>1. /\ p \in 1 .. L /\ p \in 0 .. L /\ p - 1 \in 0 .. L BY <2>1, <1>1
    <3>2. /\ of2[p] = of[p] /\ at2[p] = at[p] /\ of2[p - 1] = of[p - 1] /\ at2[p - 1] = at[p - 1]
      BY <3>1, <1>8
    <3> QED BY <3>1, <3>2, <1>4, <1>5, <1>9
  <2>2. CASE p = L + 1
    <3>1. p - 1 = L BY <2>2, <1>1
    <3>2. of2[p] = C /\ of2[L] = C /\ at2[p] = at[L] + 1 /\ at2[L] = at[L]
      BY <2>2, <1>8, <1>10
    <3>3. Outgoing'[p] = 0 BY <2>2, <1>4
    <3> QED BY <3>1, <3>2, <3>3, <1>9, <1>11
  <2> QED BY <2>1, <2>2, <1>1
<1>14. of2[0] = of[0] /\ at2[0] = at[0] BY <1>8, <1>1
<1>15. Laid(of2, at2)'
  <2>1. calls' # <<>> => at2[L + 1] >= 4 + Len(Newest'.payload)
    <3>1. calls' = calls /\ Newest' = Newest BY <1>2 DEF Newest
    <3>2. ASSUME calls # <<>> PROVE Len(Newest.payload) \in Nat
      <4>1. Newest \in Calls BY <1>1, <3>2 DEF Newest
      <4> QED BY <4>1, CallKinds DEF IsMessage
    <3> QED BY <3>1, <3>2, <1>5, <1>8, <1>10
  <2>2. Over(of2[L + 1], at2[L + 1])'
    <3>1. CASE C = 0 BY <3>1, <1>8 DEF Over
    <3>2. CASE C # 0
      <4>1. calls # <<>> /\ Newest = calls[C] /\ calls[C] \in Calls
        BY <3>2, <1>1, <1>b DEF Newest
      <4>2. Len(calls[C].payload) \in Nat /\ calls[C].payload \in Seq(Byte)
        BY <4>1, CallKinds DEF IsMessage
      <4>3. Extent(calls[C]) <= 5 + Len(calls[C].payload) /\ Extent(calls[C]) \in Nat
        BY <4>2 DEF Extent
      <4>4. at[L] + 1 >= 5 + Len(calls[C].payload) BY <4>1, <4>2, <1>5, <1>10
      <4>5. at[L] + 1 >= Extent(calls[C]) BY <4>2, <4>3, <4>4, <1>10
      <4> QED BY <4>5, <1>2, <1>8 DEF Over
    <3> QED BY <3>1, <3>2
  <2>3. Len(Outgoing') = L + 1 /\ Len(calls') = C BY <1>2, <1>4, <1>b
  <2>4. of2[Len(Outgoing')] = Len(calls') BY <2>3, <1>8
  <2> QED BY <2>1, <2>2, <2>3, <2>4, <1>8, <1>12 DEF Laid
<1> QED BY <1>14, <1>15

\* The byte the DSP takes is the next one.
LEMMA LaidTake ==
  ASSUME ProtocolTypeInv, DriverInv, DspReceive, NEW of, NEW at, Laid(of, at)
  PROVE  /\ 1 \in 1 .. Len(Outgoing)
         /\ \E of2, at2 : Laid(of2, at2)' /\ of2[0] = of[1] /\ at2[0] = at[1]
<1>a. PICK L : L = Len(Outgoing) OBVIOUS
<1>b. PICK C : C = Len(calls) OBVIOUS
<1>1. L \in Nat /\ C \in Nat /\ calls \in Seq(Calls) /\ Outgoing \in Seq(Byte)
  BY Ways, <1>a, <1>b DEF ProtocolTypeInv
<1>2. UNCHANGED <<calls, padded>> BY DEF DspReceive, history
<1>3. Outgoing # <<>> /\ Outgoing' = Tail(Outgoing) BY TakeWays
<1>4. /\ L >= 1 /\ Len(Outgoing') = L - 1
      /\ \A p \in 1 .. L - 1 : Outgoing'[p] = Outgoing[p + 1]
  <2> HIDE DEF Outgoing
  <2> QED BY <1>1, <1>3, <1>a
<1>5. /\ of \in [0 .. L -> 0 .. C] /\ at \in [0 .. L -> Nat \ {0}]
      /\ \A p \in 1 .. L :
           /\ Outgoing[p] = Expected(of[p], at[p])
           /\ \/ of[p] = of[p - 1] /\ at[p] = at[p - 1] + 1
              \/ of[p] = of[p - 1] + 1 /\ at[p] = 1 /\ Over(of[p - 1], at[p - 1])
      /\ of[L] = C /\ (calls # <<>> => at[L] >= 4 + Len(Newest.payload))
      /\ (padded => Over(of[L], at[L]))
  BY <1>a, <1>b DEF Laid
<1>6. PICK of2 : of2 = [p \in 0 .. L - 1 |-> of[p + 1]] OBVIOUS
<1>7. PICK at2 : at2 = [p \in 0 .. L - 1 |-> at[p + 1]] OBVIOUS
<1>8. /\ of2 \in [0 .. L - 1 -> 0 .. C] /\ at2 \in [0 .. L - 1 -> Nat \ {0}]
      /\ \A p \in 0 .. L - 1 : of2[p] = of[p + 1] /\ at2[p] = at[p + 1]
      /\ of2[L - 1] = of[L] /\ at2[L - 1] = at[L]
      /\ of2[0] = of[1] /\ at2[0] = at[1]
  <2>1. \A p \in 0 .. L - 1 : p + 1 \in 0 .. L BY <1>1
  <2>2. \A p \in 0 .. L - 1 : of[p + 1] \in 0 .. C /\ at[p + 1] \in Nat \ {0} BY <2>1, <1>5
  <2>3. 0 \in 0 .. L - 1 /\ L - 1 \in 0 .. L - 1 /\ L - 1 + 1 = L /\ 0 + 1 = 1 BY <1>1, <1>4
  <2>4. \A p \in 0 .. L - 1 : of2[p] = of[p + 1] /\ at2[p] = at[p + 1] BY <1>6, <1>7
  <2> QED BY <2>2, <2>3, <2>4, <1>6, <1>7
<1>9. \A k, i : Expected(k, i)' = Expected(k, i) /\ Over(k, i)' = Over(k, i)
  BY <1>2 DEF Expected, Over
<1>12. ASSUME NEW p \in 1 .. L - 1
       PROVE  /\ Outgoing'[p] = Expected(of2[p], at2[p])'
              /\ \/ of2[p] = of2[p - 1] /\ at2[p] = at2[p - 1] + 1
                 \/ of2[p] = of2[p - 1] + 1 /\ at2[p] = 1 /\ Over(of2[p - 1], at2[p - 1])'
  <2>1. p \in 0 .. L - 1 /\ p - 1 \in 0 .. L - 1 /\ p + 1 \in 1 .. L /\ p - 1 + 1 = p
        /\ p + 1 - 1 = p
    BY <1>1
  <2>2. of2[p] = of[p + 1] /\ at2[p] = at[p + 1] /\ of2[p - 1] = of[p] /\ at2[p - 1] = at[p]
    <3>1. of2[p - 1] = of[p - 1 + 1] /\ at2[p - 1] = at[p - 1 + 1] BY <2>1, <1>8
    <3> QED BY <2>1, <3>1, <1>8
  <2>3. /\ Outgoing[p + 1] = Expected(of[p + 1], at[p + 1])
        /\ \/ of[p + 1] = of[p] /\ at[p + 1] = at[p] + 1
           \/ of[p + 1] = of[p] + 1 /\ at[p + 1] = 1 /\ Over(of[p], at[p])
    <3>1. /\ Outgoing[p + 1] = Expected(of[p + 1], at[p + 1])
          /\ \/ of[p + 1] = of[p + 1 - 1] /\ at[p + 1] = at[p + 1 - 1] + 1
             \/ of[p + 1] = of[p + 1 - 1] + 1 /\ at[p + 1] = 1
                /\ Over(of[p + 1 - 1], at[p + 1 - 1])
      BY <2>1, <1>5
    <3> QED BY <2>1, <3>1
  <2>4. Outgoing'[p] = Outgoing[p + 1] BY <1>4
  <2> QED BY <2>2, <2>3, <2>4, <1>9
<1>15. Laid(of2, at2)'
  <2>1. calls' # <<>> => at2[L - 1] >= 4 + Len(Newest'.payload)
    BY <1>2, <1>5, <1>8 DEF Newest
  <2>2. padded' => Over(of2[L - 1], at2[L - 1])' BY <1>2, <1>5, <1>8, <1>9
  <2>3. Len(Outgoing') = L - 1 /\ Len(calls') = C BY <1>2, <1>4, <1>b
  <2>4. of2[Len(Outgoing')] = Len(calls') BY <2>3, <1>5, <1>8
  <2> QED BY <2>1, <2>2, <2>3, <2>4, <1>8, <1>12 DEF Laid
<1> QED BY <1>1, <1>4, <1>8, <1>15, <1>a

LEMMA LaidKeeps ==
  ASSUME UNCHANGED <<Outgoing, calls, padded>>, NEW of, NEW at, Laid(of, at)
  PROVE  Laid(of, at)'
<1>1. \A k, i : Expected(k, i)' = Expected(k, i) /\ Over(k, i)' = Over(k, i)
  BY DEF Expected, Over
<1>2. Newest' = Newest BY DEF Newest
<1> QED BY <1>1, <1>2 DEF Laid

LEMMA TakenKeeps ==
  ASSUME UNCHANGED <<dsp, calls, executed>>, NEW k, NEW i, Taken(k, i)
  PROVE  Taken(k, i)'
BY DEF Taken, Over, Parsed, Rests

-----------------------------------------------------------------------------
LaidInv == \E of, at : Laid(of, at) /\ Taken(of[0], at[0])

\* The inductive invariant: as long as the bytes sent are those of the messages, which
\* byte each byte on its way to the DSP is, and what the DSP has done.
LinkInv == Intact => ProtocolTypeInv /\ DriverInv /\ LaidInv /\ ExecutedInv

LEMMA LinkInit == ProtocolInit => LinkInv
<1> SUFFICES ASSUME ProtocolInit PROVE LinkInv OBVIOUS
<1>1. 0 \in Byte BY SmallBytes
<1>2. Zeros(8) \in [1 .. 8 -> Byte] BY <1>1 DEF Zeros
<1>3. Idle \in Parser /\ Rests(Idle) BY <1>1, <1>2 DEF Idle, Parser, Rests
<1>4. ProtocolTypeInv BY <1>1, <1>3 DEF ProtocolInit, ProtocolTypeInv
<1>5. DriverInv BY <1>1 DEF ProtocolInit, DriverInv
<1>6. /\ Len(Outgoing) = 1 /\ Outgoing[1] = 0 /\ calls = <<>> /\ Len(calls) = 0
  BY DEF ProtocolInit, Outgoing
<1>7. LaidInv
  <2>1. PICK of : of = [p \in 0 .. 1 |-> 0] OBVIOUS
  <2>2. PICK at : at = [p \in 0 .. 1 |-> p + 1] OBVIOUS
  <2>3. /\ of \in [0 .. 1 -> 0 .. 0] /\ at \in [0 .. 1 -> Nat \ {0}]
        /\ of[0] = 0 /\ of[1] = 0 /\ at[0] = 1 /\ at[1] = 2
    BY <2>1, <2>2
  <2>4. \A p \in 1 .. 1 : /\ Outgoing[p] = Expected(of[p], at[p])
                          /\ of[p] = of[p - 1] /\ at[p] = at[p - 1] + 1
    BY <1>6, <2>3 DEF Expected
  <2>5. Laid(of, at) BY <1>6, <2>3, <2>4 DEF Laid, Over
  <2>6. Taken(of[0], at[0]) BY <1>3, <2>3 DEF Taken, Over, ProtocolInit
  <2> QED BY <2>5, <2>6 DEF LaidInv
<1>8. ExecutedInv BY DEF ExecutedInv, ProtocolInit
<1> QED BY <1>4, <1>5, <1>7, <1>8 DEF LinkInv

\* What has happened to the bytes is not undone.
LEMMA IntactBefore ==
  ASSUME [ProtocolNext]_protocolVars, Intact'
  PROVE  Intact
<1>1. faults \subseteq faults'
  BY DEF ProtocolNext, MainStep, Call, Put, Test, CpuReceive, CpuPoll, Enable, PollReturns,
         TxInterrupt, Exchange, RxInterrupt, DspReceive, protocolVars
<1> QED BY <1>1 DEF Intact

LEMMA ForwardsKeeps ==
  ASSUME ProtocolTypeInv, DriverInv, LaidInv, ExecutedInv, Forwards
  PROVE  ProtocolTypeInv' /\ DriverInv' /\ LaidInv' /\ ExecutedInv'
<1>1. /\ Outgoing' = Outgoing /\ ProtocolTypeInv' /\ DriverInv'
      /\ UNCHANGED <<dsp, calls, executed, padded>>
  BY ForwardsWays
<1>2. LaidInv'
  <2>1. PICK of, at : Laid(of, at) /\ Taken(of[0], at[0]) BY DEF LaidInv
  <2>2. Laid(of, at)' BY <1>1, <2>1, LaidKeeps
  <2>3. PICK k, i : k = of[0] /\ i = at[0] OBVIOUS
  <2>4. Taken(k, i)' BY <1>1, <2>1, <2>3, TakenKeeps
  <2> QED BY <2>2, <2>3, <2>4 DEF LaidInv
<1>3. ExecutedInv' BY <1>1 DEF ExecutedInv
<1> QED BY <1>1, <1>2, <1>3

LEMMA CallKeeps ==
  ASSUME ProtocolTypeInv, DriverInv, LaidInv, ExecutedInv, NEW m \in Calls, Call(m), padded
  PROVE  ProtocolTypeInv' /\ DriverInv' /\ LaidInv' /\ ExecutedInv'
<1>a. PICK C : C = Len(calls) OBVIOUS
<1>1. /\ C \in Nat /\ calls \in Seq(Calls) /\ executed \in Seq(Calls)
      /\ Len(executed) \in Nat /\ Len(executed) <= C
  BY <1>a DEF ProtocolTypeInv, ExecutedInv
<1>2. calls' = Append(calls, m) /\ UNCHANGED <<dsp, executed>> BY DEF Call, modules
<1>3. Len(calls') = C + 1 /\ \A k \in 1 .. C : calls'[k] = calls[k] BY <1>1, <1>2, <1>a
<1>4. ProtocolTypeInv' /\ DriverInv' BY CallWays
<1>5. LaidInv'
  <2>1. PICK of, at : Laid(of, at) /\ Taken(of[0], at[0]) BY DEF LaidInv
  <2>2. PICK of2, at2 : Laid(of2, at2)' /\ of2[0] = of[0] /\ at2[0] = at[0]
    BY <2>1, LaidCall
  <2>3. of[0] \in 0 .. C
    <3>1. Len(Outgoing) \in Nat BY Ways
    <3>2. of \in [0 .. Len(Outgoing) -> 0 .. C] BY <2>1, <1>a DEF Laid
    <3>3. 0 \in 0 .. Len(Outgoing) BY <3>1
    <3> QED BY <3>2, <3>3
  <2>4. PICK k \in 0 .. C : k = of[0] BY <2>3
  <2>5. PICK i : i = at[0] OBVIOUS
  <2>6. k = 0 \/ calls'[k] = calls[k] BY <1>3
  <2>7. Over(k, i)' = Over(k, i) BY <2>6 DEF Over
  <2>8. ~Over(k, i) => calls'[k] = calls[k] BY <2>6 DEF Over
  <2>9. Taken(k, i)' BY <2>1, <2>4, <2>5, <2>7, <2>8, <1>2 DEF Taken, Parsed, Rests
  <2>10. Taken(of2[0], at2[0])' BY <2>2, <2>4, <2>5, <2>9
  <2> QED BY <2>2, <2>10 DEF LaidInv
<1>6. ExecutedInv'
  <2>1. \A k \in 1 .. Len(executed) : k \in 1 .. C BY <1>1
  <2>2. \A k \in 1 .. Len(executed) : executed[k] = calls'[k]
    BY <2>1, <1>3 DEF ExecutedInv
  <2> QED BY <2>2, <1>1, <1>2, <1>3 DEF ExecutedInv
<1> QED BY <1>4, <1>5, <1>6

LEMMA PollKeeps ==
  ASSUME ProtocolTypeInv, DriverInv, LaidInv, ExecutedInv, CpuPoll, armed = <<>>
  PROVE  ProtocolTypeInv' /\ DriverInv' /\ LaidInv' /\ ExecutedInv'
<1>1. UNCHANGED <<dsp, calls, executed>> BY DEF CpuPoll, modules
<1>2. ProtocolTypeInv' /\ DriverInv' BY PollWays
<1>3. LaidInv'
  <2>1. PICK of, at : Laid(of, at) /\ Taken(of[0], at[0]) BY DEF LaidInv
  <2>2. PICK of2, at2 : Laid(of2, at2)' /\ of2[0] = of[0] /\ at2[0] = at[0]
    BY <2>1, LaidPoll
  <2>3. PICK k, i : k = of[0] /\ i = at[0] OBVIOUS
  <2>4. Taken(k, i)' BY <1>1, <2>1, <2>3, TakenKeeps
  <2>5. Taken(of2[0], at2[0])' BY <2>2, <2>3, <2>4
  <2> QED BY <2>2, <2>5 DEF LaidInv
<1>4. ExecutedInv' BY <1>1 DEF ExecutedInv
<1> QED BY <1>2, <1>3, <1>4

LEMMA TakeKeeps ==
  ASSUME ProtocolTypeInv, DriverInv, LaidInv, ExecutedInv, DspReceive
  PROVE  ProtocolTypeInv' /\ DriverInv' /\ LaidInv' /\ ExecutedInv'
<1>1. /\ UNCHANGED <<out, txq, armed, txbuf, calls>>
      /\ dspRx' \in Seq(Byte) /\ DriverInv'
  BY TakeWays DEF DspReceive, loop, transmit, history
<1>2. LaidInv' /\ dsp' \in Parser /\ (UNCHANGED executed \/ Executes)
  <2>1. PICK of, at : Laid(of, at) /\ Taken(of[0], at[0]) BY DEF LaidInv
  <2>2. /\ 1 \in 1 .. Len(Outgoing)
        /\ \E of2, at2 : Laid(of2, at2)' /\ of2[0] = of[1] /\ at2[0] = at[1]
    BY <2>1, LaidTake
  <2>3. PICK of2, at2 : Laid(of2, at2)' /\ of2[0] = of[1] /\ at2[0] = at[1] BY <2>2
  <2>4. PICK k, i, l, j : k = of[0] /\ i = at[0] /\ l = of[1] /\ j = at[1] OBVIOUS
  <2>5. /\ of \in [0 .. Len(Outgoing) -> 0 .. Len(calls)]
        /\ at \in [0 .. Len(Outgoing) -> Nat \ {0}]
        /\ Outgoing[1] = Expected(of[1], at[1])
        /\ \/ of[1] = of[1 - 1] /\ at[1] = at[1 - 1] + 1
           \/ of[1] = of[1 - 1] + 1 /\ at[1] = 1 /\ Over(of[1 - 1], at[1 - 1])
    BY <2>1, <2>2 DEF Laid
  <2>6. /\ k \in 0 .. Len(calls) /\ l \in 0 .. Len(calls) /\ i \in Nat \ {0} /\ j \in Nat \ {0}
        /\ \/ l = k /\ j = i + 1
           \/ l = k + 1 /\ j = 1 /\ Over(k, i)
    <3>1. 0 \in 0 .. Len(Outgoing) /\ 1 \in 0 .. Len(Outgoing) /\ 1 - 1 = 0 BY <2>2
    <3> QED BY <3>1, <2>4, <2>5
  <2>7. Head(dspRx) = Expected(l, j)
    <3>1. Head(dspRx) = Outgoing[1] BY TakeWays
    <3> QED BY <3>1, <2>4, <2>5
  <2>8. Taken(k, i) BY <2>1, <2>4
  <2>9. Taken(l, j)' /\ dsp' \in Parser /\ (UNCHANGED executed \/ Executes)
    BY <2>6, <2>7, <2>8, DspStep
  <2>10. Taken(of2[0], at2[0])' BY <2>3, <2>4, <2>9
  <2> QED BY <2>3, <2>9, <2>10 DEF LaidInv
<1>3. calls \in Seq(Calls) /\ executed \in Seq(Calls) BY DEF ProtocolTypeInv
<1>4. executed' \in Seq(Calls) /\ ExecutedInv'
  <2>1. CASE UNCHANGED executed BY <2>1, <1>1, <1>3 DEF ExecutedInv
  <2>2. CASE Executes
    <3>1. PICK n, C : n = Len(executed) /\ C = Len(calls) OBVIOUS
    <3>2. PICK m : m = calls[n + 1] OBVIOUS
    <3>3. n \in Nat /\ C \in Nat /\ n < C /\ executed' = Append(executed, m) /\ m \in Calls
      BY <2>2, <3>1, <3>2, <1>3 DEF Executes
    <3>4. /\ executed' \in Seq(Calls) /\ Len(executed') = n + 1 /\ executed'[n + 1] = m
          /\ \A k \in 1 .. n : executed'[k] = executed[k]
      BY <3>1, <3>3, <1>3
    <3>5. \A k \in 1 .. n + 1 : executed'[k] = calls[k]
      BY <3>1, <3>2, <3>3, <3>4 DEF ExecutedInv
    <3> QED BY <3>1, <3>3, <3>4, <3>5, <1>1 DEF ExecutedInv
  <2> QED BY <1>2, <2>1, <2>2
<1>5. ProtocolTypeInv' BY <1>1, <1>2, <1>4 DEF ProtocolTypeInv
<1> QED BY <1>1, <1>2, <1>4, <1>5

LEMMA LinkStep ==
  ASSUME LinkInv, [ProtocolNext]_protocolVars
  PROVE  LinkInv'
<1> SUFFICES ASSUME Intact'
             PROVE  ProtocolTypeInv' /\ DriverInv' /\ LaidInv' /\ ExecutedInv'
  BY DEF LinkInv
<1>1. ProtocolTypeInv /\ DriverInv /\ LaidInv /\ ExecutedInv
  BY IntactBefore DEF LinkInv
<1>2. ASSUME NEW m \in Calls, Call(m)
      PROVE  ProtocolTypeInv' /\ DriverInv' /\ LaidInv' /\ ExecutedInv'
  <2>1. padded
    <3>1. CASE ~padded
      <4>1. "unpadded" \in faults' BY <1>2, <3>1 DEF Call
      <4> QED BY <4>1 DEF Intact
    <3> QED BY <3>1
  <2> QED BY <1>1, <1>2, <2>1, CallKeeps
<1>3. CASE CpuPoll
  <2>1. armed = <<>>
    <3>1. CASE armed # <<>>
      <4>1. "overtaken" \in faults' BY <1>3, <3>1 DEF CpuPoll
      <4> QED BY <4>1 DEF Intact
    <3> QED BY <3>1
  <2> QED BY <1>1, <1>3, <2>1, PollKeeps
<1>4. CASE PollReturns
  <2>1. UNCHANGED armed
    <3>1. CASE armed' # armed
      <4>1. "stale" \in faults' BY <1>4, <3>1 DEF PollReturns
      <4> QED BY <4>1 DEF Intact
    <3> QED BY <3>1
  <2> QED BY <1>1, <1>4, <2>1, ForwardsKeeps DEF Forwards
<1>5. CASE DspReceive BY <1>1, <1>5, TakeKeeps
<1>6. CASE \/ Put \/ Test \/ CpuReceive \/ Enable \/ TxInterrupt \/ Exchange \/ RxInterrupt
           \/ UNCHANGED protocolVars
  BY <1>1, <1>6, ForwardsKeeps DEF Forwards
<1> QED BY <1>2, <1>3, <1>4, <1>5, <1>6 DEF ProtocolNext, MainStep

THEOREM LinkInvariant == ProtocolSpec => []LinkInv
<1>1. ProtocolInit => LinkInv BY LinkInit
<1>2. LinkInv /\ [ProtocolNext]_protocolVars => LinkInv' BY LinkStep
<1> QED BY <1>1, <1>2, PTL DEF ProtocolSpec

\* However many calls the application makes before their replies come, and however
\* interrupts, transfers and the two main loops take turns: the DSP executes the calls
\* the ARM made, in the order it made them, until a poll takes the place of a byte, a
\* byte of the stack is sent, or a message comes right behind one without payload.
THEOREM CallsExecuted == ProtocolSpec => []ExecutesCalls
<1>1. LinkInv => ExecutesCalls
  <2> SUFFICES ASSUME LinkInv, Intact PROVE IsPrefix(executed, calls)
    BY DEF ExecutesCalls
  <2>1. /\ executed \in Seq(Calls) /\ calls \in Seq(Calls) /\ Len(executed) <= Len(calls)
        /\ \A k \in 1 .. Len(executed) : executed[k] = calls[k]
    BY DEF LinkInv, ProtocolTypeInv, ExecutedInv
  <2>2. executed = SubSeq(calls, 1, Len(executed)) BY <2>1
  <2> QED BY <2>1, <2>2 DEF IsPrefix
<1> QED BY <1>1, LinkInvariant, PTL
=============================================================================
