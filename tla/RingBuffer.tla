----------------------------- MODULE RingBuffer -----------------------------
(***************************************************************************)
(* The index arithmetic of cpu/src/common/ring_buffer.c, shared by the     *)
(* ARM and the Blackfin build.  A buffer has two free-running counters of  *)
(* type size_t, head (elements ever put) and tail (elements ever removed); *)
(* a slot is selected by masking a counter, and both tests compare the     *)
(* unsigned difference of the counters.  Nothing here has state: the two   *)
(* ways the drivers share a buffer between an interrupt handler and the    *)
(* main loop are RingRx and RingTx.                                        *)
(***************************************************************************)
LOCAL INSTANCE Naturals

CONSTANTS
  N,    \* n_elem, the number of slots (ring_buffer_init requires a power of 2)
  Laps  \* how many laps of the buffer a size_t counts before it wraps to zero

ASSUME RingAssumption == N \in Nat \ {0} /\ Laps \in Nat \ {0, 1}

\* The number of values of a size_t; n_elem divides it, being a power of two.
CounterMod == N * Laps
Counters   == 0 .. CounterMod - 1
Slots      == 0 .. N - 1

\* Mutant of Inc: the counter is wider than the arithmetic on it assumes.
IncUnwrapped(c) == c + 1

\* counter++ on a size_t
Inc(c) == IF c + 1 = CounterMod THEN 0 ELSE c + 1

\* head - tail on size_t operands
Count(h, t) == IF h >= t THEN h - t ELSE h - t + CounterMod

\* counter & (n_elem - 1)
Slot(c) == c % N

Full(h, t)  == Count(h, t) = N
Empty(h, t) == Count(h, t) = 0
=============================================================================
