------------------------------ MODULE MCSound -------------------------------
(***************************************************************************)
(* Instances for TLC of what the user hears: the DSP's audio frames, and   *)
(* the sequencer's loop.  The models share no state, so a behaviour is one *)
(* of them while the other rests.                                          *)
(***************************************************************************)
EXTENDS AudioFrame, EventSeq

VARIABLE part

\* Firmwares that keep up, just keep up, and do not.
MCLoads == [module : 1 .. 7, service : 1 .. 3]

\* Of a part at rest one start is enough.
SoundInit ==
  /\ part \in {"audio", "sequencer"}
  /\ AudioInit /\ Init
  /\ part # "audio" => load = [module |-> 1, service |-> 1]

SoundNext ==
  /\ UNCHANGED part
  /\ \/ part = "audio" /\ AudioNext /\ UNCHANGED vars
     \/ part = "sequencer" /\ Next /\ UNCHANGED audioVars

SoundSpec == SoundInit /\ [][SoundNext]_<<part, audioVars, vars>>
=============================================================================
