----------------------------- MODULE MCTransmit -----------------------------
(***************************************************************************)
(* Instances for TLC of two ways to transmit by interrupt from memory that *)
(* main goes on writing: through a ring buffer, and from the frame buffer  *)
(* of the display itself.  The models share no state, so a behaviour is    *)
(* one of them while the other rests.                                      *)
(***************************************************************************)
EXTENDS RingTxQueue, Display

VARIABLE part

\* Of a display at rest one start is enough.
TransmitInit ==
  /\ part \in {"ring", "display"}
  /\ Init /\ DisplayStart
  /\ part # "display" => ram = a /\ row = 0 /\ col = 0

TransmitNext ==
  /\ UNCHANGED part
  /\ \/ part = "ring" /\ Next /\ UNCHANGED displayVars
     \/ part = "display" /\ DisplayNext /\ UNCHANGED vars

\* The fairness of DisplayFairSpec.
TransmitSpec ==
  /\ TransmitInit /\ [][TransmitNext]_<<part, vars, displayVars>>
  /\ WF_displayVars(part = "display" /\ Main)
  /\ WF_displayVars(part = "display" /\ TxInterrupt)
  /\ WF_displayVars(part = "display" /\ LcdTakes)
=============================================================================
