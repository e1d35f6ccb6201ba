------------------------------ MODULE MCSerial ------------------------------
(***************************************************************************)
(* Instances for TLC of the serial links: the UART's transmitter, the      *)
(* service of the panel at the end of one line, and the MIDI parser at the *)
(* end of the other.  The models share no state, so a behaviour is one of  *)
(* them while the other two rest.                                          *)
(***************************************************************************)
EXTENDS UartTx, Panel, MidiFsm

VARIABLE part

SerialInit ==
  /\ part \in {"uart", "panel", "midi"}
  /\ Init /\ PanelStart /\ MidiInit

SerialNext ==
  /\ UNCHANGED part
  /\ \/ part = "uart" /\ Next /\ UNCHANGED <<panelVars, midiVars>>
     \/ part = "panel" /\ PanelNext /\ UNCHANGED <<vars, midiVars>>
     \/ part = "midi" /\ MidiNext /\ UNCHANGED <<vars, panelVars>>

\* The fairness of UartTx's FairSpec and of PanelFairSpec.
SerialSpec ==
  /\ SerialInit /\ [][SerialNext]_<<part, vars, panelVars, midiVars>>
  /\ WF_vars(part = "uart" /\ Main) /\ WF_vars(part = "uart" /\ Isr)
  /\ WF_vars(part = "uart" /\ Shift)
  /\ WF_panelVars(part = "panel" /\ PanelInit) /\ WF_panelVars(part = "panel" /\ Task)
  /\ WF_panelVars(part = "panel" /\ Mcu)
=============================================================================
