--------------------------- MODULE MCDspProtocol ---------------------------
(* An instance of DspProtocol for TLC.                                     *)
EXTENDS DspProtocol

\* A value with the bytes of a message header in it.
MCValues == {<<Start, Module, SetValue, 0>>}
=============================================================================
