----------------------------- MODULE MCCmdBuffer -----------------------------
(* Identifiers on both sides of the truncation for the runs of CmdBuffer.   *)
EXTENDS CmdBuffer

AcrossTheWrap == -1..8
=============================================================================
