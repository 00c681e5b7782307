----------------------------- MODULE MCMicSwitch -----------------------------
(***************************************************************************)
(* MicSwitch for TLC.                                                      *)
(***************************************************************************)
EXTENDS MicSwitch
=============================================================================
