--------------------------- MODULE MCOtaController ---------------------------
(***************************************************************************)
(* OtaController for TLC: three bundles, one of which does not verify, a   *)
(* download of up to three reports, and two restarts of the process.       *)
(***************************************************************************)
EXTENDS ControllerInvariant

CONSTANTS genuine, other, forged
=============================================================================
