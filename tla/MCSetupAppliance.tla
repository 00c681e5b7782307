-------------------------- MODULE MCSetupAppliance --------------------------
(***************************************************************************)
(* SetupAppliance for TLC.                                                 *)
(***************************************************************************)
EXTENDS SetupAppliance
=============================================================================
