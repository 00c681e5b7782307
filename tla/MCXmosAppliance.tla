--------------------------- MODULE MCXmosAppliance ---------------------------
(***************************************************************************)
(* XmosAppliance for TLC.                                                  *)
(***************************************************************************)
EXTENDS XmosAppliance
=============================================================================
