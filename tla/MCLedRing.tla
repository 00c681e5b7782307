------------------------------ MODULE MCLedRing ------------------------------
(***************************************************************************)
(* LedRing for TLC.                                                        *)
(***************************************************************************)
EXTENDS LedRing
=============================================================================
