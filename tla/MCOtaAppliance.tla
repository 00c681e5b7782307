---------------------------- MODULE MCOtaAppliance ----------------------------
(***************************************************************************)
(* OtaAppliance for TLC: two releases that install and one whose bundle    *)
(* passes the controller's check but not the installer's.  Two directories *)
(* and two files, the version file first, have the order of the managed    *)
(* lists of the standalone flavor: directories, the version file, more.    *)
(***************************************************************************)
EXTENDS OtaProgress

CONSTANTS r1, r2, bad
=============================================================================
