---------------------------- MODULE Lexicographic ----------------------------
(***************************************************************************)
(* The order of the ranks that OtaProgress and OtaController give to what  *)
(* is left of a trial and of an update: three numbers, the first of them   *)
(* that differs decides.                                                   *)
(***************************************************************************)
EXTENDS Naturals

Falls(new, old) ==
  \/ new[1] < old[1]
  \/ new[1] = old[1] /\ new[2] < old[2]
  \/ new[1] = old[1] /\ new[2] = old[2] /\ new[3] < old[3]
=============================================================================
