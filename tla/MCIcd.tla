------------------------------- MODULE MCIcd -------------------------------
(***************************************************************************)
(* Instances of Icd, with its displays, for TLC.                           *)
(***************************************************************************)
EXTENDS Icd, TLC

Symmetry == Permutations(Blocks) \cup Permutations(Params)
=============================================================================
