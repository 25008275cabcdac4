---------------------------- MODULE MCTplDisplay ----------------------------
(***************************************************************************)
(* Instances of TplDisplay for TLC.                                        *)
(***************************************************************************)
EXTENDS TplDisplay, TLC

Symmetry == Permutations(Threads) \cup Permutations(Chains) \cup Permutations(Objects)
=============================================================================
