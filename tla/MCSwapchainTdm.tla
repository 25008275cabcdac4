--------------------------- MODULE MCSwapchainTdm ---------------------------
(***************************************************************************)
(* Instances of SwapchainTdm for TLC.                                      *)
(***************************************************************************)
EXTENDS SwapchainTdm, TLC

(* Surfaces are interchangeable, the initial queue holds them in any order. *)
BufferSymmetry == Permutations(Buffers)
=============================================================================
