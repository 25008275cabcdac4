----------------------- MODULE MCSwapchainLifecycle -----------------------
(***************************************************************************)
(* Instances of SwapchainLifecycle for TLC.                                *)
(***************************************************************************)
EXTENDS SwapchainLifecycle, TLC

(* Swapchain handles are interchangeable. *)
ChainSymmetry == Permutations(Chains)
=============================================================================
