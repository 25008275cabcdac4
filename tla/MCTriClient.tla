---------------------------- MODULE MCTriClient ----------------------------
(***************************************************************************)
(* Instances of TriClient for TLC.                                         *)
(***************************************************************************)
EXTENDS TriClient
=============================================================================
