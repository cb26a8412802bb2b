---------------------------- MODULE MCSupervision ----------------------------
(***************************************************************************)
(* Instances of Supervision for TLC.                                       *)
(***************************************************************************)
EXTENDS Supervision, TLC

(***************************************************************************)
(* Starters and interfaces are told apart only by identity.                *)
(***************************************************************************)
Interchangeable == Permutations(Starters) \cup Permutations(GameServers)
==============================================================================
