------------------------- MODULE MCServerCoordinator -------------------------
(***************************************************************************)
(* Instances of ServerCoordinator for TLC.                                 *)
(***************************************************************************)
EXTENDS ServerCoordinator, TLC

(***************************************************************************)
(* Starters and interfaces are told apart only by identity.                *)
(***************************************************************************)
Interchangeable == Permutations(Starters) \cup Permutations(GameServers)
==============================================================================
