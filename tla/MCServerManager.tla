--------------------------- MODULE MCServerManager ---------------------------
(***************************************************************************)
(* Instances of ServerManager for TLC.                                     *)
(***************************************************************************)
EXTENDS ServerManager, TLC

(***************************************************************************)
(* Addresses are told apart only by identity.                              *)
(***************************************************************************)
Addresses == Permutations(Servers) \cup Permutations(Ifaces)
==============================================================================
