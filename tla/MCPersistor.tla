----------------------------- MODULE MCPersistor -----------------------------
(***************************************************************************)
(* Instances of Persistor for TLC.                                         *)
(***************************************************************************)
EXTENDS Persistor, TLC

Renamings == Permutations(Names)
==============================================================================
