---------------------------- MODULE MCControlled ----------------------------
(***************************************************************************)
(* Instances of Controlled for TLC.                                        *)
(***************************************************************************)
EXTENDS Controlled, TLC

Interchangeable == Permutations(Clients) \cup Permutations(Starters)
==============================================================================
