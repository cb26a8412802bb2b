--------------------------- MODULE MCServerStatus ---------------------------
(***************************************************************************)
(* Instances of ServerStatus for TLC.                                      *)
(***************************************************************************)
EXTENDS ServerStatus, FiniteSets, TLC

(***************************************************************************)
(* Bounds: nothing is claimed after undefined behaviour, and the list of a *)
(* server that is never reset may hold one player more than there are.     *)
(***************************************************************************)
Explored == ~corrupt /\ Len(players) <= Cardinality(Players) + 1

Anyone == Permutations(Players) \cup Permutations(People)
==============================================================================
