---------------------------- MODULE MCMorgothctl ----------------------------
(***************************************************************************)
(* Instances of Morgothctl for TLC.                                        *)
(***************************************************************************)
EXTENDS Morgothctl, TLC
==============================================================================
