--------------------------- MODULE MCMorgothDaemon ---------------------------
(***************************************************************************)
(* Instances of MorgothDaemon for TLC.                                     *)
(***************************************************************************)
EXTENDS MorgothDaemon, TLC
==============================================================================
