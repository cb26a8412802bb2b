--------------------------- MODULE ServerLifecycle ---------------------------
(***************************************************************************)
(* What a coordinator promises to the clients that follow its state over   *)
(* D-Bus (morgothctl's start, stop and restart): which changes of state    *)
(* they may see, and that a server is never left Starting.                 *)
(*                                                                         *)
(* "deadline" says that some start is still to be decided by a timeout,    *)
(* "attended" that a connected game server will report its own end.        *)
(***************************************************************************)
VARIABLES state, deadline, attended
vars == <<state, deadline, attended>>

Init ==
    /\ state = "Offline"
    /\ deadline = FALSE
    /\ attended = FALSE

(***************************************************************************)
(* A start is accepted in any state, and either gets a deadline or fails.  *)
(***************************************************************************)
Launch ==
    /\ state' = "Starting"
    /\ deadline' = TRUE
    /\ UNCHANGED attended

Refuse ==
    /\ state' = "Crashed"
    /\ UNCHANGED <<deadline, attended>>

\* Mutated form: a stop takes the deadline away.
RequestStopForAll ==
    /\ state \in {"Starting", "Running"}
    /\ state' = "ShuttingDown"
    /\ deadline' = FALSE
    /\ UNCHANGED attended

RequestStop ==
    /\ state \in {"Starting", "Running"}
    /\ state' = "ShuttingDown"
    /\ UNCHANGED <<deadline, attended>>

(***************************************************************************)
(* The game server registers; no start remains undecided.                  *)
(***************************************************************************)
Register ==
    /\ state' = "Running"
    /\ deadline' = FALSE
    /\ attended' = TRUE

(***************************************************************************)
(* A deadline passes; another start may have one of its own.               *)
(***************************************************************************)
Expire ==
    /\ deadline
    /\ state' = "Crashed"
    /\ deadline' \in BOOLEAN
    /\ UNCHANGED attended

(***************************************************************************)
(* The game server reports its end, or its connection is found lost;       *)
(* another one may still be connected.                                     *)
(***************************************************************************)
End ==
    /\ state' \in {"Offline", "Crashed"}
    /\ attended' \in {FALSE, attended}
    /\ UNCHANGED deadline

(***************************************************************************)
(* The server is removed; the next one begins anew.                        *)
(***************************************************************************)
Reset ==
    /\ state' = "Offline"
    /\ deadline' = FALSE
    /\ attended' = FALSE

Next == Launch \/ Refuse \/ RequestStop \/ Register \/ Expire \/ End \/ Reset

Spec == Init /\ [][Next]_vars

FairSpec == Spec /\ WF_vars(Expire)

(***************************************************************************)
(* What clients may build on: whoever sees a server Starting, Running or   *)
(* ShuttingDown has an event ahead that will tell how it ends.             *)
(***************************************************************************)
Promise ==
    /\ state = "Starting" => deadline
    /\ state = "Running" => attended
    /\ state = "ShuttingDown" => deadline \/ attended
==============================================================================
