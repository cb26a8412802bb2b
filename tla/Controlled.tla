----------------------------- MODULE Controlled -----------------------------
(***************************************************************************)
(* The coordinator of a server together with the morgothctl processes that *)
(* start, stop and remove it: the steps of the processes are those of      *)
(* Morgothctl, the calls and signals are handled by ServerCoordinator      *)
(* itself where Morgothctl has the contract, ServerLifecycle.              *)
(***************************************************************************)
EXTENDS ServerCoordinator

CONSTANTS
    Clients,        \* morgothctl processes
    None            \* no signal

VARIABLES managed, todo, at, signal, owed       \* see Morgothctl

Commands == INSTANCE Morgothctl WITH deadline <- waiting # {}, attended <- Attended

clientVars == <<managed, todo, at, signal, owed>>
controlledVars == <<vars, clientVars>>

ControlledInit ==
    /\ Init
    /\ Commands!Init

(***************************************************************************)
(* What a process does by itself, and the calls that reach no handler of   *)
(* the coordinator or change nothing there.                                *)
(***************************************************************************)
ClientSteps(c) ==
    /\ UNCHANGED vars
    /\ \/ \E script \in Commands!Scripts : Commands!Invoke(c, script)
       \/ Commands!Check(c) \/ Commands!Decline(c) \/ Commands!Subscribe(c)
       \/ Commands!StartUnknown(c) \/ Commands!StopIgnored(c) \/ Commands!RemoveUnknown(c)

Handle(c) ==
    /\ UNCHANGED vars
    /\ Commands!Handle(c)

(***************************************************************************)
(* The calls that the coordinator, or the manager that owns it, executes.  *)
(***************************************************************************)
Calls(c) ==
    \/ /\ \E st \in Starters, wanted \in Users : Start(st, wanted)
       /\ Commands!StartCalled(c)
    \/ Stop /\ Commands!StopCalled(c)
    \/ Remove /\ Commands!RemoveCalled(c)

(***************************************************************************)
(* What else makes the coordinator call setState().                        *)
(***************************************************************************)
StartTimedOut(st) ==
    /\ StartTimeout(st)
    /\ Commands!Reported

StateChanges ==
    /\ \E g \in GameServers :
          \/ GameServerOnline(g)
          \/ g \in subscribed /\ AboutToQuit(g)
          \/ GameServerTimedOut(g)
    /\ Commands!Reported

(***************************************************************************)
(* What does not.                                                          *)
(***************************************************************************)
SilentSteps ==
    /\ \/ \E g \in GameServers :
             \/ managed /\ UnsolicitedOnline(g)
             \/ g \notin subscribed /\ AboutToQuit(g)
             \/ IfaceDeleted(g)
             \/ ConnectionDrops(g)
       \/ \E st \in Starters : StarterDeleted(st)
       \/ ProcessExits
       \/ SessionEnds
    /\ UNCHANGED clientVars

Add ==
    /\ UNCHANGED vars
    /\ Commands!Add

ControlledNext ==
    \/ \E c \in Clients : ClientSteps(c) \/ Handle(c) \/ Calls(c)
    \/ \E st \in Starters : StartTimedOut(st)
    \/ StateChanges
    \/ SilentSteps
    \/ Add

ControlledSpec == ControlledInit /\ [][ControlledNext]_controlledVars

------------------------------------------------------------------------------
(* Properties. *)

(***************************************************************************)
(* A process waiting for the end of a start (startcommand.cpp) is owed a   *)
(* state by the coordinator itself, or has its signal already: no order of *)
(* timers, signals of other starts, ends of sessions and connections leaves*)
(* it waiting for nothing.                                                 *)
(***************************************************************************)
NoStartIsForgotten == Commands!StartIsAnswered

(***************************************************************************)
(* The same for a process waiting for "offline" after stop()               *)
(* (stopcommand.cpp).                                                      *)
(***************************************************************************)
NoStopIsForgotten == Commands!StopIsAnswered

(***************************************************************************)
(* Every process finds the coordinator as Morgothctl describes it: what is *)
(* shown there of the contract holds of the code that stands in its place. *)
(***************************************************************************)
ServesCommands == Commands!Spec
==============================================================================
