-------------------------- MODULE CompositionProofs --------------------------
(***************************************************************************)
(* Proofs about the coordinator in company: with the process that drives   *)
(* it and an obedient tmux (Supervision), and with the morgothctl          *)
(* processes that call it (Controlled).  For any users, starters,          *)
(* interfaces and processes, with and without tmux faults.                 *)
(***************************************************************************)
EXTENDS Supervision, Controlled, ServerCoordinatorProofs

------------------------------------------------------------------------------
(* What the obedient tmux does to a session the wrapper can reach. *)

LEMMA ObedientKill ==
    ASSUME NEW k \in Obedient!Kill(session, user), TypeOK, SessionIsReachable
    PROVE  k.session = NoSession
  BY TmuxAssumption
     DEF Obedient!Kill, Obedient!KillCommand, Obedient!Exists, Obedient!Command,
         Obedient!Rejected, Obedient!Outcome, Obedient!Sessions, Obedient!Account,
         TypeOK, SessionIsReachable, Sessions, Account

LEMMA ObedientKeys ==
    ASSUME NEW k \in Obedient!SendKeys(session, user), SessionIsReachable,
           session # NoSession
    PROVE  k.typed
  BY DEF Obedient!SendKeys, Obedient!Account, SessionIsReachable, Account

------------------------------------------------------------------------------
(* The inductive invariant: that of the coordinator, and what an obedient  *)
(* tmux adds to it.                                                        *)

Obeyed ==
    /\ OrderlyEndIsClean
    /\ OfflineIsOffline
    /\ RunningWasToldToQuit

SupervisedInv ==
    /\ IInv
    /\ process \in Processes
    /\ obeyed \in BOOLEAN
    /\ Obeyed

(***************************************************************************)
(* One step of the event loop over an obedient tmux.                       *)
(***************************************************************************)
LEMMA ObedientStep ==
    ASSUME SupervisedInv, obeyed, Obedient!Next
    PROVE  /\ ~orphaned'
           /\ state' = "Offline" => session' = NoSession
           /\ state' = "ShuttingDown" /\ srcds' => quitTyped'
<1> DEFINE Goal == /\ ~orphaned'
                   /\ state' = "Offline" => session' = NoSession
                   /\ state' = "ShuttingDown" /\ srcds' => quitTyped'
<1>0. /\ ~orphaned
      /\ state = "Offline" => session = NoSession
      /\ state = "ShuttingDown" /\ srcds => quitTyped
      /\ TypeOK /\ SessionIsReachable /\ SrcdsHasSession
  BY DEF SupervisedInv, Obeyed, OrderlyEndIsClean, OfflineIsOffline,
         RunningWasToldToQuit, IInv
<1>1. ASSUME NEW st \in Starters, NEW wanted \in Users, Obedient!Start(st, wanted)
      PROVE  Goal
  <2>1. UNCHANGED orphaned /\ state' \in {"Starting", "Crashed"}
    BY <1>1 DEF Obedient!Start, Obedient!Launch, Obedient!Fail
  <2> QED
    BY <1>0, <2>1
<1>2. ASSUME Obedient!Stop PROVE Goal
  <2>1. /\ state' = "ShuttingDown"
        /\ UNCHANGED <<session, srcds, orphaned>>
    BY <1>2 DEF Obedient!Stop, Obedient!tmuxVars
  <2>2. PICK k \in Obedient!SendKeys(session, user) : quitTyped' = k.typed
    BY <1>2 DEF Obedient!Stop
  <2>3. srcds => k.typed
    BY <1>0, ObedientKeys DEF SrcdsHasSession
  <2> QED
    BY <1>0, <2>1, <2>2, <2>3
<1>3. ASSUME NEW g \in GameServers,
             Obedient!GameServerOnline(g) \/ Obedient!UnsolicitedOnline(g)
      PROVE  Goal
  BY <1>0, <1>3
     DEF Obedient!GameServerOnline, Obedient!UnsolicitedOnline, Obedient!tmuxVars
<1>4. ASSUME NEW g \in GameServers, Obedient!AboutToQuit(g) PROVE Goal
  <2>1. CASE g \in subscribed
    <3>1. /\ state' = "Offline"
          /\ UNCHANGED orphaned
          /\ \E k \in Obedient!Kill(session, user) : session' = k.session
      BY <1>4, <2>1 DEF Obedient!AboutToQuit, Obedient!KillSession
    <3> QED
      BY <1>0, <3>1, ObedientKill
  <2>2. CASE g \notin subscribed
    BY <1>0, <1>4, <2>2 DEF Obedient!AboutToQuit
  <2> QED
    BY <2>1, <2>2
<1>5. ASSUME NEW g \in GameServers, Obedient!GameServerTimedOut(g) PROVE Goal
  BY <1>0, <1>5 DEF Obedient!GameServerTimedOut
<1>6. ASSUME NEW g \in GameServers,
             Obedient!IfaceDeleted(g) \/ Obedient!ConnectionDrops(g)
      PROVE  Goal
  BY <1>0, <1>6 DEF Obedient!IfaceDeleted, Obedient!ConnectionDrops, Obedient!tmuxVars
<1>7. ASSUME NEW st \in Starters, Obedient!StartTimeout(st) \/ Obedient!StarterDeleted(st)
      PROVE  Goal
  BY <1>0, <1>7
     DEF Obedient!StartTimeout, Obedient!Fail, Obedient!StarterDeleted, Obedient!tmuxVars
<1>8. ASSUME Obedient!Remove PROVE Goal
  BY <1>0, <1>8, ObedientKill DEF Obedient!Remove, Obedient!Destroy
<1>9. ASSUME Obedient!ProcessExits \/ Obedient!SessionEnds PROVE Goal
  BY <1>0, <1>9 DEF Obedient!ProcessExits, Obedient!SessionEnds
<1> QED
  BY <1>1, <1>2, <1>3, <1>4, <1>5, <1>6, <1>7, <1>8, <1>9 DEF Obedient!Next

LEMMA InitSupervised == SupervisedInit => SupervisedInv
  BY InitInv
     DEF SupervisedInit, Init, SupervisedInv, Obeyed, Processes, OrderlyEndIsClean,
         OfflineIsOffline, RunningWasToldToQuit

LEMMA StepSupervised ==
    SupervisedInv /\ [SupervisedNext]_supervisedVars => SupervisedInv'
<1> SUFFICES ASSUME SupervisedInv, [SupervisedNext]_supervisedVars
             PROVE  SupervisedInv'
  OBVIOUS
<1> USE DEF SupervisedInv, Obeyed, OrderlyEndIsClean, OfflineIsOffline,
            RunningWasToldToQuit
<1>1. ASSUME UNCHANGED <<vars, obeyed>>, process' \in Processes PROVE SupervisedInv'
  <2>1. IInv'
    BY <1>1, StepInv
  <2> QED
    BY <1>1, <2>1 DEF vars, tmuxVars
<1>2. CASE Boot
  BY <1>1, <1>2 DEF Boot, Processes
<1>3. CASE Work
  <2>1. /\ IInv'
        /\ UNCHANGED process
        /\ obeyed' = (obeyed /\ Obedient!Next)
    BY <1>3, StepInv DEF Work
  <2>2. CASE obeyed /\ Obedient!Next
    BY <2>1, <2>2, ObedientStep
  <2>3. CASE ~(obeyed /\ Obedient!Next)
    BY <2>1, <2>3
  <2> QED
    BY <2>2, <2>3
<1>4. CASE SigTerm
  BY <1>1, <1>4 DEF SigTerm, Processes
<1>5. CASE Quit
  <2>1. /\ IInv'
        /\ process' = "down"
        /\ state' = "Offline" /\ session' = NoSession
        /\ obeyed' = (obeyed /\ Obedient!Destroy)
    BY <1>5, StepInv DEF Quit, Next, Remove, Destroy
  <2>2. CASE obeyed /\ Obedient!Destroy
    <3>1. ~orphaned'
      BY <1>5, <2>2, ObedientStep
         DEF Quit, InterfacesGone, Obedient!Next, Obedient!Remove, Obedient!InterfacesGone
    <3> QED
      BY <2>1, <2>2, <3>1 DEF Processes
  <2>3. CASE ~(obeyed /\ Obedient!Destroy)
    BY <2>1, <2>3 DEF Processes
  <2> QED
    BY <2>2, <2>3
<1>6. CASE Vanish
  <2>1. IInv'
    BY <1>6, TmuxAssumption
       DEF Vanish, InterfacesGone, IInv, TypeOK, SessionIsReachable, SrcdsHasSession, IfaceLife, Claims,
           StartingHasDeadline, RunningIsAttended, ShutdownIsWatched, Clean,
           OfflineIsClean, RemovalLeavesNothing, States, Errors, Sessions
  <2> QED
    BY <1>6, <2>1 DEF Vanish, Processes
<1>7. CASE UNCHANGED supervisedVars
  BY <1>1, <1>7 DEF supervisedVars, processVars
<1> QED
  BY <1>2, <1>3, <1>4, <1>5, <1>6, <1>7 DEF SupervisedNext, Crash, SigTermAgain

LEMMA SupervisedInvariance == SupervisedSpec => []SupervisedInv
  BY InitSupervised, StepSupervised, PTL DEF SupervisedSpec

------------------------------------------------------------------------------
(* The properties of the run. *)

(***************************************************************************)
(* The coordinator's variables keep their types through signals, deaths and*)
(* restarts of the process.                                                *)
(***************************************************************************)
THEOREM SupervisedTypeCorrect == SupervisedSpec => []SupervisedTypeOK
<1>1. SupervisedInv => SupervisedTypeOK
  BY DEF SupervisedInv, SupervisedTypeOK, IInv
<1> QED
  BY <1>1, SupervisedInvariance, PTL

(***************************************************************************)
(* TmuxSessionWrapper asks the account that holds the session, whichever   *)
(* process of the daemon it belongs to and whatever failed before.         *)
(***************************************************************************)
THEOREM SupervisedReachable == SupervisedSpec => []SessionIsReachable
<1>1. SupervisedInv => SessionIsReachable
  BY DEF SupervisedInv, IInv
<1> QED
  BY <1>1, SupervisedInvariance, PTL

(***************************************************************************)
(* The destructors that SIGTERM leads to leave no session behind, even one *)
(* launched between the signal and the end, as long as tmux obeys.         *)
(***************************************************************************)
THEOREM OrderlyEnd == SupervisedSpec => []OrderlyEndIsClean
<1>1. SupervisedInv => OrderlyEndIsClean
  BY DEF SupervisedInv, Obeyed
<1> QED
  BY <1>1, SupervisedInvariance, PTL

(***************************************************************************)
(* A coordinator that shows Offline has no session, in every process of the*)
(* daemon, as long as tmux obeys.                                          *)
(***************************************************************************)
THEOREM OfflineHasNoSession == SupervisedSpec => []OfflineIsOffline
<1>1. SupervisedInv => OfflineIsOffline
  BY DEF SupervisedInv, Obeyed
<1> QED
  BY <1>1, SupervisedInvariance, PTL

(***************************************************************************)
(* The "quit" of stop() has reached every server that is ShuttingDown and  *)
(* runs, as long as tmux obeys.                                            *)
(***************************************************************************)
THEOREM ToldToQuit == SupervisedSpec => []RunningWasToldToQuit
<1>1. SupervisedInv => RunningWasToldToQuit
  BY DEF SupervisedInv, Obeyed
<1> QED
  BY <1>1, SupervisedInvariance, PTL

(***************************************************************************)
(* The launch command of start() reaches only a session that this call has *)
(* created, in every process of the daemon and with failing commands.      *)
(***************************************************************************)
THEOREM SupervisedLaunch == SupervisedSpec => LaunchesIntoNewSession
<1>1. SupervisedInv /\ [SupervisedNext]_supervisedVars =>
          [\A st \in Starters :
               st \in waiting' \ waiting =>
                   session = NoSession /\ ~srcds /\ session' = Account(user')]_vars
  <2> SUFFICES ASSUME SupervisedInv, [SupervisedNext]_supervisedVars,
                      NEW st \in Starters, st \in waiting' \ waiting
               PROVE  session = NoSession /\ ~srcds /\ session' = Account(user')
    OBVIOUS
  <2>1. Next
    BY DEF SupervisedNext, supervisedVars, vars, starterVars, Boot, Work, SigTerm, Quit,
           Remove, Destroy, Crash, SigTermAgain, Vanish
  <2>2. PICK wanted \in Users : Start(st, wanted)
    BY <2>1, OnlyStartWaits
  <2>3. Launched(st, wanted)
    BY <2>2, StartStep DEF SupervisedInv, IInv, Refused
  <2> QED
    BY <2>3 DEF Launched, SupervisedInv, IInv, SrcdsHasSession
<1> QED
  BY <1>1, SupervisedInvariance, PTL DEF SupervisedSpec, LaunchesIntoNewSession

------------------------------------------------------------------------------
(* The contract outlives the process. *)

(***************************************************************************)
(* What ServerLifecycle allows is all that clients see of a coordinator    *)
(* even while the daemon is told to end, dies and is started again: the    *)
(* next process's Offline is a Reset.                                      *)
(***************************************************************************)
THEOREM SupervisedImplements == SupervisedSpec => Lifecycle!Spec
<1>1. SupervisedInit => Lifecycle!Init
  BY InitLifecycle DEF SupervisedInit
<1>2. SupervisedInv /\ [SupervisedNext]_supervisedVars
          => [Lifecycle!Next]_(Lifecycle!vars)
  <2> SUFFICES ASSUME SupervisedInv, [SupervisedNext]_supervisedVars
               PROVE  [Lifecycle!Next]_(Lifecycle!vars)
    OBVIOUS
  <2>1. CASE Work
    BY <2>1, StepLifecycle DEF Work, SupervisedInv
  <2>2. CASE Boot \/ SigTerm \/ UNCHANGED supervisedVars
    BY <2>2, StepLifecycle DEF Boot, SigTerm, supervisedVars, SupervisedInv
  <2>3. CASE Quit
    BY <2>3, StepLifecycle DEF Quit, Next, Remove, SupervisedInv
  <2>4. CASE Vanish
    BY <2>4 DEF Vanish, Lifecycle!Next, Lifecycle!Reset, Attended
  <2> QED
    BY <2>1, <2>2, <2>3, <2>4 DEF SupervisedNext, Crash, SigTermAgain
<1> QED
  BY <1>1, <1>2, SupervisedInvariance, PTL DEF SupervisedSpec, Lifecycle!Spec
------------------------------------------------------------------------------
(* The processes that command a server. *)

(***************************************************************************)
(* The proofs about the processes, for the coordinator in the contract's   *)
(* place.                                                                  *)
(***************************************************************************)
Proved == INSTANCE MorgothctlProofs WITH deadline <- waiting # {}, attended <- Attended

(***************************************************************************)
(* Whatever the processes and the daemon do, the coordinator takes a step  *)
(* of its own or none; so its invariant holds here too.                    *)
(***************************************************************************)
LEMMA ControlledStep == [ControlledNext]_controlledVars => [Next]_vars
  BY DEF ControlledNext, controlledVars, ClientSteps, Handle, Calls, StartTimedOut,
         StateChanges, SilentSteps, Add, Next

LEMMA ControlledInvariance == ControlledSpec => []IInv
<1>1. ControlledInit => IInv
  BY InitInv DEF ControlledInit
<1>2. IInv /\ [ControlledNext]_controlledVars => IInv'
  BY ControlledStep, StepInv
<1> QED
  BY <1>1, <1>2, PTL DEF ControlledSpec

LEMMA QuietCoordinator ==
    ASSUME UNCHANGED vars
    PROVE  UNCHANGED Commands!coordinatorVars
  BY DEF vars, starterVars, ifaceVars, Attended, Commands!coordinatorVars

LEMMA ClientServed ==
    ASSUME NEW c \in Clients, ClientSteps(c) \/ Handle(c)
    PROVE  Commands!Next
  BY QuietCoordinator
     DEF ClientSteps, Handle, Commands!Next, Commands!CallStart, Commands!CallStop,
         Commands!CallRemove

(***************************************************************************)
(* A call does to the coordinator what its contract lets it do.            *)
(***************************************************************************)
LEMMA CallServed ==
    ASSUME IInv, NEW c \in Clients, Calls(c)
    PROVE  Commands!Next
<1>1. ASSUME NEW st \in Starters, NEW wanted \in Users, Start(st, wanted),
             Commands!StartCalled(c)
      PROVE  Commands!CallStart(c)
  <2>1. Refused \/ Launched(st, wanted)
    BY <1>1, StartStep DEF IInv
  <2>2. UNCHANGED Attended
    BY <1>1 DEF Start, ifaceVars, Attended
  <2>3. Commands!Coordinator!Launch \/ Commands!Coordinator!Refuse
    BY <2>1, <2>2
       DEF Refused, Launched, Commands!Coordinator!Launch, Commands!Coordinator!Refuse
  <2> QED
    BY <1>1, <2>3 DEF Commands!CallStart
<1>2. ASSUME Stop, Commands!StopCalled(c)
      PROVE  Commands!CallStop(c)
  <2>1. Commands!Coordinator!RequestStop
    BY <1>2 DEF Stop, starterVars, ifaceVars, Attended, Commands!Coordinator!RequestStop
  <2> QED
    BY <1>2, <2>1 DEF Commands!CallStop
<1>3. ASSUME Remove, Commands!RemoveCalled(c)
      PROVE  Commands!CallRemove(c)
  <2>1. Commands!Coordinator!Reset
    BY <1>3 DEF Remove, Destroy, Attended, Commands!Coordinator!Reset
  <2> QED
    BY <1>3, <2>1 DEF Commands!CallRemove
<1> QED
  BY <1>1, <1>2, <1>3 DEF Calls, Commands!Next

(***************************************************************************)
(* Each setState() of the daemon's own is an event of the contract.        *)
(***************************************************************************)
LEMMA ReportServed ==
    ASSUME StateChanges \/ \E st \in Starters : StartTimedOut(st)
    PROVE  Commands!Next
<1>1. ASSUME NEW g \in GameServers, GameServerOnline(g)
      PROVE  Commands!Coordinator!Register
  BY <1>1 DEF GameServerOnline, Attended, Commands!Coordinator!Register
<1>2. ASSUME NEW g \in GameServers,
             (g \in subscribed /\ AboutToQuit(g)) \/ GameServerTimedOut(g)
      PROVE  Commands!Coordinator!End
  BY <1>2
     DEF AboutToQuit, GameServerTimedOut, Forget, starterVars, Attended,
         Commands!Coordinator!End
<1>3. ASSUME NEW st \in Starters, StartTimeout(st)
      PROVE  Commands!Coordinator!Expire
  BY <1>3 DEF StartTimeout, Fail, ifaceVars, Attended, Commands!Coordinator!Expire
<1> QED
  BY <1>1, <1>2, <1>3
     DEF StateChanges, StartTimedOut, Commands!Next, Commands!Register,
         Commands!Expire, Commands!GameServerEnds

(***************************************************************************)
(* What emits no stateChanged changes nothing that a process could see.    *)
(***************************************************************************)
LEMMA SilenceServed ==
    ASSUME IInv, SilentSteps
    PROVE  UNCHANGED Commands!coordinatorVars
<1> USE DEF Attended, Commands!coordinatorVars
<1>1. ASSUME NEW g \in GameServers, UnsolicitedOnline(g) \/ IfaceDeleted(g)
      PROVE  UNCHANGED Commands!coordinatorVars
  BY <1>1 DEF UnsolicitedOnline, IfaceDeleted, IInv, IfaceLife, starterVars
<1>2. ASSUME NEW g \in GameServers,
             (g \notin subscribed /\ AboutToQuit(g)) \/ ConnectionDrops(g)
      PROVE  UNCHANGED Commands!coordinatorVars
  BY <1>2 DEF AboutToQuit, Forget, ConnectionDrops, starterVars
<1>3. ASSUME NEW st \in Starters, StarterDeleted(st)
      PROVE  UNCHANGED Commands!coordinatorVars
  BY <1>3 DEF StarterDeleted, ifaceVars
<1>4. CASE ProcessExits \/ SessionEnds
  BY <1>4 DEF ProcessExits, SessionEnds, starterVars, ifaceVars
<1> QED
  BY <1>1, <1>2, <1>3, <1>4 DEF SilentSteps

(***************************************************************************)
(* The coordinator serves any number of morgothctl processes as Morgothctl *)
(* says of its contract: every step of the two together is one of          *)
(* Morgothctl's.                                                           *)
(***************************************************************************)
THEOREM CommandsServed == ControlledSpec => ServesCommands
<1>1. ControlledInit => Commands!Init
  BY DEF ControlledInit
<1>2. IInv /\ [ControlledNext]_controlledVars => [Commands!Next]_(Commands!vars)
  <2> SUFFICES ASSUME IInv, [ControlledNext]_controlledVars
               PROVE  [Commands!Next]_(Commands!vars)
    OBVIOUS
  <2>1. CASE \E c \in Clients : ClientSteps(c) \/ Handle(c) \/ Calls(c)
    BY <2>1, ClientServed, CallServed
  <2>2. CASE StateChanges \/ \E st \in Starters : StartTimedOut(st)
    BY <2>2, ReportServed
  <2>3. CASE SilentSteps
    BY <2>3, SilenceServed
       DEF SilentSteps, clientVars, Commands!vars, Commands!clientVars
  <2>4. CASE Add
    BY <2>4 DEF Add, Commands!Next
  <2>5. CASE UNCHANGED controlledVars
    BY <2>5, QuietCoordinator
       DEF controlledVars, clientVars, Commands!vars, Commands!clientVars
  <2> QED
    BY <2>1, <2>2, <2>3, <2>4, <2>5 DEF ControlledNext
<1> QED
  BY <1>1, <1>2, ControlledInvariance, PTL
     DEF ControlledSpec, ServesCommands, Commands!Spec

------------------------------------------------------------------------------
(* What is proved of Morgothctl is thereby proved of the two together. *)

(***************************************************************************)
(* "Commands" and "Proved" are the same module under the same mapping: the *)
(* definitions that the specification is made of are expanded in both.     *)
(***************************************************************************)
LEMMA SameCommands == Commands!Spec => Proved!Spec
<1>1. Commands!Init => Proved!Init
  BY DEF Commands!Init, Proved!Init, Commands!Coordinator!Init, Proved!Coordinator!Init
<1>2. UNCHANGED Commands!vars => UNCHANGED Proved!vars
  BY DEF Commands!vars, Proved!vars, Commands!coordinatorVars, Proved!coordinatorVars,
         Commands!clientVars, Proved!clientVars
<1>3. Commands!Next => Proved!Next
  BY DEF Commands!Next, Proved!Next, Commands!coordinatorVars, Proved!coordinatorVars,
         Commands!clientVars, Proved!clientVars,
         Commands!Down, Proved!Down, Commands!Scripts, Proved!Scripts,
         Commands!Executes, Proved!Executes, Commands!Subscribed, Proved!Subscribed,
         Commands!Ends, Proved!Ends, Commands!Emit, Proved!Emit,
         Commands!Leave, Proved!Leave, Commands!Unheard, Proved!Unheard,
         Commands!Goes, Proved!Goes, Commands!StateRead, Proved!StateRead,
         Commands!Invoke, Proved!Invoke, Commands!Find, Proved!Find,
         Commands!FirstRead, Proved!FirstRead, Commands!SecondRead, Proved!SecondRead,
         Commands!Check, Proved!Check,
         Commands!Decline, Proved!Decline, Commands!Subscribe, Proved!Subscribe,
         Commands!Wait, Proved!Wait, Commands!CallStart, Proved!CallStart,
         Commands!StartCalled, Proved!StartCalled,
         Commands!StartUnknown, Proved!StartUnknown,
         Commands!CallStop, Proved!CallStop, Commands!StopCalled, Proved!StopCalled,
         Commands!StopIgnored, Proved!StopIgnored,
         Commands!CallRemove, Proved!CallRemove,
         Commands!RemoveCalled, Proved!RemoveCalled,
         Commands!RemoveUnknown, Proved!RemoveUnknown,
         Commands!Code, Proved!Code, Commands!Handle, Proved!Handle,
         Commands!Reported, Proved!Reported, Commands!Register, Proved!Register,
         Commands!Expire, Proved!Expire, Commands!GameServerEnds, Proved!GameServerEnds,
         Commands!Add, Proved!Add,
         Commands!Coordinator!Launch, Proved!Coordinator!Launch,
         Commands!Coordinator!Refuse, Proved!Coordinator!Refuse,
         Commands!Coordinator!RequestStop, Proved!Coordinator!RequestStop,
         Commands!Coordinator!Register, Proved!Coordinator!Register,
         Commands!Coordinator!Expire, Proved!Coordinator!Expire,
         Commands!Coordinator!End, Proved!Coordinator!End,
         Commands!Coordinator!Reset, Proved!Coordinator!Reset
<1>4. [Commands!Next]_(Commands!vars) => [Proved!Next]_(Proved!vars)
  BY <1>2, <1>3
<1> QED
  BY <1>1, <1>4, PTL DEF Commands!Spec, Proved!Spec

(***************************************************************************)
(* No process whose start() the coordinator has accepted misses the        *)
(* decision, with the coordinator's own timers, starters and interfaces.   *)
(***************************************************************************)
THEOREM NoStartForgotten ==
    ASSUME Proved!ClientAssumption
    PROVE  ControlledSpec => []NoStartIsForgotten
<1>1. Proved!Spec => []Proved!StartIsAnswered
  BY Proved!StartAnswered, PTL DEF Proved!StartAnswered
<1>2. Proved!StartIsAnswered => NoStartIsForgotten
  BY DEF NoStartIsForgotten, Proved!StartIsAnswered, Commands!StartIsAnswered,
         Proved!Executes, Commands!Executes
<1> QED
  BY <1>1, <1>2, CommandsServed, SameCommands, PTL DEF ServesCommands

(***************************************************************************)
(* Nor does one whose stop() was accepted miss the end of the server.      *)
(***************************************************************************)
THEOREM NoStopForgotten ==
    ASSUME Proved!ClientAssumption
    PROVE  ControlledSpec => []NoStopIsForgotten
<1>1. Proved!Spec => []Proved!StopIsAnswered
  BY Proved!StopAnswered, PTL DEF Proved!StopAnswered
<1>2. Proved!StopIsAnswered => NoStopIsForgotten
  BY DEF NoStopIsForgotten, Proved!StopIsAnswered, Commands!StopIsAnswered,
         Proved!Executes, Commands!Executes, Proved!Down, Commands!Down
<1> QED
  BY <1>1, <1>2, CommandsServed, SameCommands, PTL DEF ServesCommands
==============================================================================
