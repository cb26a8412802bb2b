----------------------------- MODULE Supervision -----------------------------
(***************************************************************************)
(* The daemon's process around the coordinator of a server: SIGTERM, the   *)
(* destructors that an orderly end runs, a death that runs none, and the   *)
(* init system that starts the next process.                               *)
(*                                                                         *)
(* The sessions belong to tmux and outlive the process.  The next one's    *)
(* coordinator has a new session name and knows nothing of them.           *)
(***************************************************************************)
EXTENDS ServerCoordinator

VARIABLES
    process,        \* "up"; "ending": SIGTERM is in the socket pair; "down"
    obeyed          \* history: every tmux command has done what it was told

processVars == <<process, obeyed>>
supervisedVars == <<vars, processVars>>

Processes == {"up", "ending", "down"}

SupervisedTypeOK ==
    /\ TypeOK
    /\ process \in Processes
    /\ obeyed \in BOOLEAN

SupervisedInit ==
    /\ Init
    /\ process = "down"
    /\ obeyed = TRUE

(***************************************************************************)
(* The same coordinator, over a tmux that answers every command.           *)
(***************************************************************************)
Obedient == INSTANCE ServerCoordinator WITH TmuxFaults <- FALSE

(***************************************************************************)
(* Servers are restored, and their coordinators are new: Offline.          *)
(***************************************************************************)
Boot ==
    /\ process = "down"
    /\ process' = "up"
    /\ UNCHANGED <<vars, obeyed>>

(***************************************************************************)
(* The event loop, which goes on until handleSignal() has its turn.        *)
(***************************************************************************)
Work ==
    /\ process # "down"
    /\ Next
    /\ obeyed' = (obeyed /\ Obedient!Next)
    /\ UNCHANGED process

SigTerm ==
    /\ process = "up"
    /\ process' = "ending"
    /\ UNCHANGED <<vars, obeyed>>

\* Mutated form: the handler of the signal leaves by exit().
QuitAtOnce ==
    /\ process = "ending"
    /\ process' = "down"
    /\ DestroyNoKill
    /\ InterfacesGone
    /\ UNCHANGED obeyed

(***************************************************************************)
(* handleSignal() quits the event loop.  stopSync(), which is called then, *)
(* is empty: the session is killed by the wrapper's destructor, without a  *)
(* "quit".                                                                 *)
(***************************************************************************)
Quit ==
    /\ process = "ending"
    /\ process' = "down"
    /\ Destroy
    /\ InterfacesGone
    /\ obeyed' = (obeyed /\ Obedient!Destroy)

(***************************************************************************)
(* The process dies without its destructors.  Unless the init system ends  *)
(* everything the service has started, the session lives on, under a name  *)
(* that nobody knows any more.                                             *)
(***************************************************************************)
Vanish ==
    /\ process' = "down"
    /\ state' = "Offline" /\ error' = "NoError" /\ user' = OwnUser
    /\ session' = NoSession /\ srcds' = FALSE /\ quitTyped' = FALSE
    /\ waiting' = {} /\ leaving' = {} /\ subscribed' = {}
    /\ InterfacesGone
    /\ UNCHANGED <<orphaned, obeyed>>

Crash ==
    /\ process # "down"
    /\ Vanish

(***************************************************************************)
(* A second SIGTERM.  The flags of the handler are whatever was on the     *)
(* stack: with SA_RESETHAND among them the first signal has restored the   *)
(* default, which is to die; otherwise nothing new happens.                *)
(***************************************************************************)
SigTermAgain ==
    /\ process = "ending"
    /\ Vanish

SupervisedNext == Boot \/ Work \/ SigTerm \/ Quit \/ Crash \/ SigTermAgain

SupervisedSpec == SupervisedInit /\ [][SupervisedNext]_supervisedVars

------------------------------------------------------------------------------
(* Properties.  SessionIsReachable and LaunchesIntoNewSession of the       *)
(* coordinator hold here too, with failing commands and processes that die.*)

(***************************************************************************)
(* Destructors leave nothing behind: a server removed, or a daemon told to *)
(* end, takes its session along, even one launched between the signal and  *)
(* the end; as long as tmux obeys.                                         *)
(***************************************************************************)
OrderlyEndIsClean == obeyed => ~orphaned

(***************************************************************************)
(* A server shown as Offline has no session, in the first process or in one*)
(* that a death has brought about, as long as tmux obeys.                  *)
(***************************************************************************)
OfflineIsOffline == obeyed /\ state = "Offline" => session = NoSession

(***************************************************************************)
(* As long as tmux obeys, a server that is ShuttingDown and still runs was *)
(* told to quit by the stop() that made it so, however often it was started*)
(* and stopped before.  (A quit that fails goes unnoticed.)                *)
(***************************************************************************)
RunningWasToldToQuit == obeyed /\ state = "ShuttingDown" /\ srcds => quitTyped
==============================================================================
