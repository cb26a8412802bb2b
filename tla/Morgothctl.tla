----------------------------- MODULE Morgothctl -----------------------------
(***************************************************************************)
(* Several morgothctl processes that start, stop, restart and remove one   *)
(* server over D-Bus.                                                      *)
(*                                                                         *)
(* A command looks for the server, reads the state of its coordinator once *)
(* or twice, subscribes to stateChanged, calls, and then waits in its event*)
(* loop for a state that ends the wait; the daemon serves others between   *)
(* any two of these steps.  The coordinator is taken as its contract,      *)
(* ServerLifecycle.                                                        *)
(* Calls and signals of one connection keep their order.  A process only   *)
(* prints the signals that do not end its wait, so of those on their way to*)
(* it just the first that does is kept.                                    *)
(***************************************************************************)
EXTENDS Naturals, Sequences

CONSTANTS
    Clients,        \* morgothctl processes
    None            \* no signal

ASSUME ClientAssumption ==
    None \notin {"Offline", "Starting", "Running", "ShuttingDown", "Crashed"}

VARIABLES
    state, deadline, attended,      \* the coordinator: see ServerLifecycle
    managed,        \* the server manager has the server
    todo,           \* the commands a process still has to execute
    at,             \* where the process is in the first of them
    signal,         \* the stateChanged on its way to a process that ends its wait, or None
    owed            \* processes whose accepted start() or stop() is to be answered

coordinatorVars == <<state, deadline, attended>>
clientVars == <<todo, at>>
vars == <<coordinatorVars, managed, clientVars, signal, owed>>

Coordinator == INSTANCE ServerLifecycle

States == {"Offline", "Starting", "Running", "ShuttingDown", "Crashed"}
Down   == {"Offline", "Crashed"}

(***************************************************************************)
(* What a process executes: restart is stop, then start.                   *)
(***************************************************************************)
Scripts == {<<"start">>, <<"stop">>, <<"stop", "start">>, <<"remove">>}

Busy == {"begun", "found", "reading", "checked", "subscribed", "waiting"}

TypeOK ==
    /\ state \in States
    /\ deadline \in BOOLEAN
    /\ attended \in BOOLEAN
    /\ managed \in BOOLEAN
    /\ todo \in [Clients -> Scripts \cup {<<>>}]
    /\ at \in [Clients -> Busy \cup {"done"}]
    /\ \A c \in Clients : at[c] = "done" <=> todo[c] = <<>>
    /\ signal \in [Clients -> States \cup {None}]
    /\ owed \subseteq Clients

Init ==
    /\ Coordinator!Init
    /\ managed = TRUE
    /\ todo = [c \in Clients |-> <<>>]
    /\ at = [c \in Clients |-> "done"]
    /\ signal = [c \in Clients |-> None]
    /\ owed = {}

------------------------------------------------------------------------------
(* Signals, and the end of a command. *)

Executes(c, command) == todo[c] # <<>> /\ Head(todo[c]) = command

Subscribed == {c \in Clients : at[c] \in {"subscribed", "waiting"}}

\* Mutated form: a crash does not end the wait of stop.
EndsNoCrash(c, s) ==
    \/ Executes(c, "start") /\ s \in {"Running", "Crashed"}
    \/ Executes(c, "stop") /\ s = "Offline"

(***************************************************************************)
(* The states that end the wait of the command.                            *)
(***************************************************************************)
Ends(c, s) ==
    \/ Executes(c, "start") /\ s \in {"Running", "Crashed"}
    \/ Executes(c, "stop") /\ s \in {"Offline", "Crashed"}

Emit(s) ==
    signal' = [c \in Clients |->
                  IF c \in Subscribed /\ signal[c] = None /\ Ends(c, s) THEN s
                                                                      ELSE signal[c]]

\* Mutated form: the rest of the script is executed, whether there is one or not.
LeaveAlways(c, code) ==
    /\ todo' = [todo EXCEPT ![c] = Tail(@)]
    /\ at' = [at EXCEPT ![c] = "begun"]
    /\ owed' = owed \ {c}

(***************************************************************************)
(* A command returns an exit code; restart goes on after 0.                *)
(***************************************************************************)
Leave(c, code) ==
    /\ \/ /\ code = 0
          /\ Tail(todo[c]) # <<>>
          /\ todo' = [todo EXCEPT ![c] = Tail(@)]
          /\ at' = [at EXCEPT ![c] = "begun"]
       \/ /\ code # 0 \/ Tail(todo[c]) = <<>>
          /\ todo' = [todo EXCEPT ![c] = <<>>]
          /\ at' = [at EXCEPT ![c] = "done"]
    /\ owed' = owed \ {c}

Goes(c, place) ==
    /\ at' = [at EXCEPT ![c] = place]
    /\ UNCHANGED <<todo, owed>>

Unheard(c) == signal' = [signal EXCEPT ![c] = None]

------------------------------------------------------------------------------
(* The steps of a process. *)

Invoke(c, script) ==
    /\ at[c] = "done"
    /\ todo' = [todo EXCEPT ![c] = script]
    /\ at' = [at EXCEPT ![c] = "begun"]
    /\ UNCHANGED <<coordinatorVars, managed, signal, owed>>

(***************************************************************************)
(* The command looks for the server.                                       *)
(***************************************************************************)
Find(c) ==
    /\ at[c] = "begun"
    /\ \/ ~managed /\ Leave(c, 2)
       \/ managed /\ Goes(c, "found")
    /\ UNCHANGED <<coordinatorVars, managed, signal>>

(***************************************************************************)
(* It reads the state and goes no further when there is nothing to do.     *)
(* start and stop ask once whether it is Offline and, if it is not, once   *)
(* more whether it is Crashed.  The state of a server that has been removed*)
(* reads as Offline.                                                       *)
(***************************************************************************)
StateRead == IF managed THEN state ELSE "Offline"

FirstRead(c) ==
    /\ at[c] = "found"
    /\ \/ Executes(c, "start") /\ StateRead = "Offline" /\ Goes(c, "checked")
       \/ Executes(c, "stop") /\ StateRead = "Offline" /\ Leave(c, 0)
       \/ Executes(c, "remove") /\ StateRead = "Running" /\ Leave(c, 3)
       \/ Executes(c, "remove") /\ StateRead # "Running" /\ Goes(c, "checked")
       \/ ~Executes(c, "remove") /\ StateRead # "Offline" /\ Goes(c, "reading")
    /\ UNCHANGED <<coordinatorVars, managed, signal>>

SecondRead(c) ==
    /\ at[c] = "reading"
    /\ \/ Executes(c, "start") /\ StateRead = "Crashed" /\ Goes(c, "checked")
       \/ Executes(c, "start") /\ StateRead # "Crashed" /\ Leave(c, 0)
       \/ Executes(c, "stop") /\ StateRead = "Crashed" /\ Leave(c, 0)
       \/ Executes(c, "stop") /\ StateRead # "Crashed" /\ Goes(c, "checked")
    /\ UNCHANGED <<coordinatorVars, managed, signal>>

Check(c) == Find(c) \/ FirstRead(c) \/ SecondRead(c)

(***************************************************************************)
(* There are players on the server, and the user answers no.               *)
(***************************************************************************)
Decline(c) ==
    /\ at[c] = "checked"
    /\ Executes(c, "stop")
    /\ Leave(c, 0)
    /\ UNCHANGED <<coordinatorVars, managed, signal>>

Subscribe(c) ==
    /\ at[c] = "checked"
    /\ ~Executes(c, "remove")
    /\ at' = [at EXCEPT ![c] = "subscribed"]
    /\ UNCHANGED <<coordinatorVars, managed, todo, signal, owed>>

Wait(c) ==
    /\ at' = [at EXCEPT ![c] = "waiting"]
    /\ UNCHANGED todo

\* Mutated form: the signals of the call itself are missed.
StartCalledDeaf(c) ==
    /\ at[c] = "subscribed"
    /\ Executes(c, "start")
    /\ managed
    /\ Wait(c)
    /\ owed' = owed \cup {c}
    /\ UNCHANGED <<managed, signal>>

(***************************************************************************)
(* start() answers true however it ends, and an error when the server is   *)
(* gone.                                                                   *)
(***************************************************************************)
StartCalled(c) ==
    /\ at[c] = "subscribed"
    /\ Executes(c, "start")
    /\ managed
    /\ Wait(c)
    /\ owed' = owed \cup {c}
    /\ Emit(state')
    /\ UNCHANGED managed

StartUnknown(c) ==
    /\ at[c] = "subscribed"
    /\ Executes(c, "start")
    /\ ~managed
    /\ Leave(c, 4)
    /\ Unheard(c)
    /\ UNCHANGED managed

CallStart(c) ==
    \/ (Coordinator!Launch \/ Coordinator!Refuse) /\ StartCalled(c)
    \/ StartUnknown(c) /\ UNCHANGED coordinatorVars

(***************************************************************************)
(* stop() answers nothing, whether it was accepted, ignored or the server  *)
(* is gone: the process waits in any case.                                 *)
(***************************************************************************)
StopCalled(c) ==
    /\ at[c] = "subscribed"
    /\ Executes(c, "stop")
    /\ managed
    /\ Wait(c)
    /\ owed' = owed \cup {c}
    /\ Emit(state')
    /\ UNCHANGED managed

StopIgnored(c) ==
    /\ at[c] = "subscribed"
    /\ Executes(c, "stop")
    /\ managed => state \notin {"Starting", "Running"}
    /\ Wait(c)
    /\ UNCHANGED <<managed, signal, owed>>

CallStop(c) ==
    \/ Coordinator!RequestStop /\ StopCalled(c)
    \/ StopIgnored(c) /\ UNCHANGED coordinatorVars

(***************************************************************************)
(* remove(): the coordinator disappears without a signal.                  *)
(***************************************************************************)
RemoveCalled(c) ==
    /\ at[c] = "checked"
    /\ Executes(c, "remove")
    /\ managed
    /\ todo' = [todo EXCEPT ![c] = <<>>]
    /\ at' = [at EXCEPT ![c] = "done"]
    /\ managed' = FALSE
    /\ owed' = {}
    /\ UNCHANGED signal

RemoveUnknown(c) ==
    /\ at[c] = "checked"
    /\ Executes(c, "remove")
    /\ ~managed
    /\ Leave(c, 4)
    /\ UNCHANGED <<managed, signal>>

CallRemove(c) ==
    \/ Coordinator!Reset /\ RemoveCalled(c)
    \/ RemoveUnknown(c) /\ UNCHANGED coordinatorVars

(***************************************************************************)
(* The stop command drops its own exit code.                               *)
(***************************************************************************)
Code(c, s) == IF Executes(c, "start") /\ s = "Crashed" THEN 5 ELSE 0

Handle(c) ==
    /\ at[c] = "waiting"
    /\ signal[c] # None
    /\ Leave(c, Code(c, signal[c]))
    /\ Unheard(c)
    /\ UNCHANGED <<coordinatorVars, managed>>

------------------------------------------------------------------------------
(* The daemon. *)

(***************************************************************************)
(* Every change of state is reported to those who follow it.               *)
(***************************************************************************)
Reported ==
    /\ managed
    /\ Emit(state')
    /\ UNCHANGED <<managed, clientVars, owed>>

Register == Coordinator!Register /\ Reported

Expire == Coordinator!Expire /\ Reported

GameServerEnds == Coordinator!End /\ Reported

Add ==
    /\ ~managed
    /\ managed' = TRUE
    /\ UNCHANGED <<coordinatorVars, clientVars, signal, owed>>

Next ==
    \/ \E c \in Clients :
          \/ \E script \in Scripts : Invoke(c, script)
          \/ Check(c) \/ Decline(c) \/ Subscribe(c)
          \/ CallStart(c) \/ CallStop(c) \/ CallRemove(c) \/ Handle(c)
    \/ Register \/ Expire \/ GameServerEnds \/ Add

Spec == Init /\ [][Next]_vars

(***************************************************************************)
(* A process that has subscribed goes on to its call and handles its       *)
(* signals; a deadline passes (the contract's own fairness).  Nobody has to*)
(* answer a question, and no game server has to register or to end.        *)
(***************************************************************************)
Fairness ==
    /\ \A c \in Clients : WF_vars(CallStart(c) \/ CallStop(c)) /\ WF_vars(Handle(c))
    /\ WF_vars(Expire)

FairSpec == Spec /\ Fairness

------------------------------------------------------------------------------
(* Properties. *)

(***************************************************************************)
(* A process that waits for its start to be decided has the decision on its*)
(* way, or a deadline still stands: no interleaving with a stop, with other*)
(* starts or with the game server's own signals makes it miss the decision.*)
(***************************************************************************)
StartIsAnswered ==
    \A c \in owed :
        Executes(c, "start") => deadline \/ signal[c] # None

(***************************************************************************)
(* A process whose stop was accepted misses no end of the server: while it *)
(* waits the server is up, or the signal of its end is on its way.         *)
(***************************************************************************)
StopIsAnswered ==
    \A c \in owed :
        Executes(c, "stop") => state \notin Down \/ signal[c] # None

(***************************************************************************)
(* "morgothctl start" comes back, unless the server is removed meanwhile.  *)
(***************************************************************************)
StartReturns ==
    \A c \in Clients : c \in owed /\ Executes(c, "start") ~> c \notin owed
==============================================================================
