-------------------------- MODULE ServerCoordinator --------------------------
(***************************************************************************)
(* The coordinator of one game server: ServerCoordinator, the ServerStarter*)
(* objects it creates and its tmux session.                                *)
(*                                                                         *)
(* All handlers run on one thread, each to its end, so an action is one    *)
(* handler: a D-Bus call (Start, Stop), a signal of the game server's      *)
(* interface, a timer, or a deletion posted by deleteLater().  The order   *)
(* in which the event loop delivers them is left open.  The environment    *)
(* owns the processes: srcds exits, connections drop, and the session ends *)
(* when somebody leaves its shell.                                         *)
(***************************************************************************)
EXTENDS TmuxSession

CONSTANTS
    Starters,       \* ServerStarter objects that exist at the same time
    GameServers     \* GameServer interfaces that exist at the same time

VARIABLES
    state,          \* ServerCoordinator::State
    error,          \* the last ServerError
    user,           \* the user of the tmux wrapper
    session,        \* the tmux session: NoSession or the account it runs under
    srcds,          \* srcds_run was launched in the session and still runs
    quitTyped,      \* the last "quit" of stop() reached the session
    waiting,        \* starters whose 30 s timer runs
    leaving,        \* starters that have finished; deletion posted, still connected
    monitored,      \* interfaces the server manager pings on behalf of this server
    closing,        \* interfaces whose deletion is posted
    subscribed,     \* interfaces whose aboutToQuit the coordinator handles
    dropped,        \* interfaces whose D-Bus connection is gone
    orphaned        \* a coordinator was destroyed and its session survived

tmuxVars    == <<user, session, srcds>>
starterVars == <<waiting, leaving>>
ifaceVars   == <<monitored, closing, subscribed, dropped>>
vars == <<state, error, tmuxVars, quitTyped, starterVars, ifaceVars, orphaned>>

States == {"Offline", "Starting", "Running", "ShuttingDown", "Crashed"}
Active == {"Starting", "Running", "ShuttingDown"}

Errors == {"NoError", "UnableToCreateTmuxSession", "UnableToResolveUser",
           "UnableToRedirectTmuxOutput", "ServerExecutableFailed",
           "ServerNotRegisteredOnTime"}

TypeOK ==
    /\ state \in States
    /\ error \in Errors
    /\ user \in Users
    /\ session \in Sessions
    /\ srcds \in BOOLEAN
    /\ quitTyped \in BOOLEAN
    /\ waiting \subseteq Starters
    /\ leaving \subseteq Starters
    /\ monitored \subseteq GameServers
    /\ closing \subseteq GameServers
    /\ subscribed \subseteq GameServers
    /\ dropped \subseteq GameServers
    /\ orphaned \in BOOLEAN

(***************************************************************************)
(* A coordinator as it is created with its server.                         *)
(***************************************************************************)
Init ==
    /\ state = "Offline"
    /\ error = "NoError"
    /\ user = OwnUser
    /\ session = NoSession
    /\ srcds = FALSE
    /\ quitTyped = FALSE
    /\ waiting = {} /\ leaving = {}
    /\ monitored = {} /\ closing = {} /\ subscribed = {} /\ dropped = {}
    /\ orphaned = FALSE

\* Mutated forms: the two assignments crossed, and setState() forgotten.
FailCrossed(reason) ==
    /\ error' = "NoError"
    /\ state' = reason

FailSilently(reason) ==
    /\ error' = reason
    /\ UNCHANGED state

------------------------------------------------------------------------------
(* Steps of the handlers. *)

Fail(reason) ==
    /\ error' = reason
    /\ state' = "Crashed"

(***************************************************************************)
(* tmux.kill() on session "s" of user "u"; "running" tells whether srcds   *)
(* is in it.  The processes of a killed session go with it.                *)
(***************************************************************************)
KillSession(s, u, running) ==
    \E k \in Kill(s, u) :
        /\ session' = k.session
        /\ srcds' = (running /\ k.session # NoSession)

(***************************************************************************)
(* The manager forgets the interface and posts its deletion.               *)
(***************************************************************************)
Forget(g) ==
    /\ monitored' = monitored \ {g}
    /\ closing' = closing \cup {g}

------------------------------------------------------------------------------
(* start(): a new starter runs ServerStarter::start() to one of its ends.  *)
(* A starter that fails before its last line is connected to nothing, and  *)
(* its deletion has no effect to model.  The branches InvalidInstallation  *)
(* and InvalidConfiguration are unreachable: a Server creates its          *)
(* configuration before its coordinator, and the latter only when valid.   *)

(***************************************************************************)
(* The end of start(), once the session is created as "s": redirect the    *)
(* output, type the launch command, then wait for the game server.         *)
(***************************************************************************)
Launch(st, s, u) ==
    \/ /\ FALSE \in RedirectOutput(s, u)
       /\ Fail("UnableToRedirectTmuxOutput")
       /\ KillSession(s, u, FALSE)
       /\ UNCHANGED waiting
    \/ /\ TRUE \in RedirectOutput(s, u)
       /\ \E k \in SendKeys(s, u) :
            \/ /\ ~k.ok
               /\ Fail("ServerExecutableFailed")
               /\ KillSession(s, u, k.typed)
               /\ UNCHANGED waiting
            \/ /\ k.ok
               /\ state' = "Starting"
               /\ session' = s
               /\ srcds' = TRUE
               /\ waiting' = waiting \cup {st}
               /\ UNCHANGED error

Start(st, wanted) ==
    /\ st \notin waiting \cup leaving
    /\ \E u \in SetUser(session, user, wanted) :
         /\ user' = u
         /\ \E c \in Create(session, u) :
              \/ /\ ~c.ok
                 /\ Fail("UnableToCreateTmuxSession")
                 /\ session' = c.session
                 /\ UNCHANGED <<srcds, waiting>>
              \/ /\ c.ok
                 /\ wanted \in Unresolvable
                 /\ Fail("UnableToResolveUser")
                 /\ session' = c.session
                 /\ UNCHANGED <<srcds, waiting>>
              \/ /\ c.ok
                 /\ wanted \notin Unresolvable
                 /\ Launch(st, c.session, u)
    /\ UNCHANGED <<quitTyped, leaving, ifaceVars, orphaned>>

\* Mutated forms: quit is typed only when Running; quit is typed in every state.
StopRunningOnly ==
    /\ state \in {"Running", "Starting"}
    /\ state' = "ShuttingDown"
    /\ IF state = "Running"
       THEN \E k \in SendKeys(session, user) : quitTyped' = k.typed
       ELSE UNCHANGED quitTyped
    /\ UNCHANGED <<error, tmuxVars, starterVars, ifaceVars, orphaned>>

StopUnguarded ==
    /\ state' = "ShuttingDown"
    /\ \E k \in SendKeys(session, user) : quitTyped' = k.typed
    /\ UNCHANGED <<error, tmuxVars, starterVars, ifaceVars, orphaned>>

(***************************************************************************)
(* stop(): ignored in the other states.  The result of sendKeys is not     *)
(* looked at.                                                              *)
(***************************************************************************)
Stop ==
    /\ state \in {"Running", "Starting"}
    /\ state' = "ShuttingDown"
    /\ \E k \in SendKeys(session, user) : quitTyped' = k.typed
    /\ UNCHANGED <<error, tmuxVars, starterVars, ifaceVars, orphaned>>

------------------------------------------------------------------------------
(* Signals of the game server, as the manager passes them on. *)

\* Mutated forms: nobody subscribes to aboutToQuit; the timers keep running.
GameServerOnlineUnheard(g) ==
    /\ g \notin monitored \cup closing
    /\ waiting \cup leaving # {}
    /\ state' = "Running"
    /\ waiting' = {}
    /\ leaving' = leaving \cup waiting
    /\ monitored' = monitored \cup {g}
    /\ UNCHANGED <<error, tmuxVars, quitTyped, closing, subscribed, dropped, orphaned>>

GameServerOnlineTimed(g) ==
    /\ g \notin monitored \cup closing
    /\ waiting \cup leaving # {}
    /\ subscribed' = subscribed \cup {g}
    /\ state' = "Running"
    /\ monitored' = monitored \cup {g}
    /\ UNCHANGED <<error, tmuxVars, quitTyped, starterVars, closing, dropped, orphaned>>

(***************************************************************************)
(* A game server registers: every starter that is still connected stops    *)
(* its timer and emits started(); the coordinator subscribes to the        *)
(* interface and is Running, whatever it was before.                       *)
(***************************************************************************)
GameServerOnline(g) ==
    /\ g \notin monitored \cup closing
    /\ waiting \cup leaving # {}
    /\ subscribed' = subscribed \cup {g}
    /\ state' = "Running"
    /\ waiting' = {}
    /\ leaving' = leaving \cup waiting
    /\ monitored' = monitored \cup {g}
    /\ UNCHANGED <<error, tmuxVars, quitTyped, closing, dropped, orphaned>>

(***************************************************************************)
(* No starter is there to pass the registration on: the manager pings the  *)
(* interface, the coordinator knows nothing of it.                         *)
(***************************************************************************)
UnsolicitedOnline(g) ==
    /\ g \notin monitored \cup closing
    /\ waiting \cup leaving = {}
    /\ monitored' = monitored \cup {g}
    /\ UNCHANGED <<state, error, tmuxVars, quitTyped, starterVars, closing,
                   subscribed, dropped, orphaned>>

\* Mutated form: the coordinator leaves the session to itself.
AboutToQuitNoKill(g) ==
    /\ g \in monitored \cup closing
    /\ Forget(g)
    /\ state' = IF g \in subscribed THEN "Offline" ELSE state
    /\ UNCHANGED <<error, tmuxVars, quitTyped, starterVars, subscribed, dropped,
                   orphaned>>

(***************************************************************************)
(* The game server says goodbye.  The interface may already be on its way  *)
(* out: a signal queued before the deletion is still delivered.            *)
(***************************************************************************)
AboutToQuit(g) ==
    /\ g \in monitored \cup closing
    /\ Forget(g)
    /\ IF g \in subscribed
       THEN /\ state' = "Offline"
            /\ KillSession(session, user, srcds)
       ELSE UNCHANGED <<state, session, srcds>>
    /\ UNCHANGED <<error, user, quitTyped, starterVars, subscribed, dropped,
                   orphaned>>

\* Mutated form: a failed ping matters only while the server runs.
GameServerTimedOutRunning(g) ==
    /\ state = "Running"
    /\ g \in monitored
    /\ Forget(g)
    /\ state' = "Crashed"
    /\ KillSession(session, user, srcds)
    /\ UNCHANGED <<error, user, quitTyped, starterVars, subscribed, dropped,
                   orphaned>>

(***************************************************************************)
(* A ping of the interface fails with a connection error.                  *)
(***************************************************************************)
GameServerTimedOut(g) ==
    /\ g \in monitored
    /\ Forget(g)
    /\ state' = "Crashed"
    /\ KillSession(session, user, srcds)
    /\ UNCHANGED <<error, user, quitTyped, starterVars, subscribed, dropped,
                   orphaned>>

IfaceDeleted(g) ==
    /\ g \in closing
    /\ closing' = closing \ {g}
    /\ subscribed' = subscribed \ {g}
    /\ dropped' = dropped \ {g}
    /\ UNCHANGED <<state, error, tmuxVars, quitTyped, starterVars, monitored,
                   orphaned>>

\* Mutated form: the timer is not single-shot.
StartTimeoutRepeated(st) ==
    /\ st \in waiting
    /\ Fail("ServerNotRegisteredOnTime")
    /\ UNCHANGED <<tmuxVars, quitTyped, starterVars, ifaceVars, orphaned>>

------------------------------------------------------------------------------
(* Starters after start(), and the end of the coordinator. *)

StartTimeout(st) ==
    /\ st \in waiting
    /\ Fail("ServerNotRegisteredOnTime")
    /\ waiting' = waiting \ {st}
    /\ leaving' = leaving \cup {st}
    /\ UNCHANGED <<tmuxVars, quitTyped, ifaceVars, orphaned>>

StarterDeleted(st) ==
    /\ st \in leaving
    /\ leaving' = leaving \ {st}
    /\ UNCHANGED <<state, error, tmuxVars, quitTyped, waiting, ifaceVars, orphaned>>

\* Mutated form: the wrapper's destructor does not kill.
DestroyNoKill ==
    /\ orphaned' = (orphaned \/ session # NoSession)
    /\ state' = "Offline" /\ error' = "NoError" /\ user' = OwnUser
    /\ session' = NoSession /\ srcds' = FALSE /\ quitTyped' = FALSE
    /\ waiting' = {} /\ leaving' = {} /\ subscribed' = {}

(***************************************************************************)
(* The coordinator is destroyed: the wrapper's destructor kills the session*)
(* and the starters and subscriptions go with the server.  The state then  *)
(* stands for the coordinator of the next server, under a new session name.*)
(***************************************************************************)
Destroy ==
    /\ \E k \in Kill(session, user) :
         orphaned' = (orphaned \/ k.session # NoSession)
    /\ state' = "Offline" /\ error' = "NoError" /\ user' = OwnUser
    /\ session' = NoSession /\ srcds' = FALSE /\ quitTyped' = FALSE
    /\ waiting' = {} /\ leaving' = {} /\ subscribed' = {}

\* The interfaces belong to the manager, which passes nothing on any more.
InterfacesGone == monitored' = {} /\ closing' = {} /\ dropped' = {}

(***************************************************************************)
(* The server is removed.  The manager still keeps its interfaces, under a *)
(* pointer to the server deleted: they mean nothing to the next server, or *)
(* are taken for its own when that one is allocated at the same address.   *)
(***************************************************************************)
Remove ==
    /\ Destroy
    /\ UNCHANGED <<monitored, closing, dropped>> \/ InterfacesGone

------------------------------------------------------------------------------
(* The environment. *)

(***************************************************************************)
(* srcds exits: it obeyed "quit", crashed, or was killed.                  *)
(***************************************************************************)
ProcessExits ==
    /\ srcds
    /\ srcds' = FALSE
    /\ UNCHANGED <<state, error, user, session, quitTyped, starterVars,
                   ifaceVars, orphaned>>

(***************************************************************************)
(* Somebody attached to the session ends it.                               *)
(***************************************************************************)
SessionEnds ==
    /\ session # NoSession
    /\ session' = NoSession
    /\ srcds' = FALSE
    /\ UNCHANGED <<state, error, user, quitTyped, starterVars, ifaceVars, orphaned>>

ConnectionDrops(g) ==
    /\ g \in monitored \ dropped
    /\ dropped' = dropped \cup {g}
    /\ UNCHANGED <<state, error, tmuxVars, quitTyped, starterVars, monitored,
                   closing, subscribed, orphaned>>

Next ==
    \/ \E st \in Starters, wanted \in Users : Start(st, wanted)
    \/ Stop
    \/ \E g \in GameServers :
          \/ GameServerOnline(g)
          \/ UnsolicitedOnline(g)
          \/ AboutToQuit(g)
          \/ GameServerTimedOut(g)
          \/ IfaceDeleted(g)
          \/ ConnectionDrops(g)
    \/ \E st \in Starters : StartTimeout(st) \/ StarterDeleted(st)
    \/ Remove
    \/ ProcessExits
    \/ SessionEnds

Spec == Init /\ [][Next]_vars

(***************************************************************************)
(* What the event loop guarantees: an armed single-shot timer fires, and   *)
(* the manager's 5 s timer keeps pinging every interface it knows, so a    *)
(* dropped connection is answered with an error.                           *)
(***************************************************************************)
Fairness ==
    /\ \A st \in Starters : WF_vars(StartTimeout(st))
    /\ \A g \in GameServers : WF_vars(g \in dropped /\ GameServerTimedOut(g))

FairSpec == Spec /\ Fairness

------------------------------------------------------------------------------
(* Properties. *)

(***************************************************************************)
(* The session, if it exists, is held by the tmux server the wrapper asks: *)
(* setUser() refuses to move while it exists, so kill() and sendKeys()     *)
(* never look for it in the wrong place.                                   *)
(***************************************************************************)
SessionIsReachable == session \in {NoSession, Account(user)}

(***************************************************************************)
(* A coordinator that claims Starting, Running or ShuttingDown has an event*)
(* ahead that will correct the claim: a starter whose timer runs, or an    *)
(* interface that the manager pings and whose goodbye is handled.          *)
(***************************************************************************)
Attended == subscribed \cap monitored # {}

StartingHasDeadline == state = "Starting" => waiting # {}

RunningIsAttended == state = "Running" => Attended

ShutdownIsWatched == state = "ShuttingDown" => waiting # {} \/ Attended

(***************************************************************************)
(* While tmux does what it is told, an Offline server has no session left  *)
(* and removing a server ends its session: nothing survives unnoticed.     *)
(***************************************************************************)
OfflineIsClean == ~TmuxFaults /\ state = "Offline" => session = NoSession

RemovalLeavesNothing == ~TmuxFaults => ~orphaned

(***************************************************************************)
(* A starter begins to wait only when start() created the session anew: the*)
(* launch command is never typed into a session that already had a server, *)
(* however often and in whatever state start() is called.                  *)
(***************************************************************************)
LaunchesIntoNewSession ==
    [][\A st \in Starters :
           st \in waiting' \ waiting =>
               session = NoSession /\ ~srcds /\ session' = Account(user')]_vars

(***************************************************************************)
(* While tmux answers, srcds is launched as the configured user: a start   *)
(* that cannot change the wrapper's user does not launch under the old one.*)
(***************************************************************************)
LaunchesAsConfigured ==
    [][\A st \in Starters, wanted \in Users :
           ~TmuxFaults /\ Start(st, wanted) /\ st \in waiting' => user' = wanted]_vars

(***************************************************************************)
(* A start is decided: no starter waits for ever, and no server stays      *)
(* Starting.                                                               *)
(***************************************************************************)
StartIsDecided ==
    /\ \A st \in Starters : st \in waiting ~> st \notin waiting
    /\ state = "Starting" ~> state # "Starting"

(***************************************************************************)
(* A server whose interfaces have all lost their connection does not stay  *)
(* Running or ShuttingDown: the pings find out.                            *)
(***************************************************************************)
LostServerIsNoticed ==
    (state \in Active /\ monitored \subseteq dropped)
        ~> (state \notin Active \/ ~(monitored \subseteq dropped))

(***************************************************************************)
(* The coordinator keeps the contract its clients rely on.                 *)
(***************************************************************************)
Lifecycle == INSTANCE ServerLifecycle
                 WITH deadline <- waiting # {}, attended <- Attended

KeepsContract == Lifecycle!FairSpec

==============================================================================
