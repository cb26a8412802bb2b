# Morgoth in TLA+

A verification development of morgoth, a daemon that manages Source game
servers: specifications of its components, model-checked with TLC on small
instances, with theorems about them checked by TLAPS for every instance.
Paths such as `servercoordinator.cpp` are those of the daemon's source
directory `src/`; `morgothctl/` is below it.

## 1. The system

`morgothd` is a Qt program with one thread. D-Bus calls, D-Bus signals, timers
and posted deletions are events; each handler runs to its end, but the order of
the events is anybody's. Every tmux command is a child process for which the
handler waits for at most one second, without an event loop.

| Component | State | Operations | Talks to |
|---|---|---|---|
| TmuxSessionWrapper, UserProcess | session name, user; whether the session exists only tmux knows | create, redirectOutput, sendKeys, kill, exists, setUser; destructor kills | the tmux server of one account |
| ServerStarter | 30 s timer, connections to its server's signals | start, timeout, handle a registration; deleted later | tmux wrapper, Server, ServerCoordinator |
| ServerCoordinator | state, error | start, stop, game server started / stopped / timed out, starter failed | clients (D-Bus), starter, tmux, ServerStatus (`stateChanged`) |
| ServerManager | list of servers, map interface -> server, 5 s timer, ping watchers | add, remove, register a game server, goodbye, ping, answer, failure | Server signals, game servers, Persistor |
| Server | name, path, paths on the bus | construction registers it, deletion unregisters it | all of its parts |
| ServerStatus | host name, map, address, passwords, players | track a game server, reset on every `stateChanged`, follow its signals | game server, coordinator |
| ServerConfiguration | key -> value | setValue (with `valueChanged`) | clients, Persistor |
| Persistor | an SQLite database | initialize (restore), store, delete, store an entry | ServerManager, ServerConfiguration |
| morgothctl | one process per command | start, stop, restart, remove; add, list, status, config, console | the daemon over D-Bus |
| MorgothDaemon | D-Bus connection, configuration, socket pair for signals | construction, SIGTERM, SIGHUP, quit | everything |
| PluginManager | plugins found, plugins loaded | load, unload | Persistor |
| SteamId, PlayerInfo, ServerError | values | conversions | ServerStatus, clients |

The game server (srcds with the connector plugin) is a process of its own. It
connects to the manager's private D-Bus server, announces where it is installed,
answers pings, emits signals, and says `aboutToQuit` if it gets the chance.

### What is hard, and what makes each part correct

* **Coordinator and starters.** A start has many ends (six failures, a
  registration, a timeout, another start, a stop), and its objects outlive it:
  starters stay connected until their deletion is delivered, interfaces until
  theirs. What must hold: the state shown is one that some event ahead will
  correct; the session is never lost or reused; the launched server runs as
  configured.
* **Manager.** The map and the ping watchers hold bare pointers to objects that
  are deleted by later events and whose addresses are used again. What must hold: the list
  and the map contain live objects, a game server speaks for its own
  installation, a lost connection is found.
* **Status.** Two streams, the game server's signals and the coordinator's
  changes of state, meet in one object. What must hold: no player who has left
  is shown, no value stays that is not current.
* **Persistor.** A database that is written statement by statement, by a process
  that may end between two of them and looks at no result of a transaction. What must
  hold: a restart brings back what there was.
* **The process.** It ends in order or not, and its sessions belong to tmux and
  outlive it. Signals pass through a socket pair that holds so many. What must
  hold: destructors leave nothing behind, a session is never used by a second
  server, each signal takes effect.
* **Plugins.** Whether a plugin is enabled is in the database, whether it is loaded is
  in memory, and both can refuse. What must hold: a restart loads what was
  enabled.
* **SteamId.** One number, three texts, and fields narrower than the numbers put
  into them. What must hold: what is printed is read back.
* **morgothctl.** Finding the server, reading its state once or twice, subscribing,
  calling and waiting are steps of their own, with other clients in between. What must hold: who waits is answered.

`PROJECT.json` lists the hazards of the code at their lines, with the properties
that watch them.

## 2. The modules

| Module | Models | Role |
|---|---|---|
| `TmuxSession` | TmuxSessionWrapper, UserProcess | operators: the possible outcomes of each tmux operation |
| `ServerCoordinator` | ServerCoordinator, ServerStarter, the session, the interfaces of its game servers | state machine over `TmuxSession` |
| `ServerLifecycle` | what clients are promised of a coordinator | abstract state machine |
| `Supervision` | the coordinator in a process that is told to end, dies and is started again | extends `ServerCoordinator` |
| `Controlled` | the coordinator together with the morgothctl processes that call it | composes `ServerCoordinator` with `Morgothctl` |
| `ServerManager` | ServerManager, the lifetime of Server and GameServer objects | state machine |
| `ServerStatus` | ServerStatus against game server and coordinator | composes with `ServerLifecycle` |
| `Persistor` | Persistor, ServerConfiguration, the start and end of the process | state machine |
| `DurableServers` | what the persistor promises | abstract state machine |
| `PluginManager` | PluginManager | operators: the possible outcomes of each operation |
| `MorgothDaemon` | MorgothDaemon, main(), the plugins table | state machine over `PluginManager` |
| `SteamId` | SteamId | operators, and an object over its constructors |
| `Morgothctl` | the start, stop, restart and remove commands | composes with `ServerLifecycle` |
| `ServerCoordinatorProofs`, `CompositionProofs` (`Supervision` and `Controlled`), `ServerManagerProofs`, `ServerStatusProofs`, `PersistorProofs`, `MorgothDaemonProofs`, `SteamIdProofs`, `MorgothctlProofs` | | theorems |
| `MC*` | | definitions TLC needs: symmetry sets, a state constraint |

`ServerLifecycle` is the joint of the composition. `ServerCoordinator` is shown
to implement it (`KeepsContract`), and `ServerStatus` and `Morgothctl` take it in
place of the coordinator: what they are shown to do holds with any coordinator
that keeps the contract. `Controlled` puts the coordinator back in that place, and
the step from the one to the other is a theorem. Its three variables are the state, whether some starter's
timer runs (`deadline`) and whether an interface is both pinged and
subscribed to (`attended`).

Operators whose comment begins "Mutated form" are not part of a specification.
Each is a plausible mistake in the definition that follows it; TLC finds the
property that `PROJECT.json` names beside it violated once the mistake is made.

### ServerCoordinator

One action per handler. `Start(st, wanted)` is `ServerStarter::start()` from
`setUser` to the armed timer, with every failing exit; `Stop`, `GameServerOnline`,
`AboutToQuit`, `GameServerTimedOut` and `StartTimeout` are the handlers of those
names; `StarterDeleted` and `IfaceDeleted` are deliveries of `deleteLater()`;
`Destroy` is the destruction of the coordinator, after which the variables stand for the
coordinator of the next server. `Remove` is that within a removal: the interfaces are
the manager's and stay in its map under the address of the deleted server, so they
mean nothing to the next one or, where the address is used again, are taken for its own.
`waiting` and `leaving` are the starters whose timer
runs and those that have finished but still listen. An interface goes from
nothing to `monitored` (in the manager's map) to `closing` (deletion posted);
`subscribed` says whose goodbye the coordinator handles. The environment's steps
are `ProcessExits`, `SessionEnds` (somebody attached to it leaves the shell) and
`ConnectionDrops`.

A variable that no code has, `srcds`, says whether a launched server still runs:
it is what the properties compare the code's belief with. The initial
`Starting` that every start emits is part of its action; a start that fails
shows its listeners Starting and Crashed in a row.

Assumptions about tmux: an answered command says the truth; one that fails or
overruns (`TmuxFaults`) has taken effect by the end of the handler or not at all;
`has-session` that overruns reads as "exists", as `exitStatus()` and `exitCode()`
of a running process do; killing a session ends its processes; names of sessions
are unique; the daemon may change its user. InvalidInstallation and
InvalidConfiguration are unreachable from `start()`: a coordinator is created
only for a valid server and after its configuration. `start()` always returns
true, whatever its comment says of failures; only `Morgothctl` depends on it.

### Supervision

`Work` is any step of `ServerCoordinator`; around it are `SigTerm`, the orderly
end (`Quit`: `stopSync()` is empty, so the session is killed by the wrapper's
destructor, without a quit), a death without destructors (`Crash`, and
`SigTermAgain` where the uninitialised `sa_flags` hold SA_RESETHAND) and
`Boot`. A session that outlives its process is outside the variables from then
on: the next coordinator has a new name and does not look for it. The history
variable `obeyed` says that every tmux command so far has done what it was told:
it compares each step with that of the same module with `TmuxFaults` false
(`Obedient`), so that properties about an obedient tmux are checked in the
same run as those that hold with any tmux.

### Controlled

`Morgothctl` has each call in two halves: what it does to the process
(`StartCalled`, `StopCalled`, `RemoveCalled`, `Reported`) and what the contract lets it do to
the coordinator. `Controlled` joins the first halves to the handlers of
`ServerCoordinator`; the contract's `deadline` is a starter whose timer runs, its `attended` an
interface both monitored and subscribed to. The coordinator's other steps are the
process's silence. A server that is not managed has no coordinator to call: the
starts and stops of `StartUnknown` and `StopIgnored` reach none.

### ServerManager

An element of `Servers` or `Ifaces` is an address. `object` and `iface` say what
is there now, so a watcher (`pings`) or an entry of the map (`gameServers`)
may hold an address where nothing is, or where something else is now. A failed
ping whose map lookup gives null or a deleted server is `PingFailsBadly`: the
daemon dies, and `Restart` is systemd's `Restart=always`. An interface that has said
goodbye is `parted`, one whose ping failed is `condemned`; both are out of the map and wait
for their deletion. A goodbye that was queued when the ping failed is `AboutToQuitLate`:
where assertions are compiled in, the daemon dies there too, and where they are not nothing
changes. The coordinator's side
of a failed ping (`gameServerTimedOut`) is in `ServerCoordinator`.

### ServerStatus

`Registered` is a registration that a starter waits for: `trackGameServer()` runs
first, the change to Running and its reset after it, in one handler.
`RegisteredUnasked` has no reset. One game server is connected at a time; the
overlap of an old interface and a new one is `ServerCoordinator`'s. All other changes of state come from the
contract. `queue` holds the game server's signals in the order they were sent;
`actual` and `onServer` are the truth they report. Ids are reused: the name
and steam id of a player who joins are asked for when the signal is handled, so the list
may show somebody else, or nobody, under the id (`People`). `Watched` stands for the map
and the watched console variables; one of them must parse as a number.
`erase(end())` is undefined behaviour: `corrupt` records it, the model goes on with
the list as it is, and the invariants about the list speak of the time before.

### Persistor

`rows` is the servers table as the process reads it, name by name, since no statement
touches two names (but the whole restore). A row holds the last value its entries give
a key: entries are only appended, because the SQLite driver does not report
`size()`, and a restore applies them in order.

`storeServer()` ignores the results of `transaction()` and `commit()`. A COMMIT that
fails leaves SQLite's transaction open (`LeaveOpen`). From then on a BEGIN fails unnoticed, and every
statement that succeeds is part of the open transaction: the process reads it in `rows`, the
database has it in `committed` only after some COMMIT succeeds. `unsaved` holds the names
written there. A rollback, by a later `storeServer()` or by SQLite itself when a
statement fails, and the end of the process take all of them back (`Rollback`): what of another
name had succeeded is lost, and a removed row may be there again.

`doubtful` collects the names whose rows need not agree with the memory, and only these: a
statement about them failed, a rollback took back what was written of them, they were
added before `initialize()`, or a removed server of the same name still wrote to
their row. `Initialize` is the whole restore; when a name cannot
be added it dereferences a null pointer (`InitializeCrashes`). Left out: statements that
only read fail, the path of a server, empty values. An end between the two deletions of a removal
(`RemoveInterrupted`) is an action of its own where no transaction is open; where one is, it takes
everything back, as `Die` does. The plugins table and a database that does not
open are in `MorgothDaemon`.

`DurableServers` is what this comes to: a table in memory, a table that is stored, and
`doubtful`. A change is a change of both (`Change`), a restart copies one to the other
(`Restore`), and the only other thing that may happen to a name that is not
doubtful is to be reset by an end within its own removal (`Interrupted`). In
`Persistor` the memory of that machine is what the columns can hold of the
configurations, its stored table what a restart would make of the committed rows, and its
doubtful names are those above and the unsaved ones.

### PluginManager and MorgothDaemon

An operation of `PluginManager` is the set of its outcomes. A name stands for
the first file found that has it; at each start the directory may hold another.
`MorgothDaemon` has the process, its two signals, and what they change.
`signalHandler` interrupts the one thread and writes to a blocking socket:
when it is full the process is `blocked`, for its reader is below it on the stack.
`handleSignal` reads one number for each turn of the event loop. `readConfig`
inserts the keys of the file and removes none. Two keys stand for all: the
database, which is opened once, and the user, which is read at each start of a
server. `promised` and `doubtful` are histories: what was last announced of a plugin while its
database was open, and whether its last statement failed or was rolled back. Plugins and
servers are in one database, so the transaction that an added server leaves open
(`storeServer`, `open`) holds what is stored of plugins meanwhile: `table` is what the
process reads, `rows` what the database keeps. Signals that come while
`main()` has not yet reached the event loop, or after it left, are not modelled, nor are
the bus, the log and the command line.

### SteamId

A text is the record of the numbers its pattern captures. The widths of the
fields are constants: the run takes small ones, the theorems all of them. `ToUInt`,
`Promoted` and the cut to a field's width (`Combine`) are the places where a number
does not fit. Only the printing of the upper half of the accounts as `[U:...]`
overflows an int; wrapping is what the machine does with it.

### Morgothctl

A process has a script (`restart` is stop, then start) and a place in it:
`begun`, `found`, `reading`, `checked`, `subscribed`, `waiting`. `start` and `stop` read
the state over D-Bus up to twice, once to ask whether it is Offline (`FirstRead`) and once
whether it is Crashed (`SecondRead`); it may change in between. Calls and signals on one connection
keep their order; of the signals on their way to a process the model keeps the
first that ends its wait, because the others are only printed. `owed` is the
set of processes whose accepted `start()` or `stop()` awaits its answer. A
command line names one server; the exit code that `stop` drops is dropped.

## 3. The runs

| Run | Instance | Shows |
|---|---|---|
| `coordinator` | 3 users (the daemon's, another, one that does not resolve), 2 starters, 2 interfaces, tmux obeys | type invariant (as in every run but `supervision`); `StartingHasDeadline`, `RunningIsAttended`, `ShutdownIsWatched`, `RemovalLeavesNothing`; action property `LaunchesAsConfigured`; liveness `StartIsDecided`, `LostServerIsNoticed`; refinement `KeepsContract` |
| `supervision` | the same, tmux may fail or overrun, the process ends, dies and is started again | `SessionIsReachable` and `LaunchesIntoNewSession` with any tmux; `OrderlyEndIsClean`, `OfflineIsOffline`, `RunningWasToldToQuit` as long as tmux obeyed |
| `manager` | 2 servers, 2 interfaces, 2 names, 2 paths, 1 unanswered ping per interface | `UniqueNames`, `ListedIsAlive`, `RegistryIsAlive`, `MatchedByPath`, `ExportedIsAlive`; liveness `DroppedIsForgotten` |
| `status` | 2 ids, 2 people, the number, 3 values (one does not parse), 3 undelivered signals | `CountIsLength`, `NoGhostPlayers`, `ShownIsCurrent` |
| `persistor` | 2 names, a key with a default, 3 values, 2 rows of a name | `RestartKeepsServers`, `OneRowPerServer`; refinement `KeepsStore` |
| `daemon` | 1 plugin, 2 databases, 2 signals in the socket pair | action property `RestartKeepsPlugins`; liveness `TermEnds`, `ReloadTakesEffect` |
| `steamid` | 3-bit accounts, 1-bit instances and types, 8 universes, digits to 3 | `CanonicalIsParsed`, `PrintedIsParsed` |
| `morgothctl` | 2 processes, 1 server | `StartIsAnswered`, `StopIsAnswered`; liveness `StartReturns` |

`controlled.cfg` (with `MCControlled`: 2 processes, 2 starters, 1 interface; 911,233
states) checks `NoStartIsForgotten`, `NoStopIsForgotten` and the refinement
`ServesCommands` of `Controlled`. It is not listed as a run, because it asks nothing that
`morgothctl` and `coordinator` do not ask of the two halves: that the halves fit is what
`CommandsServed` proves, and the configuration is there to see it on an instance.

**Bounds.** Two starters and two interfaces give every overlap of an old and a
new one; a third would only repeat the second's part, since handlers treat them
alike. Two servers over two addresses let an address be reused while an entry
still points to it and another server is listed. One ping per interface is
enough for a ping to outlive its interface; three undelivered signals let a player
leave, another join under the same id and leave again before the first is
handled. Two rows of a name are one too many; two names let one be
written in the transaction that the other left open. Plugins are independent of each
other, so one is enough; two databases make a reload that renames the one in use;
a socket pair of two holds a SIGTERM behind a SIGHUP and can be full. The
small widths of `steamid` keep the proportions that matter: the digits
name fewer universes than the field holds, accounts have an upper half.
`MaxPings`, `MaxQueue` and `MaxRows` are the only bounds in guards, each named in
its module; `Explored` in `MCServerStatus` cuts the list of a server that is never
reset at one player more than there are ids, and does not follow undefined behaviour.
`morgothctl` was also run with three processes (475,739 states), without
a new outcome. Symmetry is used where no liveness is checked.

**Fairness.** An armed timer fires (`StartTimeout`, `Expire`). The 5 s timer
pings every interface the manager knows; a call is answered or fails within the
D-Bus timeout, and on a dropped connection all but finitely many answers are failures,
hence strong fairness of `PingFails` for a dropped interface. The init system
restarts a dead daemon. A morgothctl process that has subscribed goes on to its call
and handles its signals. The event loop turns: the notifier of a readable socket is
activated (`handleSignal`), and a loop that was told to quit ends (`Shutdown`). No fairness is assumed of users, of game servers, of
tmux or of other clients.

### Where the code and what is said of it differ

Four runs end in a counterexample, each against a sentence of the repository:

* `reports_are_owned`: `Q_ASSERT(gameServers.contains(iface))` (servermanager.cpp:91).
  A goodbye forgets the interface while a ping of it is outstanding; when that ping fails, its handler
  follows the null pointer that the map returns (servermanager.cpp:119). The other order, a
  failed ping and then a goodbye that was queued before, fails the assertion itself.
* `running_shows_details`: the maximum of players (serverstatus.h:46) of a server
  the coordinator started is fetched, and then reset by the change to Running.
* `leaving_players_are_listed`: the list of players (serverstatus.h:78) starts empty when a
  game server registers, since `trackGameServer()` does not ask who is on it already. A
  player who was there and leaves erases `end()`, and the count becomes -1.
* `changes_are_stored`: the Persistor stores all servers and configurations (persistor.h:29).
  The COMMIT of one server fails and leaves its transaction open; the change of another, every
  statement of which succeeds, is in that transaction and not in the database.

Two configurations beside these show a case alone. `goodbyes_are_owned.cfg`
(`GoodbyesAreOwned`) is the second order of `reports_are_owned`, of which TLC reports one or the
other. `configuration_is_kept.cfg` (`ConfigurationIsKept`) is what the sentence of persistor.h
meets without any failure: the columns are declared `string`, which SQLite gives numeric affinity,
and `1.50` comes back as `1.5`; `OnlyNumeralsAreLost` says how far that goes.

## 4. The proofs

The theorems hold for every value of the constants that satisfies the named
assumptions (`TmuxAssumption`, `ClientAssumption`, `ManagerAssumption`,
`StatusAssumption`, `PersistorAssumption`, `DaemonAssumption`, `SteamIdAssumption`); no
finiteness is assumed.

`ServerCoordinatorProofs`. The inductive invariant `IInv` is the type invariant
with `SessionIsReachable`, the three conjuncts that say a claimed state is
attended to, `OfflineIsClean` and `RemovalLeavesNothing`, and two facts they are
not inductive without: a launched srcds lives in the session (`SrcdsHasSession`:
else a kill that finds no session would leave one), and an interface is
not both pinged and given up, while a subscription lives no longer than its interface
(`IfaceLife`: else a deletion could end the attention a Running server
needs). Lemmas say what `Kill`, `Create` and `SetUser` can
return (`KillOutcome`, `CreateOutcome`, `SetUserOutcome`), and the step of a
start has a lemma of its own. From the invariant follow, as theorems of `Spec`:
`TypeCorrect`, `SessionReachable`, `StartingDeadline`, `RunningAttended`,
`ShutdownWatched`, `OfflineClean`, `RemovalClean`; the action properties
`LaunchNewSession` and `LaunchAsConfigured`; and `ImplementsLifecycle`, that every
behaviour is one of `ServerLifecycle!Spec` under the refinement mapping.

`CompositionProofs`, on `Supervision`. The process around it keeps `IInv`, because every end
restores what `Init` says of the variables but the history. `Obeyed` joins the
three promises that hold while tmux obeys; a step by which `obeyed` stays true is one of
`Obedient!Next` (`ObedientStep`), where a kill leaves no session and typed keys arrive. `SupervisedImplements` says that
through all of it the coordinator is what `ServerLifecycle` promises: the end of a
process is a `Reset` there.

`CompositionProofs`, on `Controlled`. Whatever the processes do, the coordinator takes
one of its own steps or none (`ControlledStep`), so `IInv` holds here too; with it,
every joint step is one of `Morgothctl!Next` or leaves all that Morgothctl speaks of as it
is (`CallServed`, `ReportServed`, `SilenceServed`). That is `CommandsServed`, the
refinement of the composition. `NoStartForgotten` and `NoStopForgotten` then are
`MorgothctlProofs`' own theorems, instantiated with the coordinator in the
contract's place (`Proved`). Their assumption is `ClientAssumption`, that the
constant for "no signal" is not a state.

`ServerManagerProofs`. To the checked invariants `MInv` adds `DoomedIsAlive`: a
server whose deletion is posted is still there. Without it the address of a
deleted server could be taken by a new one, and a deletion still posted would take that one
from the list. Each lemma of a step says which addresses it frees or takes.

`ServerStatusProofs`. What is shown now depends on what is still on its way, so
`SInv` speaks of the queue: the last value in it of an item is the one it has
(`QueueEndsCurrent`), between two joinings under one id there is a leaving
(`JoinsAlternate`), nobody has an id whose last joining was followed by a
leaving (`GoneHasLeft`), and an id that is shown is not given to another before
its leaving (`ShownLeavesFirst`: else the list could hold an id twice). That the coordinator of
this module keeps to its contract is no theorem: its steps are the contract's own actions.

`PersistorProofs`. The memory agrees with what the process reads (`RowsAgree`), and what it
reads is committed but for the names written in the transaction left open (`Settled`), which
exists only while the daemon serves (`OpenWhileUp`): the three make `RestartKeepsServers`.
`RowsAreColumns` says that the table holds only what a column
leaves unchanged, so that a restored configuration is stored as itself; `ManagedIsFollowed`
that every managed server whose changes are not stored is in `doubtful`. `OneName`
reduces a handler to the name it touches, `EndStep` does the same for
the ways in which a process ends. `StoreKept` is the refinement of `DurableServers`, action by
action; it needs that before `initialize()` nothing is followed and whatever was added is
doubtful (`NotYetFollowed`), and that `Restored` and `Stored` undo nothing of each other on
what columns hold (`RestoredDefaults`, `StoredOfColumns`, `EntryAgrees`).
`StorePromises` reads `RestartKeepsServers` off the abstract machine alone.
`OnlyNumeralsAreLost` bounds the finding about the columns: where no value spells a number,
`ConfigurationIsKept` holds, that is, for the names no statement failed for and no open transaction
holds.

`MorgothDaemonProofs`. The table of every database, in use or not, holds what was
announced but for the names whose statement failed or was rolled back (`TableKeepsPromises`, which
speaks of what the process reads of the database it has open). Without an open
transaction what is read is what is kept (`Settled`); what `initialize()` loads follows.

`SteamIdProofs`. `StructOfNumber` is the arithmetic of the bit-fields, for all
widths, the real ones of 31, 20, 4 and 8 bits included, and `NumberOfStruct` its inverse: ids
are equal exactly when the numbers are that `operator==` compares. `CanonicalParsed` and
`PrintedParsed` follow from one lemma per text; `TextTellsApart` is their consequence for two
accounts, and `UpperHalfIsLost` says that the condition in `PrintedIsParsed` is exact: no
account beyond it survives its Id3.

`MorgothctlProofs`. `IInv` adds to the type invariant that a process that is owed
an answer waits in its start or stop (`OwedWait`). A signal that ends
a wait is emitted by the same step that takes away the deadline or the state it stood for
(`EmitStep`, `CoordinatorStep`); hence `StartAnswered` and `StopAnswered`.
`ContractPromises` says what a process may rely on: a server that is not down has an
event ahead that ends it. (That the coordinator here is one of the contract's holds by
construction and is no theorem.) The proof is over the contract; `CompositionProofs` carries it
to the coordinator itself.

Model-checked only: liveness (`StartIsDecided`, `LostServerIsNoticed`,
`DroppedIsForgotten`, `StartReturns`, `TermEnds`, `ReloadTakesEffect`) and the
fairness half of `KeepsContract`, which are out of the prover's reach.

## 5. Not modelled

* `morgothctl` add, list, status, config and console: one call and its output each.
  Their effects on the daemon are inputs of the modules (`Add`, `SetValue`).
* The loop of a morgothctl command over several servers, and the exit code `stop` drops.
* `sendCommand()`: changes no state of the daemon.
* PlayerInfo's and ServerError's marshalling, the D-Bus interface files: data.
* What tmux does with a session whose daemon died: it lives on, and nothing in
  the code finds it again.
* `Server::discover()`: looks at the file system once, and decides only whether there are
  a coordinator and a status.

## 6. Plan

1. Done: tmux, coordinator, contract, supervision, manager, status, persistor and its
   abstract store, plugins, daemon, SteamId, clients, clients over the coordinator; the
   proofs above.
2. `ServerManager` composed with a coordinator of each server: that a failed ping
   reaches the coordinator of the right server, through `gameServers` and the reuse of
   addresses. The two modules have this at their border now (`MatchedByPath` on one
   side, `dropped` and the interfaces that `Remove` leaves on the other).
3. The loop of morgothctl over several servers.
4. With it, a proof that the composition implements one `ServerLifecycle` per server.
5. `ServerStatus` over `ServerCoordinator`, as `Controlled` is.
