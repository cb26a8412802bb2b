---------------------------- MODULE MorgothDaemon ----------------------------
(***************************************************************************)
(* The daemon's process: its signals, its configuration, and the plugins   *)
(* that the persistor brings back.                                         *)
(*                                                                         *)
(* A signal handler writes the number of the signal into a socket pair; the*)
(* event loop reads one number each time the other end is readable.  The   *)
(* configuration is read when the process starts and at every SIGHUP; the  *)
(* database it names is opened by the zero timer that runs initialize().   *)
(* What a plugin's status changes in it is part of the transaction that an *)
(* added server may have left open there.                                  *)
(* The process may die at any moment and is started again.                 *)
(***************************************************************************)
EXTENDS PluginManager, Sequences, Naturals

CONSTANTS
    Databases,          \* database files
    DefaultDatabase,    \* "morgoth.sqlite"
    NoDatabase,         \* nothing opened
    Accounts,           \* values of the key "user"
    Absent,             \* the key is not there
    Unreadable,         \* QSettings reports an error
    PipeSize            \* signals the socket pair holds before write() blocks

ASSUME DaemonAssumption ==
    /\ DefaultDatabase \in Databases
    /\ NoDatabase \notin Databases
    /\ Absent \notin Databases \cup Accounts
    /\ PipeSize \in Nat \ {0}

VARIABLES
    process,        \* "up", "quitting", "down", or "blocked" in a signal's write()
    pipe,           \* signals written and not yet read
    file,           \* the configuration file
    config,         \* MorgothDaemonPrivate::config
    ready,          \* initialize() has run in this process
    opened,         \* the database of this process
    found,          \* what addPluginsDir() found
    loaded,         \* names whose library is loaded
    open,           \* a transaction was left open
    table,          \* the enabled plugins as this process reads them
    rows,           \* the enabled plugins that every database keeps
    promised,       \* history: the last status announced while connected
    doubtful        \* history: names whose last statement failed or was rolled back

processVars == <<process, pipe>>
configVars  == <<file, config>>
pluginVars  == <<ready, opened, found, loaded>>
storeVars   == <<open, table, rows, promised, doubtful>>
vars == <<processVars, configVars, pluginVars, storeVars>>

Signals == {"SIGHUP", "SIGTERM"}

(***************************************************************************)
(* Two keys stand for all: one that is read once, when the database opens, *)
(* and one that is read at each start of a server.                         *)
(***************************************************************************)
Settings == [database : Databases \cup {Absent}, user : Accounts \cup {Absent}]
ConfigFiles == Settings \cup {Unreadable}
Configs == [database : Databases, user : Accounts \cup {Absent}]

TypeOK ==
    /\ process \in {"up", "quitting", "down", "blocked"}
    /\ pipe \in Seq(Signals) /\ Len(pipe) <= PipeSize
    /\ file \in ConfigFiles
    /\ config \in Configs
    /\ ready \in BOOLEAN
    /\ opened \in Databases \cup {NoDatabase}
    /\ opened # NoDatabase => ready
    /\ found \in Discoveries
    /\ loaded \subseteq Plugins
    /\ open \in BOOLEAN
    /\ open => opened # NoDatabase
    /\ table \subseteq Plugins
    /\ rows \in [Databases -> SUBSET Plugins]
    /\ promised \in [Databases -> SUBSET Plugins]
    /\ doubtful \in [Databases -> SUBSET Plugins]

------------------------------------------------------------------------------
(* The configuration. *)

loadDefaults == [database |-> DefaultDatabase, user |-> Absent]

\* Mutated forms: the file replaces everything; what is known is kept.
MergedWhole(known, settings) == settings

MergedOnce(known, settings) ==
    [key \in DOMAIN known |->
        IF known[key] = Absent THEN settings[key] ELSE known[key]]

(***************************************************************************)
(* Keys are inserted and never removed: one that is gone from the file     *)
(* keeps its value until the next start.                                   *)
(***************************************************************************)
Merged(known, settings) ==
    [key \in DOMAIN known |->
        IF settings[key] = Absent THEN known[key] ELSE settings[key]]

readConfig(known) == IF file = Unreadable THEN known ELSE Merged(known, file)

------------------------------------------------------------------------------
(* The life of the process. *)

\* Handlers run, those of the last turn of a loop that was told to quit too.
Alive == process \in {"up", "quitting"}

Memoryless ==
    /\ pipe' = <<>>
    /\ config' = loadDefaults
    /\ ready' = FALSE
    /\ opened' = NoDatabase
    /\ found' = [name \in Plugins |-> "missing"]
    /\ loaded' = {}

(***************************************************************************)
(* What was left open is gone with the process, or with a rollback.        *)
(***************************************************************************)
Differing(d) == (table \ rows[d]) \cup (rows[d] \ table)

RolledBack ==
    /\ open' = FALSE
    /\ doubtful' = [d \in Databases |-> IF d = opened THEN doubtful[d] \cup Differing(d)
                                                      ELSE doubtful[d]]
    /\ UNCHANGED <<rows, promised>>

Init ==
    /\ process = "down"
    /\ pipe = <<>>
    /\ file \in ConfigFiles
    /\ config = loadDefaults
    /\ ready = FALSE
    /\ opened = NoDatabase
    /\ found = [name \in Plugins |-> "missing"]
    /\ loaded = {}
    /\ open = FALSE
    /\ table = {}
    /\ rows = [d \in Databases |-> {}]
    /\ promised = [d \in Databases |-> {}]
    /\ doubtful = [d \in Databases |-> {}]

(***************************************************************************)
(* main(): the configuration, then the plugins; the event loop starts.     *)
(***************************************************************************)
Boot ==
    /\ process = "down"
    /\ process' = "up"
    /\ config' = readConfig(loadDefaults)
    /\ found' \in Discoveries
    /\ UNCHANGED <<pipe, file, ready, opened, loaded, storeVars>>

(***************************************************************************)
(* exec() returns, or the process dies: nothing is saved in either case.   *)
(***************************************************************************)
Shutdown ==
    /\ process = "quitting"
    /\ process' = "down"
    /\ Memoryless
    /\ RolledBack
    /\ table' = {}
    /\ UNCHANGED file

Die ==
    /\ process # "down"
    /\ process' = "down"
    /\ Memoryless
    /\ RolledBack
    /\ table' = {}
    /\ UNCHANGED file

------------------------------------------------------------------------------
(* Signals. *)

(***************************************************************************)
(* The handler runs in the one thread there is: when the socket pair is    *)
(* full its write() waits for a reader that is below it on the stack.      *)
(***************************************************************************)
signalHandler(signal) ==
    /\ Alive
    /\ IF Len(pipe) < PipeSize
       THEN pipe' = Append(pipe, signal) /\ UNCHANGED process
       ELSE process' = "blocked" /\ UNCHANGED pipe
    /\ UNCHANGED <<configVars, pluginVars, storeVars>>

\* Mutated form: whatever is in the socket pair is read at once, and its
\* first number taken.
handleSignalDrains ==
    /\ process = "up"
    /\ pipe # <<>>
    /\ pipe' = <<>>
    /\ \/ /\ Head(pipe) = "SIGTERM"
          /\ process' = "quitting"
          /\ UNCHANGED config
       \/ /\ Head(pipe) = "SIGHUP"
          /\ config' = readConfig(config)
          /\ UNCHANGED process
    /\ UNCHANGED <<file, pluginVars, storeVars>>

(***************************************************************************)
(* One number a time.  SIGTERM is quit(): the loop ends with this turn.    *)
(***************************************************************************)
handleSignal ==
    /\ process = "up"
    /\ pipe # <<>>
    /\ pipe' = Tail(pipe)
    /\ \/ /\ Head(pipe) = "SIGTERM"
          /\ process' = "quitting"
          /\ UNCHANGED config
       \/ /\ Head(pipe) = "SIGHUP"
          /\ config' = readConfig(config)
          /\ UNCHANGED process
    /\ UNCHANGED <<file, pluginVars, storeVars>>

EditFile ==
    /\ file' \in ConfigFiles \ {file}
    /\ UNCHANGED <<processVars, config, pluginVars, storeVars>>

------------------------------------------------------------------------------
(* Plugins and their table. *)

Set(names, name, enabled) == IF enabled THEN names \cup {name} ELSE names \ {name}

StatementFails(name) ==
    \/ /\ doubtful' = [doubtful EXCEPT ![opened] = @ \cup {name}]
       /\ UNCHANGED <<open, table, rows>>
    \/ /\ open
       /\ open' = FALSE
       /\ table' = rows[opened]
       /\ doubtful' = [doubtful EXCEPT ![opened] = @ \cup Differing(opened) \cup {name}]
       /\ UNCHANGED rows

\* Mutated form: the database the configuration names by now.
storePluginStateNow(name, enabled) ==
    /\ opened # NoDatabase
    /\ promised' = [promised EXCEPT ![opened] = Set(@, name, enabled)]
    /\ \/ /\ table' = Set(table, name, enabled)
          /\ rows' = IF open THEN rows ELSE [rows EXCEPT ![config.database] = table']
          /\ doubtful' = [doubtful EXCEPT ![opened] = @ \ {name}]
          /\ UNCHANGED open
       \/ StatementFails(name)

(***************************************************************************)
(* REPLACE INTO plugins, on the database that initialize() opened.  Its    *)
(* failure, with which SQLite may roll back what is open, is only logged.  *)
(***************************************************************************)
storePluginState(name, enabled) ==
    /\ opened # NoDatabase
    /\ promised' = [promised EXCEPT ![opened] = Set(@, name, enabled)]
    /\ \/ /\ table' = Set(table, name, enabled)
          /\ rows' = IF open THEN rows ELSE [rows EXCEPT ![opened] = table']
          /\ doubtful' = [doubtful EXCEPT ![opened] = @ \ {name}]
          /\ UNCHANGED open
       \/ StatementFails(name)

(***************************************************************************)
(* A server is added.  Its COMMIT keeps what is open, or fails and leaves  *)
(* it open; a statement that fails rolls it back.                          *)
(***************************************************************************)
storeServer ==
    /\ Alive
    /\ opened # NoDatabase
    /\ \/ /\ open' = TRUE
          /\ UNCHANGED <<table, rows, doubtful, promised>>
       \/ /\ open' = FALSE
          /\ rows' = [rows EXCEPT ![opened] = table]
          /\ UNCHANGED <<table, doubtful, promised>>
       \/ RolledBack /\ table' = rows[opened]
    /\ UNCHANGED <<processVars, configVars, pluginVars>>

(***************************************************************************)
(* initialize() opens the database, or fails to, loads what its table names*)
(* and only then listens to pluginStatusChanged().                         *)
(***************************************************************************)
Initialize ==
    /\ Alive
    /\ ~ready
    /\ ready' = TRUE
    /\ opened' \in {config.database, NoDatabase}
    /\ loaded' \in LoadedAfter(IF opened' = NoDatabase THEN {} ELSE rows[opened'],
                               found, loaded)
    /\ table' = IF opened' = NoDatabase THEN {} ELSE rows[opened']
    /\ UNCHANGED <<processVars, configVars, found, open, rows, promised, doubtful>>

(***************************************************************************)
(* A call over D-Bus, which may come before initialize().                  *)
(***************************************************************************)
SetPluginStatus(name, enabled) ==
    /\ Alive
    /\ \E o \in setPluginStatus(name, enabled, found, loaded) :
         /\ loaded' = o.loaded
         /\ \/ o.changed /\ storePluginState(name, enabled)
            \/ (o.changed => opened = NoDatabase) /\ UNCHANGED storeVars
    /\ UNCHANGED <<processVars, configVars, ready, opened, found>>

Next ==
    \/ Boot
    \/ Shutdown
    \/ Die
    \/ \E signal \in Signals : signalHandler(signal)
    \/ handleSignal
    \/ EditFile
    \/ Initialize
    \/ storeServer
    \/ \E name \in Plugins, enabled \in BOOLEAN : SetPluginStatus(name, enabled)

(***************************************************************************)
(* The event loop turns: the notifier of a readable socket is activated,   *)
(* and a loop that was told to quit ends.                                  *)
(***************************************************************************)
Spec == Init /\ [][Next]_vars /\ WF_vars(handleSignal) /\ WF_vars(Shutdown)

------------------------------------------------------------------------------
(* Properties. *)

(***************************************************************************)
(* initialize() brings back the plugins that were last announced as enabled*)
(* while this database was open, and no others: through any sequence of    *)
(* deaths, reloads, and changes of database, for every name of which no    *)
(* statement failed or was rolled back with a transaction left open, and   *)
(* whose library is (still) a plugin.                                      *)
(***************************************************************************)
RestartKeepsPlugins ==
    [][~ready /\ ready' /\ opened' # NoDatabase =>
           LET kept == promised[opened'] \ doubtful[opened']
           IN  /\ {name \in kept : found[name] = "sound"} \subseteq loaded'
               /\ loaded \subseteq loaded'
               /\ loaded' \ (loaded \cup doubtful[opened']) \subseteq kept]_vars

(***************************************************************************)
(* A SIGTERM that was written ends the process, whatever other signals come*)
(* before and after it, or the process hangs on one too many.              *)
(***************************************************************************)
TermEnds ==
    process = "up" /\ (\E i \in 1..Len(pipe) : pipe[i] = "SIGTERM")
        ~> process \in {"down", "blocked"}

(***************************************************************************)
(* After a SIGHUP the configuration comes to agree with a readable file in *)
(* every key the file has, unless the process ends or hangs.               *)
(***************************************************************************)
Agrees ==
    \A key \in DOMAIN file : file[key] # Absent => config[key] = file[key]

ReloadTakesEffect ==
    process = "up" /\ (\E i \in 1..Len(pipe) : pipe[i] = "SIGHUP")
        ~> (process # "up" \/ file = Unreadable \/ Agrees)
==============================================================================
