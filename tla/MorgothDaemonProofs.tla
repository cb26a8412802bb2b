------------------------- MODULE MorgothDaemonProofs -------------------------
(***************************************************************************)
(* Proofs about MorgothDaemon and PluginManager, for any plugins,          *)
(* databases, settings and size of the socket pair.                        *)
(***************************************************************************)
EXTENDS MorgothDaemon, SequenceTheorems, TLAPS

------------------------------------------------------------------------------
(* The plugin manager. *)

(***************************************************************************)
(* A call for one name changes no other library.                           *)
(***************************************************************************)
LEMMA StatusOutcome ==
    ASSUME NEW name \in Plugins, NEW enabled \in BOOLEAN, NEW libraries \in SUBSET Plugins,
           NEW discovery \in Discoveries,
           NEW o \in setPluginStatus(name, enabled, discovery, libraries)
    PROVE  /\ o.loaded \in SUBSET Plugins
           /\ o.changed \in BOOLEAN
           /\ o.loaded \in {libraries, libraries \cup {name}, libraries \ {name}}
<1>1. \E after \in {libraries, libraries \cup {name}, libraries \ {name}} :
          o = Silent(after) \/ o = Changed(after)
  <2>1. CASE enabled
    BY <2>1 DEF setPluginStatus, loadPlugin
  <2>2. CASE ~enabled
    BY <2>2 DEF setPluginStatus, unloadPlugin
  <2> QED
    BY <2>1, <2>2
<1>2. PICK after \in {libraries, libraries \cup {name}, libraries \ {name}} :
          o = Silent(after) \/ o = Changed(after)
  BY <1>1
<1>3. o.loaded = after /\ o.changed \in BOOLEAN
  <2>1. CASE o = [loaded |-> after, changed |-> FALSE]
    BY <2>1
  <2>2. CASE o = [loaded |-> after, changed |-> TRUE]
    BY <2>2
  <2> QED
    BY <1>2, <2>1, <2>2 DEF Silent, Changed
<1> QED
  BY <1>3

(***************************************************************************)
(* Enabling a name loads its library when it is a plugin, and never unloads*)
(* one.                                                                    *)
(***************************************************************************)
LEMMA LoadOutcome ==
    ASSUME NEW name \in Plugins, NEW libraries \in SUBSET Plugins,
           NEW discovery \in Discoveries,
           NEW o \in setPluginStatus(name, TRUE, discovery, libraries)
    PROVE  /\ name \in libraries => name \in o.loaded
           /\ discovery[name] = "sound" => name \in o.loaded
  BY DEF setPluginStatus, loadPlugin, Silent, Changed, Discoveries

(***************************************************************************)
(* What restorePlugins() loads: only plugins with a row in the table.      *)
(***************************************************************************)
LEMMA LoadedAfterOutcome ==
    ASSUME NEW names, NEW libraries \in SUBSET Plugins, NEW discovery \in Discoveries,
           NEW after \in LoadedAfter(names, discovery, libraries)
    PROVE  /\ after \in SUBSET Plugins
           /\ libraries \subseteq after
           /\ after \ libraries \subseteq names
           /\ \A name \in names \cap Plugins : discovery[name] = "sound" => name \in after
<1>1. /\ after \in SUBSET Plugins
      /\ \A name \in Plugins :
            IF name \in names
            THEN \E o \in setPluginStatus(name, TRUE, discovery, libraries) :
                     name \in after <=> name \in o.loaded
            ELSE name \in after <=> name \in libraries
  BY DEF LoadedAfter
<1>2. ASSUME NEW name \in Plugins
      PROVE  /\ name \in libraries => name \in after
             /\ name \in after \ libraries => name \in names
             /\ name \in names /\ discovery[name] = "sound" => name \in after
  <2>1. CASE name \in names
    <3>1. PICK o \in setPluginStatus(name, TRUE, discovery, libraries) :
              name \in after <=> name \in o.loaded
      BY <1>1, <2>1
    <3> QED
      BY <2>1, <3>1, LoadOutcome
  <2>2. CASE name \notin names
    BY <1>1, <2>2
  <2> QED
    BY <2>1, <2>2
<1> QED
  BY <1>1, <1>2

------------------------------------------------------------------------------
(* The inductive invariant. *)

(***************************************************************************)
(* What a statement of this process would read of a database.              *)
(***************************************************************************)
Read(d) == IF d = opened THEN table ELSE rows[d]

(***************************************************************************)
(* The table of every database holds what was promised, but for the names  *)
(* whose statement failed or was taken back; and this process reads what   *)
(* the database keeps, unless a transaction was left open.                 *)
(***************************************************************************)
TableKeepsPromises ==
    \A d \in Databases : \A name \in Plugins \ doubtful[d] :
        name \in Read(d) <=> name \in promised[d]

Settled == ~open /\ opened # NoDatabase => table = rows[opened]

DInv == TypeOK /\ TableKeepsPromises /\ Settled

(***************************************************************************)
(* A file merged into a configuration gives a configuration.               *)
(***************************************************************************)
LEMMA MergedOutcome ==
    ASSUME NEW known \in Configs, NEW settings \in Settings
    PROVE  Merged(known, settings) \in Configs
<1>1. DOMAIN known = {"database", "user"}
  BY DEF Configs
<1>2. Merged(known, settings) =
          [key \in {"database", "user"} |->
              IF settings[key] = Absent THEN known[key] ELSE settings[key]]
  BY <1>1 DEF Merged
<1>3. Merged(known, settings).database \in Databases
  BY <1>2 DEF Configs, Settings
<1>4. Merged(known, settings).user \in Accounts \cup {Absent}
  BY <1>2 DEF Configs, Settings
<1> QED
  BY <1>2, <1>3, <1>4 DEF Configs

(***************************************************************************)
(* readConfig() gives a configuration.                                     *)
(***************************************************************************)
LEMMA ReadOutcome ==
    ASSUME NEW known \in Configs, file \in ConfigFiles
    PROVE  readConfig(known) \in Configs
  BY MergedOutcome DEF readConfig, ConfigFiles

(***************************************************************************)
(* A rollback leaves what the database keeps; names of which that is not   *)
(* what the process had written are promised nothing any more.             *)
(***************************************************************************)
LEMMA RollbackOutcome ==
    ASSUME DInv, RolledBack, \/ opened' = opened /\ opened # NoDatabase /\ table' = rows[opened]
                             \/ opened' = NoDatabase
    PROVE  /\ doubtful' \in [Databases -> SUBSET Plugins]
           /\ TableKeepsPromises'
<1>1. /\ NoDatabase \notin Databases
      /\ table \in SUBSET Plugins
      /\ rows \in [Databases -> SUBSET Plugins]
      /\ doubtful \in [Databases -> SUBSET Plugins]
      /\ TableKeepsPromises
  BY DaemonAssumption DEF DInv, TypeOK
<1>2. /\ rows' = rows /\ promised' = promised
      /\ doubtful' = [d \in Databases |-> IF d = opened THEN doubtful[d] \cup Differing(d)
                                                        ELSE doubtful[d]]
  BY DEF RolledBack
<1>3. ASSUME NEW d \in Databases PROVE Differing(d) \subseteq Plugins
  BY <1>1 DEF Differing
<1>4. doubtful' \in [Databases -> SUBSET Plugins]
  BY <1>1, <1>2, <1>3
<1>5. ASSUME NEW d \in Databases
      PROVE  Read(d)' = rows[d]
  BY <1>1, <1>2, <1>5 DEF Read
<1>6. ASSUME NEW d \in Databases, NEW name \in Plugins \ doubtful'[d]
      PROVE  name \in Read(d) <=> name \in rows[d]
  BY <1>1, <1>2, <1>6 DEF Read, Differing
<1>7. ASSUME NEW d \in Databases, NEW name \in Plugins \ doubtful'[d]
      PROVE  name \notin doubtful[d]
  BY <1>2, <1>7
<1> QED
  BY <1>1, <1>2, <1>4, <1>5, <1>6, <1>7 DEF TableKeepsPromises

(***************************************************************************)
(* storePluginState() leaves a table that keeps what it promises.          *)
(***************************************************************************)
LEMMA StoreOutcome ==
    ASSUME DInv, NEW name \in Plugins, NEW enabled \in BOOLEAN,
           storePluginState(name, enabled), opened' = opened
    PROVE  /\ open' \in BOOLEAN
           /\ table' \subseteq Plugins
           /\ rows' \in [Databases -> SUBSET Plugins]
           /\ promised' \in [Databases -> SUBSET Plugins]
           /\ doubtful' \in [Databases -> SUBSET Plugins]
           /\ TableKeepsPromises'
           /\ Settled'
<1>1. /\ opened \in Databases
      /\ open \in BOOLEAN
      /\ table \in SUBSET Plugins
      /\ rows \in [Databases -> SUBSET Plugins]
      /\ promised \in [Databases -> SUBSET Plugins]
      /\ doubtful \in [Databases -> SUBSET Plugins]
      /\ TableKeepsPromises
      /\ ~open => table = rows[opened]
  BY DEF DInv, TypeOK, Settled, storePluginState
<1>2. promised' = [promised EXCEPT ![opened] = Set(@, name, enabled)]
  BY DEF storePluginState
<1>3. \A names \in SUBSET Plugins :
          /\ Set(names, name, enabled) \in SUBSET Plugins
          /\ \A other \in Plugins \ {name} :
                 other \in Set(names, name, enabled) <=> other \in names
          /\ name \in Set(names, name, enabled) <=> enabled
  BY DEF Set
<1>4. promised' \in [Databases -> SUBSET Plugins]
  BY <1>1, <1>2, <1>3
<1>5. CASE /\ table' = Set(table, name, enabled)
           /\ rows' = IF open THEN rows ELSE [rows EXCEPT ![opened] = table']
           /\ doubtful' = [doubtful EXCEPT ![opened] = @ \ {name}]
           /\ open' = open
  <2>1. table' \in SUBSET Plugins /\ rows' \in [Databases -> SUBSET Plugins]
    BY <1>1, <1>3, <1>5
  <2>2. \A d \in Databases : Read(d)' = IF d = opened THEN table' ELSE rows[d]
    BY <1>1, <1>5 DEF Read
  <2>3. TableKeepsPromises'
    <3>1. ASSUME NEW d \in Databases, NEW other \in Plugins \ doubtful'[d]
          PROVE  other \in Read(d)' <=> other \in promised'[d]
      BY <1>1, <1>2, <1>3, <1>5, <2>2, <3>1 DEF TableKeepsPromises, Read
    <3> QED
      BY <3>1 DEF TableKeepsPromises
  <2> QED
    BY <1>1, <1>4, <1>5, <2>1, <2>3 DEF Settled
<1>6. CASE /\ doubtful' = [doubtful EXCEPT ![opened] = @ \cup {name}]
           /\ UNCHANGED <<open, table, rows>>
  <2>1. TableKeepsPromises'
    <3>1. ASSUME NEW d \in Databases, NEW other \in Plugins \ doubtful'[d]
          PROVE  other \in Read(d)' <=> other \in promised'[d]
      BY <1>1, <1>2, <1>3, <1>6, <3>1 DEF TableKeepsPromises, Read
    <3> QED
      BY <3>1 DEF TableKeepsPromises
  <2> QED
    BY <1>1, <1>4, <1>6, <2>1 DEF Settled
<1>7. CASE /\ open /\ open' = FALSE /\ table' = rows[opened] /\ rows' = rows
           /\ doubtful' = [doubtful EXCEPT ![opened] = @ \cup Differing(opened) \cup {name}]
  <2>1. Differing(opened) \subseteq Plugins
    BY <1>1 DEF Differing
  <2>2. TableKeepsPromises'
    <3>1. ASSUME NEW d \in Databases, NEW other \in Plugins \ doubtful'[d]
          PROVE  other \in Read(d)' <=> other \in promised'[d]
      BY <1>1, <1>2, <1>3, <1>7, <3>1 DEF TableKeepsPromises, Read, Differing
    <3> QED
      BY <3>1 DEF TableKeepsPromises
  <2> QED
    BY <1>1, <1>4, <1>7, <2>1, <2>2 DEF Settled
<1> QED
  BY <1>5, <1>6, <1>7 DEF storePluginState, StatementFails

LEMMA InitDaemon == Init => DInv
<1> SUFFICES ASSUME Init PROVE DInv
  OBVIOUS
<1>1. loadDefaults \in Configs
  BY DaemonAssumption DEF loadDefaults, Configs
<1>2. [name \in Plugins |-> "missing"] \in Discoveries
  BY DEF Discoveries
<1>3. pipe \in Seq(Signals) /\ Len(pipe) <= PipeSize
  BY DaemonAssumption DEF Init
<1>4. /\ \A d \in Databases : rows[d] = {} /\ promised[d] = {} /\ doubtful[d] = {}
      /\ opened = NoDatabase /\ table = {}
  BY DEF Init
<1>5. TypeOK
  BY <1>1, <1>2, <1>3, DaemonAssumption DEF Init, TypeOK
<1> QED
  BY <1>4, <1>5 DEF DInv, TableKeepsPromises, Read, Settled

LEMMA StepDaemon == DInv /\ [Next]_vars => DInv'
<1> SUFFICES ASSUME DInv, [Next]_vars PROVE DInv'
  OBVIOUS
<1>0. /\ TypeOK /\ TableKeepsPromises /\ Settled
      /\ loadDefaults \in Configs
      /\ [name \in Plugins |-> "missing"] \in Discoveries
  BY DaemonAssumption DEF DInv, loadDefaults, Configs, Discoveries
<1>1. ASSUME UNCHANGED <<storeVars, opened>>, TypeOK' PROVE DInv'
  BY <1>0, <1>1 DEF DInv, TableKeepsPromises, Read, Settled, storeVars
<1>2. CASE Boot
  <2>1. config' \in Configs
    BY <1>0, <1>2, ReadOutcome DEF Boot, TypeOK
  <2>2. TypeOK'
    BY <1>0, <1>2, <2>1 DEF Boot, TypeOK, storeVars
  <2> QED
    BY <1>1, <1>2, <2>2 DEF Boot
<1>3. CASE Shutdown \/ Die
  <2>1. /\ process' = "down"
        /\ Memoryless
        /\ RolledBack /\ table' = {} /\ file' = file /\ opened' = NoDatabase
    BY <1>3 DEF Shutdown, Die, Memoryless
  <2>2. pipe' \in Seq(Signals) /\ Len(pipe') <= PipeSize
    BY <2>1, DaemonAssumption DEF Memoryless
  <2>3. doubtful' \in [Databases -> SUBSET Plugins] /\ TableKeepsPromises'
    BY <2>1, RollbackOutcome
  <2>4. TypeOK'
    BY <1>0, <2>1, <2>2, <2>3 DEF Memoryless, RolledBack, TypeOK
  <2>5. Settled'
    BY <2>1 DEF Settled
  <2> QED
    BY <2>3, <2>4, <2>5 DEF DInv
<1>4. ASSUME NEW signal \in Signals, signalHandler(signal) PROVE DInv'
  <2>1. pipe' \in Seq(Signals) /\ Len(pipe') <= PipeSize
    <3>1. /\ pipe \in Seq(Signals) /\ Len(pipe) \in Nat /\ Len(pipe) <= PipeSize
          /\ PipeSize \in Nat
      BY <1>0, DaemonAssumption, LenProperties DEF TypeOK
    <3>2. Append(pipe, signal) \in Seq(Signals) /\ Len(Append(pipe, signal)) = Len(pipe) + 1
      BY <3>1, AppendProperties
    <3>3. \/ Len(pipe) < PipeSize /\ pipe' = Append(pipe, signal)
          \/ pipe' = pipe
      BY <1>4 DEF signalHandler
    <3> QED
      BY <3>1, <3>2, <3>3
  <2>2. process' \in {"up", "quitting", "down", "blocked"}
    BY <1>0, <1>4 DEF signalHandler, TypeOK
  <2>3. TypeOK'
    BY <1>0, <1>4, <2>1, <2>2
       DEF signalHandler, TypeOK, configVars, pluginVars, storeVars
  <2> QED
    BY <1>1, <1>4, <2>3 DEF signalHandler, pluginVars
<1>5. CASE handleSignal
  <2>1. pipe' \in Seq(Signals) /\ Len(pipe') <= PipeSize
    <3>1. /\ pipe \in Seq(Signals) /\ Len(pipe) \in Nat /\ Len(pipe) <= PipeSize
          /\ PipeSize \in Nat /\ pipe # <<>> /\ pipe' = Tail(pipe)
      BY <1>0, <1>5, DaemonAssumption, LenProperties DEF TypeOK, handleSignal
    <3>2. Tail(pipe) \in Seq(Signals) /\ Len(Tail(pipe)) = Len(pipe) - 1
      BY <3>1, HeadTailProperties
    <3> QED
      BY <3>1, <3>2
  <2>2. config' \in Configs
    BY <1>0, <1>5, ReadOutcome DEF handleSignal, TypeOK
  <2>3. process' \in {"up", "quitting", "down", "blocked"}
    BY <1>0, <1>5 DEF handleSignal, TypeOK
  <2>4. TypeOK'
    BY <1>0, <1>5, <2>1, <2>2, <2>3 DEF handleSignal, TypeOK, pluginVars, storeVars
  <2> QED
    BY <1>1, <1>5, <2>4 DEF handleSignal, pluginVars
<1>6. CASE EditFile
  <2>1. TypeOK'
    BY <1>0, <1>6 DEF EditFile, TypeOK, processVars, pluginVars, storeVars
  <2> QED
    BY <1>1, <1>6, <2>1 DEF EditFile, pluginVars
<1>7. CASE Initialize
  <2>1. /\ opened = NoDatabase /\ open = FALSE /\ NoDatabase \notin Databases
        /\ opened' \in Databases \cup {NoDatabase} /\ ready'
        /\ table' = IF opened' = NoDatabase THEN {} ELSE rows[opened']
        /\ UNCHANGED <<open, rows, promised, doubtful>>
    BY <1>0, <1>7, DaemonAssumption DEF Initialize, TypeOK, Configs
  <2>2. loaded' \in SUBSET Plugins
    BY <1>7 DEF Initialize, LoadedAfter
  <2>3. table' \subseteq Plugins
    BY <1>0, <2>1 DEF TypeOK
  <2>4. TypeOK'
    BY <1>0, <1>7, <2>1, <2>2, <2>3 DEF Initialize, TypeOK, processVars, configVars
  <2>5. \A d \in Databases : Read(d)' = Read(d)
    BY <2>1 DEF Read
  <2>6. TableKeepsPromises' /\ Settled'
    BY <1>0, <2>1, <2>5 DEF TableKeepsPromises, Settled
  <2> QED
    BY <2>4, <2>6 DEF DInv
<1>8. ASSUME NEW name \in Plugins, NEW enabled \in BOOLEAN, SetPluginStatus(name, enabled)
      PROVE  DInv'
  <2>1. PICK o \in setPluginStatus(name, enabled, found, loaded) :
            /\ loaded' = o.loaded
            /\ storePluginState(name, enabled) \/ UNCHANGED storeVars
    BY <1>8 DEF SetPluginStatus
  <2>2. loaded' \in SUBSET Plugins
    BY <1>0, <2>1, StatusOutcome DEF TypeOK
  <2>3. UNCHANGED <<processVars, configVars, ready, opened, found>>
    BY <1>8 DEF SetPluginStatus
  <2>4. CASE storePluginState(name, enabled)
    <3>1. opened # NoDatabase
      BY <2>4 DEF storePluginState
    <3> QED
      BY <1>0, <2>2, <2>3, <2>4, <3>1, StoreOutcome
         DEF DInv, TypeOK, processVars, configVars
  <2>5. CASE UNCHANGED storeVars
    BY <1>0, <1>1, <2>2, <2>3, <2>5 DEF TypeOK, processVars, configVars, storeVars
  <2> QED
    BY <2>1, <2>4, <2>5
<1>10. CASE storeServer
  <2>1. /\ opened \in Databases /\ opened' = opened
        /\ UNCHANGED <<processVars, configVars, pluginVars>>
    BY <1>0, <1>10 DEF storeServer, TypeOK, pluginVars
  <2>2. CASE open' = TRUE /\ UNCHANGED <<table, rows, doubtful, promised>>
    <3>1. TypeOK'
      BY <1>0, <2>1, <2>2, DaemonAssumption
         DEF TypeOK, processVars, configVars, pluginVars
    <3>2. TableKeepsPromises' /\ Settled'
      BY <1>0, <2>1, <2>2 DEF TableKeepsPromises, Read, Settled
    <3> QED
      BY <3>1, <3>2 DEF DInv
  <2>3. CASE /\ open' = FALSE /\ rows' = [rows EXCEPT ![opened] = table]
             /\ UNCHANGED <<table, doubtful, promised>>
    <3>1. TypeOK'
      BY <1>0, <2>1, <2>3 DEF TypeOK, processVars, configVars, pluginVars
    <3>2. \A d \in Databases : Read(d)' = Read(d)
      BY <1>0, <2>1, <2>3 DEF TypeOK, Read
    <3>3. TableKeepsPromises' /\ Settled'
      BY <1>0, <2>1, <2>3, <3>2 DEF TypeOK, TableKeepsPromises, Settled
    <3> QED
      BY <3>1, <3>3 DEF DInv
  <2>4. CASE RolledBack /\ table' = rows[opened]
    <3>1. doubtful' \in [Databases -> SUBSET Plugins] /\ TableKeepsPromises'
      BY <2>1, <2>4, RollbackOutcome, DaemonAssumption
    <3>2. table' \subseteq Plugins
      BY <1>0, <2>1, <2>4 DEF TypeOK
    <3>3. TypeOK' /\ Settled'
      BY <1>0, <2>1, <2>4, <3>1, <3>2
         DEF RolledBack, Settled, TypeOK, processVars, configVars, pluginVars
    <3> QED
      BY <3>1, <3>3 DEF DInv
  <2> QED
    BY <1>10, <2>2, <2>3, <2>4 DEF storeServer
<1>9. CASE UNCHANGED vars
  BY <1>0, <1>1, <1>9 DEF vars, TypeOK, processVars, configVars, pluginVars, storeVars
<1> QED
  BY <1>2, <1>3, <1>4, <1>5, <1>6, <1>7, <1>8, <1>9, <1>10 DEF Next

LEMMA DaemonInvariance == Init /\ [][Next]_vars => []DInv
  BY InitDaemon, StepDaemon, PTL

------------------------------------------------------------------------------
(* The properties of the run. *)

(***************************************************************************)
(* The process, its configuration, its plugins and their tables keep their *)
(* types.                                                                  *)
(***************************************************************************)
THEOREM TypeCorrect == Spec => []TypeOK
  BY DaemonInvariance, PTL DEF Spec, DInv

(***************************************************************************)
(* initialize() restores the announced status of every plugin of which no  *)
(* statement failed or was rolled back, whatever happened to the process   *)
(* and its configuration before.                                           *)
(***************************************************************************)
THEOREM PluginsRestored == Spec => RestartKeepsPlugins
<1> DEFINE kept == promised[opened'] \ doubtful[opened']
<1>1. DInv /\ [Next]_vars =>
          [~ready /\ ready' /\ opened' # NoDatabase =>
               /\ {name \in kept : found[name] = "sound"} \subseteq loaded'
               /\ loaded \subseteq loaded'
               /\ loaded' \ (loaded \cup doubtful[opened']) \subseteq kept]_vars
  <2> SUFFICES ASSUME DInv, [Next]_vars, ~ready, ready', opened' # NoDatabase
               PROVE  /\ {name \in kept : found[name] = "sound"} \subseteq loaded'
                      /\ loaded \subseteq loaded'
                      /\ loaded' \ (loaded \cup doubtful[opened']) \subseteq kept
    OBVIOUS
  <2>1. Initialize
    BY DEF Next, vars, Boot, Shutdown, Die, Memoryless, signalHandler, handleSignal,
           EditFile, SetPluginStatus, storeServer, pluginVars
  <2>2. /\ opened' \in Databases
        /\ loaded' \in LoadedAfter(rows[opened'], found, loaded)
    BY <2>1 DEF Initialize, DInv, TypeOK, Configs
  <2>3. /\ loaded' \in SUBSET Plugins
        /\ loaded \subseteq loaded'
        /\ loaded' \ loaded \subseteq rows[opened']
        /\ \A name \in rows[opened'] \cap Plugins : found[name] = "sound" => name \in loaded'
    BY <2>2, LoadedAfterOutcome DEF DInv, TypeOK
  <2>4. /\ promised[opened'] \subseteq Plugins
        /\ \A name \in Plugins \ doubtful[opened'] :
               name \in rows[opened'] <=> name \in promised[opened']
    <3>1. opened = NoDatabase /\ NoDatabase \notin Databases
      BY DaemonAssumption DEF DInv, TypeOK
    <3> QED
      BY <2>2, <3>1 DEF DInv, TypeOK, TableKeepsPromises, Read
  <2> QED
    BY <2>3, <2>4
<1> QED
  BY <1>1, DaemonInvariance, PTL DEF Spec, RestartKeepsPlugins
==============================================================================
