---------------------------- MODULE PluginManager ----------------------------
(***************************************************************************)
(* The plugin manager: which plugins the daemon found when it started and  *)
(* which of their libraries are loaded.                                    *)
(*                                                                         *)
(* Of several files with the name of a plugin only the first one found is  *)
(* ever used, and the order is the file system's: a name stands for that   *)
(* file, which may be another one, or none, at the next start.  An         *)
(* operation is the set of its outcomes: the libraries loaded afterwards,  *)
(* and whether pluginStatusChanged() was emitted.                          *)
(***************************************************************************)
CONSTANT Plugins        \* names in the meta data of the libraries

(***************************************************************************)
(* "sound": the library loads and its root object is a MorgothPlugin.      *)
(* "unsound": the meta data name a plugin, but instance() yields none.     *)
(***************************************************************************)
Discoveries == [Plugins -> {"sound", "unsound", "missing"}]

Silent(libraries) == [loaded |-> libraries, changed |-> FALSE]
Changed(libraries) == [loaded |-> libraries, changed |-> TRUE]

(***************************************************************************)
(* loadPlugin().  A library that is no plugin is unloaded again; when that *)
(* fails it stays, and isLoaded() takes it for a plugin.                   *)
(***************************************************************************)
loadPlugin(name, found, loaded) ==
    IF name \in loaded \/ found[name] = "missing"
    THEN {Silent(loaded)}
    ELSE IF found[name] = "sound"
         THEN {Changed(loaded \cup {name})}
         ELSE {Silent(loaded), Silent(loaded \cup {name})}

(***************************************************************************)
(* unloadPlugin(): nothing is said of a library that is not loaded, or that*)
(* does not let itself be unloaded.                                        *)
(***************************************************************************)
unloadPlugin(name, found, loaded) ==
    IF name \in loaded THEN {Changed(loaded \ {name}), Silent(loaded)}
                       ELSE {Silent(loaded)}

setPluginStatus(name, enabled, found, loaded) ==
    IF enabled THEN loadPlugin(name, found, loaded)
               ELSE unloadPlugin(name, found, loaded)

(***************************************************************************)
(* What is loaded once setPluginStatus(name, true) was called for each of  *)
(* "names".                                                                *)
(***************************************************************************)
LoadedAfter(names, found, loaded) ==
    {after \in SUBSET Plugins :
        \A name \in Plugins :
            IF name \in names
            THEN \E o \in setPluginStatus(name, TRUE, found, loaded) :
                     name \in after <=> name \in o.loaded
            ELSE name \in after <=> name \in loaded}
==============================================================================
