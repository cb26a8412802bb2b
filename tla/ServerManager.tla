---------------------------- MODULE ServerManager ----------------------------
(***************************************************************************)
(* The server manager: the list of servers, the map from the D-Bus         *)
(* interfaces of connected game servers to their servers, and the pings    *)
(* that watch over them.                                                   *)
(*                                                                         *)
(* Servers and interfaces are heap objects that are deleted later, by an   *)
(* event of their own, and whose addresses are used again: an element of   *)
(* Servers or Ifaces is an address.  The map and the ping watchers hold    *)
(* bare pointers.                                                          *)
(***************************************************************************)
EXTENDS Naturals, Sequences

Lists == INSTANCE SequencesExt

CONSTANTS
    Servers,        \* addresses of Server objects
    Ifaces,         \* addresses of GameServer interfaces
    Names,          \* server names
    Paths,          \* installation directories
    None,           \* no object
    MaxPings        \* bound: unanswered pings per interface

ASSUME ManagerAssumption ==
    /\ MaxPings \in Nat
    /\ None \notin Servers \cup Ifaces \cup Paths
    /\ None \notin [name : Names, path : Paths]

VARIABLES
    servers,        \* the list of managed servers
    object,         \* the live Server object at an address: its name and path, or None
    doomed,         \* servers whose deletion is posted
    exported,       \* the Server registered on the daemon's bus as /servers/<name>
    gameServers,    \* the map of the manager: the server of an interface, or None
    iface,          \* what is at an interface's address
    location,       \* the gameLocation an interface reports, or None
    pings,          \* watchers of unanswered pings that hold this interface
    dropped,        \* interfaces whose connection is gone
    stale,          \* map entries whose server has been deleted
    crashed         \* the daemon died of a null or dangling pointer, or an assertion

serverVars == <<servers, object, doomed, exported>>
ifaceVars  == <<iface, location, dropped>>
vars == <<serverVars, gameServers, ifaceVars, pings, stale, crashed>>

Descriptions == [name : Names, path : Paths]
IfaceStates  == {"none", "open", "parted", "condemned", "stray"}

\* Forgotten, after its goodbye or a failed ping, and still to be deleted.
Leaving == {"parted", "condemned"}

Listed == {servers[k] : k \in DOMAIN servers}

TypeOK ==
    /\ servers \in Seq(Servers)
    /\ object \in [Servers -> Descriptions \cup {None}]
    /\ doomed \subseteq Servers
    /\ exported \in [Names -> Servers \cup {None}]
    /\ gameServers \in [Ifaces -> Servers \cup {None}]
    /\ iface \in [Ifaces -> IfaceStates]
    /\ location \in [Ifaces -> Paths \cup {None}]
    /\ pings \in [Ifaces -> 0..MaxPings]
    /\ dropped \subseteq Ifaces
    /\ stale \subseteq Ifaces
    /\ crashed \in BOOLEAN

Init ==
    /\ servers = <<>>
    /\ object = [s \in Servers |-> None]
    /\ doomed = {}
    /\ exported = [n \in Names |-> None]
    /\ gameServers = [i \in Ifaces |-> None]
    /\ iface = [i \in Ifaces |-> "none"]
    /\ location = [i \in Ifaces |-> None]
    /\ pings = [i \in Ifaces |-> 0]
    /\ dropped = {}
    /\ stale = {}
    /\ crashed = FALSE

------------------------------------------------------------------------------
(* The list of servers. *)

(***************************************************************************)
(* find(): the first server of that name.                                  *)
(***************************************************************************)
Named(n) == {s \in Listed : object[s].name = n}

\* Mutated form: the name is not looked up.
AddUnchecked(s, n, p) ==
    /\ object[s] = None
    /\ object' = [object EXCEPT ![s] = [name |-> n, path |-> p]]
    /\ exported' = [exported EXCEPT ![n] = IF @ = None THEN s ELSE @]
    /\ servers' = Append(servers, s)
    /\ UNCHANGED <<doomed, gameServers, ifaceVars, pings, stale, crashed>>

(***************************************************************************)
(* add(): the new Server registers itself on the bus as it is constructed, *)
(* which fails silently while the path is taken.  When the name is taken   *)
(* in the list the object is deleted at once, and all is as before.        *)
(***************************************************************************)
Add(s, n, p) ==
    /\ object[s] = None
    /\ Named(n) = {}
    /\ object' = [object EXCEPT ![s] = [name |-> n, path |-> p]]
    /\ exported' = [exported EXCEPT ![n] = IF @ = None THEN s ELSE @]
    /\ servers' = Append(servers, s)
    /\ UNCHANGED <<doomed, gameServers, ifaceVars, pings, stale, crashed>>

\* Mutated form: the list is left to the deletion.
RemoveLater(s) ==
    /\ s \in Named(object[s].name)
    /\ doomed' = doomed \cup {s}
    /\ UNCHANGED <<servers, object, exported, gameServers, ifaceVars, pings, stale, crashed>>

(***************************************************************************)
(* remove(): the list, which holds a server once, forgets it; the map does *)
(* not.                                                                    *)
(***************************************************************************)
Remove(s) ==
    /\ s \in Named(object[s].name)
    /\ \E k \in DOMAIN servers :
         servers[k] = s /\ servers' = Lists!RemoveAt(servers, k)
    /\ doomed' = doomed \cup {s}
    /\ UNCHANGED <<object, exported, gameServers, ifaceVars, pings, stale, crashed>>

\* Mutated form: the object stays registered on the bus.
ServerDeletedExported(s) ==
    /\ s \in doomed
    /\ doomed' = doomed \ {s}
    /\ object' = [object EXCEPT ![s] = None]
    /\ stale' = stale \cup {i \in Ifaces : gameServers[i] = s}
    /\ UNCHANGED <<servers, exported, gameServers, ifaceVars, pings, crashed>>

ServerDeleted(s) ==
    /\ s \in doomed
    /\ doomed' = doomed \ {s}
    /\ object' = [object EXCEPT ![s] = None]
    /\ exported' = [n \in Names |-> IF exported[n] = s THEN None ELSE exported[n]]
    /\ stale' = stale \cup {i \in Ifaces : gameServers[i] = s}
    /\ UNCHANGED <<servers, gameServers, ifaceVars, pings, crashed>>

------------------------------------------------------------------------------
(* The game servers. *)

\* Mutated form: the path is not compared.
MatchesAny(p) == DOMAIN servers

(***************************************************************************)
(* registerGameServer(): the first listed server installed where the game  *)
(* server says it runs.                                                    *)
(***************************************************************************)
Matches(p) == {k \in DOMAIN servers : object[servers[k]].path = p}

\* Mutated form: the position is stored in place of the server.
NewConnectionAtPosition(i, p) ==
    /\ iface[i] = "none"
    /\ \E k \in Matches(p) : gameServers' = [gameServers EXCEPT ![i] = k]
    /\ location' = [location EXCEPT ![i] = p]
    /\ iface' = [iface EXCEPT ![i] = "open"]
    /\ UNCHANGED <<serverVars, pings, dropped, stale, crashed>>

NewConnection(i, p) ==
    /\ iface[i] = "none"
    /\ location' = [location EXCEPT ![i] = p]
    /\ \/ \E k \in Matches(p) :
            /\ \A other \in Matches(p) : k <= other
            /\ iface' = [iface EXCEPT ![i] = "open"]
            /\ gameServers' = [gameServers EXCEPT ![i] = servers[k]]
       \/ /\ Matches(p) = {}
          /\ iface' = [iface EXCEPT ![i] = "stray"]
          /\ UNCHANGED gameServers
    /\ UNCHANGED <<serverVars, pings, dropped, stale, crashed>>

\* Mutated form: the entry stays in the map.
ForgetNothing(i, how) ==
    /\ iface' = [iface EXCEPT ![i] = how]
    /\ UNCHANGED <<gameServers, stale>>

(***************************************************************************)
(* The manager forgets an interface and posts its deletion.                *)
(***************************************************************************)
Forget(i, how) ==
    /\ gameServers' = [gameServers EXCEPT ![i] = None]
    /\ iface' = [iface EXCEPT ![i] = how]
    /\ stale' = stale \ {i}

AboutToQuit(i) ==
    /\ iface[i] = "open"
    /\ Forget(i, "parted")
    /\ UNCHANGED <<serverVars, location, pings, dropped, crashed>>

(***************************************************************************)
(* A goodbye that was queued when the ping failed finds the interface      *)
(* forgotten: where assertions are compiled in, the process ends; where    *)
(* they are not, all is as before.                                         *)
(***************************************************************************)
AboutToQuitLate(i) ==
    /\ iface[i] = "condemned"
    /\ crashed' = TRUE
    /\ UNCHANGED <<serverVars, gameServers, ifaceVars, pings, stale>>

IfaceDeleted(i) ==
    /\ iface[i] \in Leaving
    /\ iface' = [iface EXCEPT ![i] = "none"]
    /\ location' = [location EXCEPT ![i] = None]
    /\ dropped' = dropped \ {i}
    /\ UNCHANGED <<serverVars, gameServers, pings, stale, crashed>>

ConnectionDrops(i) ==
    /\ iface[i] \in Leaving \cup {"open"}
    /\ i \notin dropped
    /\ dropped' = dropped \cup {i}
    /\ UNCHANGED <<serverVars, gameServers, iface, location, pings, stale, crashed>>

------------------------------------------------------------------------------
(* The pings. *)

Pinged == {i \in Ifaces : gameServers[i] # None}

(***************************************************************************)
(* pingAllServers(): one more watcher for every interface in the map.      *)
(***************************************************************************)
PingAllServers ==
    /\ Pinged # {}
    /\ \A i \in Pinged : pings[i] < MaxPings
    /\ pings' = [i \in Ifaces |-> IF i \in Pinged THEN pings[i] + 1 ELSE pings[i]]
    /\ UNCHANGED <<serverVars, gameServers, ifaceVars, stale, crashed>>

(***************************************************************************)
(* A reply, or an error that is only logged.                               *)
(***************************************************************************)
PingAnswered(i) ==
    /\ pings[i] > 0
    /\ pings' = [pings EXCEPT ![i] = @ - 1]
    /\ UNCHANGED <<serverVars, gameServers, ifaceVars, stale, crashed>>

\* Mutated form: the server is told, the interface is kept.
PingFailsKept(i) ==
    /\ pings[i] > 0
    /\ gameServers[i] # None
    /\ pings' = [pings EXCEPT ![i] = @ - 1]
    /\ UNCHANGED <<serverVars, gameServers, ifaceVars, stale, crashed>>

(***************************************************************************)
(* The error says the connection is lost.  The server the map holds is told*)
(* whatever has happened since the ping was sent; whether the map holds one*)
(* is not looked at.                                                       *)
(***************************************************************************)
PingFails(i) ==
    /\ pings[i] > 0
    /\ gameServers[i] # None
    /\ pings' = [pings EXCEPT ![i] = @ - 1]
    /\ Forget(i, "condemned")
    /\ UNCHANGED <<serverVars, location, dropped, crashed>>

(***************************************************************************)
(* The map holds no server, or a deleted one whose address is not in use:  *)
(* the signal is emitted through a null or dangling pointer.               *)
(***************************************************************************)
PingFailsBadly(i) ==
    /\ pings[i] > 0
    /\ gameServers[i] \in Servers => object[gameServers[i]] = None
    /\ crashed' = TRUE
    /\ UNCHANGED <<serverVars, gameServers, ifaceVars, pings, stale>>

(***************************************************************************)
(* The init system starts the daemon again.  Its servers are added anew.   *)
(***************************************************************************)
Restart ==
    /\ crashed
    /\ servers' = <<>> /\ doomed' = {} /\ dropped' = {} /\ stale' = {}
    /\ object' = [s \in Servers |-> None]
    /\ exported' = [n \in Names |-> None]
    /\ gameServers' = [i \in Ifaces |-> None]
    /\ iface' = [i \in Ifaces |-> "none"]
    /\ location' = [i \in Ifaces |-> None]
    /\ pings' = [i \in Ifaces |-> 0]
    /\ crashed' = FALSE

Handle ==
    \/ \E s \in Servers :
          \/ \E n \in Names, p \in Paths : Add(s, n, p)
          \/ s \in Listed /\ Remove(s)
          \/ ServerDeleted(s)
    \/ \E i \in Ifaces :
          \/ \E p \in Paths : NewConnection(i, p)
          \/ AboutToQuit(i)
          \/ AboutToQuitLate(i)
          \/ IfaceDeleted(i)
          \/ ConnectionDrops(i)
          \/ PingAnswered(i)
          \/ PingFails(i)
          \/ PingFailsBadly(i)
    \/ PingAllServers

Next == (~crashed /\ Handle) \/ Restart

Spec == Init /\ [][Next]_vars

(***************************************************************************)
(* The 5 s timer keeps pinging, every call is answered within the D-Bus    *)
(* timeout, and the init system restarts the daemon.  A ping of a dropped  *)
(* connection fails: only the finitely many sent before may still be       *)
(* answered, hence strong fairness.                                        *)
(***************************************************************************)
Fairness ==
    /\ WF_vars(~crashed /\ PingAllServers)
    /\ \A i \in Ifaces :
          /\ WF_vars(~crashed /\ (PingAnswered(i) \/ PingFails(i) \/ PingFailsBadly(i)))
          /\ SF_vars(~crashed /\ i \in dropped /\ PingFails(i))
    /\ WF_vars(Restart)

FairSpec == Spec /\ Fairness

------------------------------------------------------------------------------
(* Properties. *)

(***************************************************************************)
(* find() decides by name: no two managed servers share one, and none is   *)
(* on its way to be deleted.                                               *)
(***************************************************************************)
UniqueNames ==
    \A j, k \in DOMAIN servers :
        object[servers[j]].name = object[servers[k]].name => j = k

ListedIsAlive ==
    \A s \in Listed : object[s] # None /\ s \notin doomed

(***************************************************************************)
(* The keys of the map are live interfaces: pingAllServers() calls through *)
(* none that has been given up.                                            *)
(***************************************************************************)
RegistryIsAlive == \A i \in Pinged : iface[i] = "open"

(***************************************************************************)
(* Until its server is deleted, an interface speaks for the installation   *)
(* its game server runs from, and for no other.                            *)
(***************************************************************************)
MatchedByPath ==
    \A i \in Pinged \ stale :
        object[gameServers[i]] # None /\ object[gameServers[i]].path = location[i]

(***************************************************************************)
(* The bus never reaches a deleted server, or one under a foreign name.    *)
(***************************************************************************)
ExportedIsAlive ==
    \A n \in Names :
        exported[n] # None => object[exported[n]] # None /\ object[exported[n]].name = n

(***************************************************************************)
(* The manager finds out that a connection is gone.                        *)
(***************************************************************************)
DroppedIsForgotten ==
    \A i \in Ifaces : i \in dropped /\ iface[i] = "open" ~> iface[i] # "open"

------------------------------------------------------------------------------
(* Statements of the code that it does not keep. *)

(***************************************************************************)
(* "Q_ASSERT(gameServers.contains(iface))" (servermanager.cpp): when an    *)
(* interface reports its end, by a goodbye or a failed ping, the map still *)
(* holds it.                                                               *)
(***************************************************************************)
ReportsAreOwned ==
    [][\A i \in Ifaces :
           /\ ~crashed
           /\ AboutToQuit(i) \/ AboutToQuitLate(i) \/ PingFails(i) \/ PingFailsBadly(i)
           => gameServers[i] # None]_vars

(***************************************************************************)
(* The same of goodbyes alone, about which the assertion is: a failed ping *)
(* may have come first.                                                    *)
(***************************************************************************)
GoodbyesAreOwned ==
    [][\A i \in Ifaces :
           ~crashed /\ (AboutToQuit(i) \/ AboutToQuitLate(i)) =>
               gameServers[i] # None]_vars
==============================================================================
