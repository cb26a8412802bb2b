----------------------------- MODULE ServerStatus -----------------------------
(***************************************************************************)
(* The runtime information of a server: ServerStatus mirrors what a        *)
(* connected game server reports, and is reset by every stateChanged of    *)
(* the coordinator.                                                        *)
(*                                                                         *)
(* The coordinator is taken as its contract, ServerLifecycle: each of the  *)
(* contract's steps is a setState() and emits stateChanged.  The signals   *)
(* of the game server arrive in the order they were sent.                  *)
(***************************************************************************)
EXTENDS Integers, Sequences, SequencesExt

CONSTANTS
    Players,        \* player ids, which the game server reuses
    People,         \* who plays: a name and a steam id
    Watched,        \* what is followed: the map and the watched console variables
    Numeric,        \* those of Watched that must parse as a number (tv_port)
    Values,         \* values of the watched items
    Garbage,        \* the values that do not parse
    None,           \* the value of an item that is not known; nobody
    MaxQueue        \* bound: signals of the game server not yet delivered

ASSUME StatusAssumption ==
    /\ Numeric \subseteq Watched
    /\ Garbage \subseteq Values
    /\ None \notin Values \cup People
    /\ MaxQueue \in Nat

VARIABLES
    state, deadline, attended,      \* the coordinator: see ServerLifecycle
    details,        \* the maximum of players and the address are known
    shown,          \* the map and console variables as last reported
    players,        \* the list of players
    playerCount,
    corrupt,        \* a player was erased who is not in the list
    connection,     \* the interface of the game server: "none", "open" or "condemned"
    heard,          \* the coordinator handles that interface's aboutToQuit
    queue,          \* the game server's signals on their way
    actual,         \* the watched items at the game server
    onServer        \* who holds an id on the game server

coordinatorVars == <<state, deadline, attended>>
shownVars  == <<details, shown>>
playerVars == <<players, playerCount, corrupt>>
gameVars   == <<actual, onServer>>
ifaceVars  == <<connection, heard>>
vars == <<coordinatorVars, shownVars, playerVars, ifaceVars, queue, gameVars>>

Coordinator == INSTANCE ServerLifecycle

Changed(w, v)   == [signal |-> "changed", item |-> w, value |-> v]
Connected(p)    == [signal |-> "playerConnected", item |-> p, value |-> None]
Disconnected(p) == [signal |-> "playerDisconnected", item |-> p, value |-> None]

Signals ==
    {Changed(w, v) : w \in Watched, v \in Values}
        \cup {Connected(p) : p \in Players} \cup {Disconnected(p) : p \in Players}

PlayerInfo(p, who) == [id |-> p, who |-> who]

TypeOK ==
    /\ details \in BOOLEAN
    /\ shown \in [Watched -> Values \cup {None}]
    /\ players \in Seq([id : Players, who : People \cup {None}])
    /\ playerCount \in Int
    /\ corrupt \in BOOLEAN
    /\ connection \in {"none", "open", "condemned"}
    /\ heard \in BOOLEAN
    /\ queue \in Seq(Signals)
    /\ actual \in [Watched -> Values]
    /\ onServer \in [Players -> People \cup {None}]

Unknown == [w \in Watched |-> None]

Init ==
    /\ Coordinator!Init
    /\ details = FALSE
    /\ shown = Unknown
    /\ players = <<>>
    /\ playerCount = 0
    /\ corrupt = FALSE
    /\ connection = "none"
    /\ heard = FALSE
    /\ queue = <<>>
    /\ actual \in [Watched -> Values]
    /\ onServer = [p \in Players |-> None]

------------------------------------------------------------------------------
(* The setters. *)

\* Mutated forms: what toInt() returns is taken; the first value stays.
UpdatedUnparsed(old, w, v) == IF w \in Numeric /\ v \in Garbage THEN 0 ELSE v

UpdatedOnce(old, w, v) == IF old = None THEN v ELSE old

(***************************************************************************)
(* A number that does not parse is only warned about.                      *)
(***************************************************************************)
Updated(old, w, v) == IF w \in Numeric /\ v \in Garbage THEN old ELSE v

clearPlayers ==
    /\ players' = <<>>
    /\ playerCount' = 0
    /\ UNCHANGED corrupt

\* Mutated form: the players survive a reset.
resetKeepsPlayers ==
    /\ details' = FALSE
    /\ shown' = Unknown
    /\ UNCHANGED playerVars

reset ==
    /\ details' = FALSE
    /\ shown' = Unknown
    /\ clearPlayers

\* Mutated form: the count is forgotten.
addPlayerUncounted(player) ==
    /\ players' = Append(players, player)
    /\ UNCHANGED <<playerCount, corrupt>>

addPlayer(player) ==
    /\ players' = Append(players, player)
    /\ playerCount' = playerCount + 1
    /\ UNCHANGED corrupt

Entries(p) == {k \in DOMAIN players : players[k].id = p}

(***************************************************************************)
(* The first entry of that id is erased.  If there is none, end() is: the  *)
(* behaviour is undefined, here the list stays and the count does not.     *)
(***************************************************************************)
removePlayer(p) ==
    /\ playerCount' = playerCount - 1
    /\ \/ \E player \in Entries(p) :
            /\ \A other \in Entries(p) : player <= other
            /\ players' = RemoveAt(players, player)
            /\ UNCHANGED corrupt
       \/ /\ Entries(p) = {}
          /\ corrupt' = TRUE
          /\ UNCHANGED players

------------------------------------------------------------------------------
(* The coordinator. *)

(***************************************************************************)
(* The changes of state that are not this connection's: among them the end *)
(* of an interface registered before it.                                   *)
(***************************************************************************)
StateChanges ==
    /\ \/ Coordinator!Launch \/ Coordinator!Refuse \/ Coordinator!RequestStop
       \/ Coordinator!Expire \/ Coordinator!End
    /\ reset
    /\ UNCHANGED <<ifaceVars, queue, gameVars>>

(***************************************************************************)
(* The server is removed, and its status with it.                          *)
(***************************************************************************)
Removed ==
    /\ Coordinator!Reset
    /\ details' = FALSE
    /\ shown' = Unknown
    /\ players' = <<>> /\ playerCount' = 0 /\ corrupt' = FALSE
    /\ connection' = "none"
    /\ heard' = FALSE
    /\ queue' = <<>>
    /\ UNCHANGED gameVars

------------------------------------------------------------------------------
(* The game server registers.  trackGameServer() is connected to           *)
(* gameServerOnline before any starter: it fetches everything, and then    *)
(* the starter lets the coordinator emit stateChanged(Running).  An item   *)
(* that changes between connecting to its signal and fetching it is        *)
(* signalled too ("early").                                                *)

Track ==
    /\ connection = "none"
    /\ connection' = "open"
    /\ \/ queue' = <<>>
       \/ \E w \in Watched : queue' = <<Changed(w, actual[w])>>
    /\ UNCHANGED gameVars

Registered ==
    /\ Track
    /\ heard' = TRUE
    /\ Coordinator!Register
    /\ reset

(***************************************************************************)
(* A game server that no starter waits for: no change of state follows.    *)
(***************************************************************************)
RegisteredUnasked ==
    /\ ~deadline
    /\ Track
    /\ heard' = FALSE
    /\ details' = TRUE
    /\ shown' = [w \in Watched |-> Updated(shown[w], w, actual[w])]
    /\ UNCHANGED <<coordinatorVars, playerVars>>

(***************************************************************************)
(* The end of the connection, reported by the game server or found by a    *)
(* ping.  A goodbye that the coordinator does not handle changes no state, *)
(* so nothing is reset.                                                    *)
(***************************************************************************)
Ends ==
    /\ Coordinator!End
    /\ reset

Goodbye ==
    /\ connection # "none"
    /\ connection' = "condemned"
    /\ IF heard THEN Ends ELSE UNCHANGED <<coordinatorVars, shownVars, playerVars>>
    /\ UNCHANGED <<heard, queue, gameVars>>

TimedOut ==
    /\ connection = "open"
    /\ connection' = "condemned"
    /\ Ends
    /\ UNCHANGED <<heard, queue, gameVars>>

(***************************************************************************)
(* The manager deletes the interface; signals not yet delivered are lost.  *)
(***************************************************************************)
IfaceDeleted ==
    /\ connection = "condemned"
    /\ connection' = "none"
    /\ heard' = FALSE
    /\ queue' = <<>>
    /\ UNCHANGED <<coordinatorVars, shownVars, playerVars, gameVars>>

------------------------------------------------------------------------------
(* Signals of the game server. *)

ItemChanged(w, v) ==
    /\ queue # <<>> /\ Head(queue) = Changed(w, v)
    /\ queue' = Tail(queue)
    /\ shown' = [shown EXCEPT ![w] = Updated(@, w, v)]
    /\ UNCHANGED <<coordinatorVars, details, playerVars, ifaceVars, gameVars>>

(***************************************************************************)
(* The name and the steam id are asked now: of a player who has left since *)
(* there is none, and another may have been given the id.                  *)
(***************************************************************************)
PlayerConnected(p) ==
    /\ queue # <<>> /\ Head(queue) = Connected(p)
    /\ queue' = Tail(queue)
    /\ addPlayer(PlayerInfo(p, onServer[p]))
    /\ UNCHANGED <<coordinatorVars, shownVars, ifaceVars, gameVars>>

PlayerDisconnected(p) ==
    /\ queue # <<>> /\ Head(queue) = Disconnected(p)
    /\ queue' = Tail(queue)
    /\ removePlayer(p)
    /\ UNCHANGED <<coordinatorVars, shownVars, ifaceVars, gameVars>>

------------------------------------------------------------------------------
(* The game server. *)

Emit(signal) ==
    /\ Len(queue) < MaxQueue
    /\ queue' = IF connection = "none" THEN queue ELSE Append(queue, signal)
    /\ UNCHANGED <<coordinatorVars, shownVars, playerVars, ifaceVars>>

ItemChanges(w, v) ==
    /\ actual' = [actual EXCEPT ![w] = v]
    /\ Emit(Changed(w, v))
    /\ UNCHANGED onServer

PlayerJoins(p, who) ==
    /\ onServer[p] = None
    /\ \A other \in Players : onServer[other] # who
    /\ onServer' = [onServer EXCEPT ![p] = who]
    /\ Emit(Connected(p))
    /\ UNCHANGED actual

PlayerLeaves(p) ==
    /\ onServer[p] # None
    /\ onServer' = [onServer EXCEPT ![p] = None]
    /\ Emit(Disconnected(p))
    /\ UNCHANGED actual

Next ==
    \/ StateChanges \/ Removed
    \/ Registered \/ RegisteredUnasked \/ Goodbye \/ TimedOut \/ IfaceDeleted
    \/ \E w \in Watched, v \in Values : ItemChanged(w, v) \/ ItemChanges(w, v)
    \/ \E p \in Players :
          \/ PlayerConnected(p) \/ PlayerDisconnected(p)
          \/ PlayerLeaves(p)
          \/ \E who \in People : PlayerJoins(p, who)

Spec == Init /\ [][Next]_vars

------------------------------------------------------------------------------
(* Properties. *)

(***************************************************************************)
(* The count published over D-Bus is the length of the published list, as  *)
(* long as only known players were erased.                                 *)
(***************************************************************************)
CountIsLength == ~corrupt => playerCount = Len(players)

(***************************************************************************)
(* On a server that the coordinator attends, a player shown is there, and  *)
(* under the right name, or the signal of the leaving of the id is on its  *)
(* way; no id is shown twice.                                              *)
(***************************************************************************)
NoGhostPlayers ==
    connection = "open" /\ heard /\ ~corrupt =>
        /\ \A info \in ToSet(players) :
              \/ info.who # None /\ onServer[info.id] = info.who
              \/ Contains(queue, Disconnected(info.id))
        /\ IsInjective([i \in 1..Len(players) |-> players[i].id])

(***************************************************************************)
(* What is shown of a connected server is unknown, current, or about to be *)
(* replaced; except a number whose last value does not parse, of which the *)
(* one before stays.                                                       *)
(***************************************************************************)
ShownIsCurrent ==
    connection = "open" =>
        \A w \in Watched :
            \/ shown[w] \in {None, actual[w]}
            \/ Contains(queue, Changed(w, actual[w]))
            \/ w \in Numeric /\ actual[w] \in Garbage

------------------------------------------------------------------------------
(* Statements of the documentation that the code does not keep. *)

(***************************************************************************)
(* "Maximum number of players. Defined by the +maxplayers argument."       *)
(* (serverstatus.h, and the value testserverstatus.cpp expects of a        *)
(* connected server): known as long as a Running server is connected.      *)
(***************************************************************************)
RunningShowsDetails == state = "Running" /\ connection = "open" => details

(***************************************************************************)
(* "List of players currently connected to this server" (serverstatus.h):  *)
(* a player who leaves is in it.                                           *)
(***************************************************************************)
LeavingPlayersAreListed == ~corrupt
==============================================================================
