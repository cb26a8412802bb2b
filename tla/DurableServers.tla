--------------------------- MODULE DurableServers ---------------------------
(***************************************************************************)
(* What the persistor promises: while the daemon serves, every change of a *)
(* server is also a change of what is stored, and the next daemon serves   *)
(* what is stored.  A name is doubtful once something was not stored:      *)
(* nothing is promised of it until it is known to be stored again.         *)
(***************************************************************************)
CONSTANTS
    Names,
    Contents,       \* what is kept of a server
    Fresh,          \* of a new one
    None            \* no server

VARIABLES
    serving,        \* initialize() is done and the process still there
    memory,         \* the servers of the process
    stored,         \* those that a restart would bring
    doubtful

vars == <<serving, memory, stored, doubtful>>

Nothing == [n \in Names |-> None]

Tables == [Names -> Contents \cup {None}]

Init ==
    /\ serving = FALSE
    /\ memory = Nothing
    /\ stored = Nothing
    /\ doubtful = {}

Restore ==
    /\ ~serving
    /\ serving' = TRUE
    /\ doubtful' \subseteq doubtful
    /\ memory' \in Tables
    /\ \A n \in Names \ doubtful' : memory'[n] = stored[n]
    /\ UNCHANGED stored

Only(n) ==
    /\ \A m \in Names \ {n} : memory'[m] = memory[m] /\ stored'[m] = stored[m]
    /\ {memory'[n], stored'[n]} \subseteq Contents \cup {None}

(***************************************************************************)
(* A server is added, changed or removed, and so it is stored; with it what*)
(* was in doubt of others may come to be stored.                           *)
(***************************************************************************)
Change(n) ==
    /\ serving /\ serving'
    /\ doubtful' \subseteq doubtful
    /\ {memory', stored'} \subseteq Tables
    /\ \A m \in Names \ {n} : memory'[m] = memory[m]
    /\ \A m \in Names \ (doubtful \cup {n}) : stored'[m] = stored[m]
    /\ \A m \in (doubtful \cup {n}) \ doubtful' : stored'[m] = memory'[m]

(***************************************************************************)
(* A server changes, and that may be stored or not.                        *)
(***************************************************************************)
Fail(n) ==
    /\ doubtful' = doubtful \cup {n}
    /\ UNCHANGED serving
    /\ Only(n)

End ==
    /\ serving
    /\ serving' = FALSE
    /\ memory' = Nothing
    /\ UNCHANGED <<stored, doubtful>>

(***************************************************************************)
(* The end finds a removal half done: the server loses what was kept of it,*)
(* but comes back.                                                         *)
(***************************************************************************)
Interrupted(n) ==
    /\ serving
    /\ memory[n] # None
    /\ serving' = FALSE
    /\ memory' = Nothing
    /\ stored' = [stored EXCEPT ![n] = IF @ = None THEN None ELSE Fresh]
    /\ UNCHANGED doubtful

Next ==
    \/ Restore
    \/ End
    \/ \E n \in Names : Change(n) \/ Fail(n) \/ Interrupted(n)

Spec == Init /\ [][Next]_vars

(***************************************************************************)
(* An end at any moment but within a removal loses nothing.                *)
(***************************************************************************)
Promise == serving => \A n \in Names \ doubtful : memory[n] = stored[n]
==============================================================================
