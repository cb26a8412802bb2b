------------------------------ MODULE Persistor ------------------------------
(***************************************************************************)
(* The persistor: servers and their configurations, in memory and in the   *)
(* SQLite database, across restarts of the daemon.                         *)
(*                                                                         *)
(* A handler runs to its end, but each statement outside a transaction is  *)
(* committed by itself and may fail; failures are only logged.  A COMMIT   *)
(* that fails, as it does while another process reads the database, leaves *)
(* its transaction open: nobody looks at its result, and every statement   *)
(* after it is part of that transaction, until another COMMIT succeeds or a*)
(* ROLLBACK or the end of the process takes them all back.  The process    *)
(* may end at any moment and is started again.  A row of "servers" is kept *)
(* together with the value the last of its entries gives each key, which is*)
(* the one a restore ends with: entries are only ever appended (the SQLite *)
(* driver reports no size(), so UPDATE is never reached), and entries of no*)
(* row are never read.  Rows of different names have nothing to do with    *)
(* each other: the table is kept name by name.                             *)
(***************************************************************************)
EXTENDS Naturals, Sequences

CONSTANTS
    Names,          \* server names
    Keys,           \* configuration keys
    Defaulted,      \* the keys every server has a default for
    Values,         \* configuration values
    Default,
    Numerals,       \* the values that spell a number, but not as SQLite writes it
    Number,         \* how SQLite writes that number
    None,           \* no value, no server
    MaxRows         \* bound: rows of one name

ASSUME PersistorAssumption ==
    /\ Defaulted \subseteq Keys
    /\ Numerals \subseteq Values
    /\ {Default, Number} \subseteq Values \ Numerals
    /\ None \notin Values \cup [Keys -> Values \cup {None}]
    /\ MaxRows \in Nat

VARIABLES
    phase,          \* "down"; "booting": on the bus, initialize() still to run; "up"
    configuration,  \* the configuration of the managed server of a name, or None
    linked,         \* managed servers whose changes the persistor stores
    hidden,         \* managed servers that are not on the bus: the path was taken
    leaving,        \* removed servers, still alive and on the bus
    leavingLinked,  \* those whose changes are stored
    rows,           \* the rows of a name as the process reads them, in the order of insertion
    committed,      \* those that the database keeps
    unsaved,        \* the names written in the transaction left open; {} if there is none
    doubtful        \* names whose rows need not agree with the memory

busVars == <<hidden, leaving, leavingLinked>>
databaseVars == <<rows, committed, unsaved>>
vars == <<phase, configuration, linked, busVars, databaseVars, doubtful>>

Configurations == [Keys -> Values \cup {None}]

TypeOK ==
    /\ phase \in {"down", "booting", "up"}
    /\ configuration \in [Names -> Configurations \cup {None}]
    /\ linked \subseteq Names
    /\ hidden \subseteq Names
    /\ leaving \subseteq Names
    /\ leavingLinked \subseteq leaving
    /\ rows \in [Names -> Seq(Configurations)]
    /\ committed \in [Names -> Seq(Configurations)]
    /\ unsaved \subseteq Names
    /\ doubtful \subseteq Names

Managed == {n \in Names : configuration[n] # None}

Init ==
    /\ phase = "down"
    /\ configuration = [n \in Names |-> None]
    /\ linked = {} /\ hidden = {} /\ leaving = {} /\ leavingLinked = {}
    /\ rows = [n \in Names |-> <<>>]
    /\ committed = rows
    /\ unsaved = {}
    /\ doubtful = {}

------------------------------------------------------------------------------
(* The columns of the database. *)

\* Mutated form: what converting the text to an integer returns.
ColumnParsed(v) == IF v \in Numerals THEN 0 ELSE v

(***************************************************************************)
(* What a column declared "string" makes of a value: the type has numeric  *)
(* affinity.                                                               *)
(***************************************************************************)
Column(v) == IF v \in Numerals THEN Number ELSE v

Defaults == [k \in Keys |-> IF k \in Defaulted THEN Default ELSE None]

NoEntries == [k \in Keys |-> None]

(***************************************************************************)
(* A server is created with the defaults; its entries replace them.        *)
(***************************************************************************)
Restored(values) ==
    [k \in Keys |-> IF values[k] = None THEN Defaults[k] ELSE values[k]]

Stored(config) ==
    [k \in Keys |-> IF config[k] = None THEN None ELSE Column(config[k])]

------------------------------------------------------------------------------
(* Statements and transactions. *)

(***************************************************************************)
(* Statements about one name: their effect is committed at once, unless a  *)
(* transaction is open.                                                    *)
(***************************************************************************)
Write(n, table) ==
    /\ rows' = table
    /\ \/ unsaved = {} /\ committed' = table /\ UNCHANGED unsaved
       \/ unsaved # {} /\ unsaved' = unsaved \cup {n} /\ UNCHANGED committed

LeaveOpen(n, table) ==
    /\ rows' = table
    /\ unsaved' = unsaved \cup {n}
    /\ UNCHANGED committed

Commit(n, table) ==
    /\ rows' = table
    /\ committed' = table
    /\ unsaved' = {}

(***************************************************************************)
(* Of a name it took back, the database no longer says what memory does.   *)
(***************************************************************************)
Rollback(failed) ==
    /\ rows' = committed
    /\ unsaved' = {}
    /\ doubtful' = doubtful \cup unsaved \cup failed
    /\ UNCHANGED committed

(***************************************************************************)
(* A statement about a name fails; SQLite answers some errors with a       *)
(* rollback of its own.                                                    *)
(***************************************************************************)
Fails(n) ==
    \/ doubtful' = doubtful \cup {n} /\ UNCHANGED databaseVars
    \/ Rollback({n})

(***************************************************************************)
(* storeConfigurationEntry(): the entry goes to the first row of that name.*)
(***************************************************************************)
StoreEntry(n, k, v) ==
    /\ rows[n] # <<>>
    /\ Write(n, [rows EXCEPT ![n][1][k] = Column(v)])

------------------------------------------------------------------------------
(* The process. *)

Boot ==
    /\ phase = "down"
    /\ phase' = "booting"
    /\ UNCHANGED <<configuration, linked, busVars, databaseVars, doubtful>>

(***************************************************************************)
(* The process ends: a crash, a signal, or restoreServers() itself.        *)
(***************************************************************************)
Memoryless ==
    /\ phase' = "down"
    /\ configuration' = [n \in Names |-> None]
    /\ linked' = {} /\ hidden' = {} /\ leaving' = {} /\ leavingLinked' = {}

Die ==
    /\ phase # "down"
    /\ Memoryless
    /\ Rollback({})

(***************************************************************************)
(* add() refuses a name that is taken and returns a null pointer, which    *)
(* restoreServers() follows.                                               *)
(***************************************************************************)
Restorable ==
    \A n \in Names : Len(rows[n]) <= IF n \in Managed THEN 0 ELSE 1

\* Mutated form: the changes of restored servers are not followed.
InitializeUnlinked ==
    /\ phase = "booting" /\ Restorable
    /\ phase' = "up"
    /\ configuration' =
           [n \in Names |-> IF rows[n] = <<>> THEN configuration[n]
                                              ELSE Restored(rows[n][1])]
    /\ doubtful' = Managed
    /\ UNCHANGED <<linked, busVars, databaseVars>>

(***************************************************************************)
(* initialize(): every row becomes a managed server; from now on additions,*)
(* removals and changes are stored.  Servers that were added before are    *)
(* not.                                                                    *)
(***************************************************************************)
Initialize ==
    /\ phase = "booting"
    /\ Restorable
    /\ phase' = "up"
    /\ configuration' =
           [n \in Names |-> IF rows[n] = <<>> THEN configuration[n]
                                              ELSE Restored(rows[n][1])]
    /\ linked' = {n \in Names : rows[n] # <<>>}
    /\ hidden' = hidden \cup (linked' \cap leaving)
    /\ doubtful' = Managed
    /\ UNCHANGED <<leaving, leavingLinked, databaseVars>>

InitializeCrashes ==
    /\ phase = "booting"
    /\ ~Restorable
    /\ Memoryless
    /\ Rollback({})

------------------------------------------------------------------------------
(* Servers and their configurations. *)

Inserted(n, entries) == [rows EXCEPT ![n] = Append(@, entries)]

\* What is left of a new server's entries when one could not be inserted.
Partial ==
    {[k \in Keys |-> IF k \in done THEN Stored(Defaults)[k] ELSE None] :
        done \in SUBSET Defaulted \ {Defaulted}}

(***************************************************************************)
(* storeServer(): the server is followed unless a statement fails, which   *)
(* makes it roll back.  Neither the result of transaction() nor those of   *)
(* rollback() and commit() are looked at: BEGIN fails while a transaction  *)
(* is open, and where it fails without one there is nothing to roll back.  *)
(***************************************************************************)
StoreServer(n) ==
    \/ /\ Len(rows[n]) < MaxRows
       /\ linked' = linked \cup {n}
       /\ \/ /\ Commit(n, Inserted(n, Stored(Defaults)))
             /\ UNCHANGED doubtful
          \/ /\ LeaveOpen(n, Inserted(n, Stored(Defaults)))
             /\ doubtful' = doubtful \cup {n}
    \/ /\ linked' \in {linked, linked \cup {n}}
       /\ Rollback({n})
    \/ /\ Len(rows[n]) < MaxRows
       /\ \E table \in {rows} \cup {Inserted(n, entries) : entries \in Partial} :
             Write(n, table) \/ LeaveOpen(n, table)
       /\ doubtful' = doubtful \cup {n}
       /\ UNCHANGED linked

Add(n) ==
    /\ phase # "down"
    /\ n \notin Managed
    /\ configuration' = [configuration EXCEPT ![n] = Defaults]
    /\ hidden' = hidden \cup ({n} \cap leaving)
    /\ \/ phase = "up" /\ StoreServer(n)
       \/ /\ phase = "booting"
          /\ doubtful' = doubtful \cup {n}
          /\ UNCHANGED <<linked, databaseVars>>
    /\ UNCHANGED <<phase, leaving, leavingLinked>>

(***************************************************************************)
(* setValue() of a server on the bus.                                      *)
(***************************************************************************)
SetValue(n, k, v) ==
    /\ n \in Managed \ hidden
    /\ configuration[n][k] # v
    /\ configuration' = [configuration EXCEPT ![n][k] = v]
    /\ \/ /\ n \in linked
          /\ StoreEntry(n, k, v)
          /\ UNCHANGED doubtful
       \/ n \in linked /\ Fails(n)
       \/ n \notin linked /\ UNCHANGED <<databaseVars, doubtful>>
    /\ UNCHANGED <<phase, linked, busVars>>

(***************************************************************************)
(* setValue() of a removed server that is still on the bus: the entry goes *)
(* to the row of the server that has taken the name since.                 *)
(***************************************************************************)
SetValueLate(n, k, v) ==
    /\ n \in leavingLinked
    /\ StoreEntry(n, k, v)
    /\ doubtful' = doubtful \cup {n}
    /\ UNCHANGED <<phase, configuration, linked, busVars>>

(***************************************************************************)
(* A statement fails that is about no managed server: storePluginState()'s,*)
(* or that of SetValueLate.  SQLite may roll back what was left open.      *)
(***************************************************************************)
OtherStatementFails ==
    /\ unsaved # {}
    /\ Rollback({})
    /\ UNCHANGED <<phase, configuration, linked, busVars>>

Unmanage(n) ==
    /\ n \in Managed
    /\ configuration' = [configuration EXCEPT ![n] = None]
    /\ linked' = linked \ {n}
    /\ hidden' = hidden \ {n}
    /\ leaving' = leaving \cup ({n} \ hidden)
    /\ leavingLinked' = leavingLinked \cup (({n} \cap linked) \ hidden)

\* Mutated form: the statement has no condition on the server.
EntriesDeletedOfAll(n) ==
    [m \in Names |-> [j \in DOMAIN rows[m] |-> NoEntries]]

EntriesDeleted(n) ==
    [rows EXCEPT ![n] = [j \in DOMAIN rows[n] |-> NoEntries]]

\* Mutated form: the row of the server stays.
RemoveEntriesOnly(n) ==
    /\ phase # "down"
    /\ Unmanage(n)
    /\ Write(n, EntriesDeleted(n))
    /\ UNCHANGED <<phase, doubtful>>

RowsDeleted(n, table) == [table EXCEPT ![n] = <<>>]

(***************************************************************************)
(* remove(): deleteServer() deletes the entries, then the rows, even if the*)
(* first failed and took back the transaction left open.  It is not called *)
(* before initialize().                                                    *)
(***************************************************************************)
Remove(n) ==
    /\ phase # "down"
    /\ Unmanage(n)
    /\ \/ /\ phase = "up"
          /\ Write(n, RowsDeleted(n, rows))
          /\ doubtful' = doubtful \ {n}
       \/ /\ phase = "up"
          /\ Write(n, EntriesDeleted(n))
          /\ doubtful' = doubtful \cup {n}
       \/ phase = "up" /\ Fails(n)
       \/ /\ phase = "up"
          /\ Commit(n, RowsDeleted(n, committed))
          /\ doubtful' = (doubtful \cup unsaved) \ {n}
       \/ phase = "booting" /\ UNCHANGED <<databaseVars, doubtful>>
    /\ UNCHANGED phase

(***************************************************************************)
(* The process ends between the two DELETE statements.                     *)
(***************************************************************************)
RemoveInterrupted(n) ==
    /\ phase = "up"
    /\ n \in Managed
    /\ unsaved = {}
    /\ Write(n, EntriesDeleted(n))
    /\ Memoryless
    /\ UNCHANGED doubtful

ServerDeleted(n) ==
    /\ n \in leaving
    /\ leaving' = leaving \ {n}
    /\ leavingLinked' = leavingLinked \ {n}
    /\ UNCHANGED <<phase, configuration, linked, hidden, databaseVars, doubtful>>

Next ==
    \/ Boot \/ Die \/ Initialize \/ InitializeCrashes \/ OtherStatementFails
    \/ \E n \in Names :
          \/ Add(n) \/ Remove(n) \/ RemoveInterrupted(n) \/ ServerDeleted(n)
          \/ \E k \in Keys, v \in Values : SetValue(n, k, v) \/ SetValueLate(n, k, v)

Spec == Init /\ [][Next]_vars

------------------------------------------------------------------------------
(* Properties. *)

(***************************************************************************)
(* A daemon that ends between two handlers restores what it had: the       *)
(* managed servers, no server that was removed, and the configurations, as *)
(* the columns hold them.  Excepted are the names of which a statement     *)
(* failed, that were written in a transaction that was left open and has   *)
(* not been committed since, that were added before initialize(), or whose *)
(* row a removed server of the same name still wrote to.  (For an end      *)
(* within a removal, see KeepsStore.)                                      *)
(***************************************************************************)
RestartKeepsServers ==
    phase = "up" =>
        \A n \in Names \ (doubtful \cup unsaved) :
            /\ n \in Managed <=> committed[n] # <<>>
            /\ \A j \in DOMAIN committed[n] :
                  Restored(committed[n][j]) = Stored(configuration[n])

(***************************************************************************)
(* No second row is inserted for a name, though storeServer()'s own check  *)
(* for one never succeeds: the deletion before has removed the first, if it*)
(* did not fail and was not rolled back with a transaction left open.      *)
(***************************************************************************)
OneRowPerServer == \A n \in Names \ doubtful : Len(rows[n]) <= 1

(***************************************************************************)
(* What a restart makes of the first row of a name.                        *)
(***************************************************************************)
Restart(table) == IF table = <<>> THEN None ELSE Restored(table[1])

Kept(n) ==
    IF phase = "up" /\ n \in Managed THEN Stored(configuration[n]) ELSE None

Store == INSTANCE DurableServers WITH
    Contents <- Configurations,
    Fresh <- Defaults,
    serving <- phase = "up",
    memory <- [n \in Names |-> Kept(n)],
    stored <- [n \in Names |-> Restart(committed[n])],
    doubtful <- doubtful \cup unsaved

(***************************************************************************)
(* Persistor, the database and what happens before initialize() are a store*)
(* of servers that survives the process.  An end in the middle of a removal*)
(* resets that server and no other one; what is stored of a name is changed*)
(* by its own server only, or by the commit of what that one wrote in a    *)
(* transaction left open; and no failure puts a name in doubt that was not *)
(* written since the last commit.                                          *)
(***************************************************************************)
KeepsStore == Store!Spec

------------------------------------------------------------------------------
(* Statements of the documentation that the code does not keep. *)

(***************************************************************************)
(* "Responsible for storing all servers and their configs" (persistor.h):  *)
(* a restored configuration is the one that was stored.                    *)
(***************************************************************************)
ConfigurationIsKept ==
    phase = "up" =>
        \A n \in linked \ (doubtful \cup unsaved) : \A j \in DOMAIN committed[n] :
            Restored(committed[n][j]) = configuration[n]

(***************************************************************************)
(* The same sentence, of a server every statement about which succeeded:   *)
(* the database has it as it is, whatever failed of another.               *)
(***************************************************************************)
ChangesAreStored ==
    phase = "up" =>
        \A n \in Managed \ doubtful :
            /\ committed[n] # <<>>
            /\ \A j \in DOMAIN committed[n] :
                  Restored(committed[n][j]) = Stored(configuration[n])
==============================================================================
