--------------------------- MODULE PersistorProofs ---------------------------
(***************************************************************************)
(* Proofs about the persistor, for any names, keys and values.             *)
(***************************************************************************)
EXTENDS Persistor, SequenceTheorems, TLAPS

------------------------------------------------------------------------------
(* The columns. *)

(***************************************************************************)
(* What a column holds, it keeps: a value read back and stored again is the*)
(* same one.                                                               *)
(***************************************************************************)
Columns == [Keys -> (Values \ Numerals) \cup {None}]

(***************************************************************************)
(* What a column holds is a value, and no numeral that SQLite rewrites.    *)
(***************************************************************************)
LEMMA ColumnKept ==
    ASSUME NEW v \in Values
    PROVE  Column(v) \in Values \ Numerals /\ Column(v) # None
  BY PersistorAssumption DEF Column

(***************************************************************************)
(* Stored a second time, a value stays as it is.                           *)
(***************************************************************************)
LEMMA ColumnOfColumn ==
    ASSUME NEW v \in Values \ Numerals
    PROVE  Column(v) = v
  BY DEF Column

LEMMA DefaultsType == Defaults \in Columns /\ Defaults \in Configurations
  BY PersistorAssumption DEF Defaults, Columns, Configurations

LEMMA NoEntriesType == NoEntries \in Columns /\ NoEntries \in Configurations
  BY DEF NoEntries, Columns, Configurations

(***************************************************************************)
(* What storeServer() inserts is what columns can hold.                    *)
(***************************************************************************)
LEMMA StoredType ==
    ASSUME NEW config \in Configurations
    PROVE  Stored(config) \in Columns /\ Stored(config) \in Configurations
  <1>1. \A k \in Keys : config[k] # None => Column(config[k]) \in Values \ Numerals
    BY ColumnKept DEF Configurations
  <1> QED
    BY <1>1 DEF Stored, Columns, Configurations

(***************************************************************************)
(* Reading it back adds defaults, which columns hold unchanged.            *)
(***************************************************************************)
LEMMA RestoredType ==
    ASSUME NEW values \in Columns
    PROVE  Restored(values) \in Columns /\ Restored(values) \in Configurations
  BY DefaultsType DEF Restored, Columns, Configurations

(***************************************************************************)
(* A configuration that was restored is stored as it is.                   *)
(***************************************************************************)
LEMMA StoredOfColumns ==
    ASSUME NEW values \in Columns
    PROVE  Stored(values) = values
  <1>1. \A k \in Keys : values[k] # None => Column(values[k]) = values[k]
    BY ColumnOfColumn DEF Columns
  <1> QED
    BY <1>1 DEF Stored, Columns

(***************************************************************************)
(* A new server's row restores to its configuration, as the columns hold   *)
(* it.                                                                     *)
(***************************************************************************)
LEMMA RestoredDefaults == Restored(Stored(Defaults)) = Stored(Defaults)
  <1>1. Stored(Defaults) = Defaults
    BY DefaultsType, StoredOfColumns
  <1>2. Restored(Defaults) = Defaults
    BY DEF Restored, Defaults
  <1> QED
    BY <1>1, <1>2

(***************************************************************************)
(* A stored entry keeps row and configuration in agreement.                *)
(***************************************************************************)
LEMMA EntryAgrees ==
    ASSUME NEW values \in Columns, NEW config \in Configurations,
           Restored(values) = Stored(config), NEW k \in Keys, NEW v \in Values
    PROVE  Restored([values EXCEPT ![k] = Column(v)]) = Stored([config EXCEPT ![k] = v])
  <1> DEFINE row == [values EXCEPT ![k] = Column(v)]
             new == [config EXCEPT ![k] = v]
  <1>1. /\ row[k] = Column(v) /\ new[k] = v
        /\ \A other \in Keys : other # k => row[other] = values[other]
                                            /\ new[other] = config[other]
    BY DEF Columns, Configurations
  <1>2. Column(v) # None /\ v # None
    BY ColumnKept, PersistorAssumption
  <1> HIDE DEF row, new
  <1>3. ASSUME NEW other \in Keys
        PROVE  Restored(row)[other] = Stored(new)[other]
    <2>1. CASE other = k
      BY <1>1, <1>2, <2>1 DEF Restored, Stored
    <2>2. CASE other # k
      <3>1. Restored(row)[other] = Restored(values)[other]
        BY <1>1, <2>2 DEF Restored
      <3>2. Stored(new)[other] = Stored(config)[other]
        BY <1>1, <2>2 DEF Stored
      <3> QED
        BY <3>1, <3>2
    <2> QED
      BY <2>1, <2>2
  <1>4. Restored(row) = Stored(new)
    BY <1>3 DEF Restored, Stored
  <1> QED
    BY <1>4 DEF row, new

------------------------------------------------------------------------------
(* The inductive invariant. *)

(***************************************************************************)
(* The rows of one name, in the terms of the invariant.                    *)
(***************************************************************************)
Agrees(config, table) ==
    /\ config # None <=> table # <<>>
    /\ \A j \in DOMAIN table : Restored(table[j]) = Stored(config)

(***************************************************************************)
(* The table holds values as columns do; only names written in the         *)
(* transaction left open differ from what is committed, and there is none  *)
(* but while the process serves; memory and the table it reads agree; and  *)
(* a server whose changes are not stored is one the agreement does not     *)
(* speak of.                                                               *)
(***************************************************************************)
RowsAreColumns ==
    \A n \in Names : rows[n] \in Seq(Columns) /\ committed[n] \in Seq(Columns)

Settled == \A n \in Names \ unsaved : committed[n] = rows[n]

OpenWhileUp == unsaved # {} => phase = "up"

ManagedIsFollowed == phase = "up" => Managed \subseteq linked \cup doubtful

RowsAgree ==
    phase = "up" => \A n \in Names \ doubtful : Agrees(configuration[n], rows[n])

PInv ==
    /\ TypeOK
    /\ RowsAreColumns
    /\ Settled
    /\ OpenWhileUp
    /\ ManagedIsFollowed
    /\ RowsAgree
    /\ OneRowPerServer

LEMMA InitInv == Init => PInv
  <1> SUFFICES ASSUME Init PROVE PInv
    OBVIOUS
  <1>1. /\ phase = "down" /\ configuration = [n \in Names |-> None]
        /\ linked = {} /\ hidden = {} /\ leaving = {} /\ leavingLinked = {}
        /\ rows = [n \in Names |-> <<>>] /\ committed = rows
        /\ unsaved = {} /\ doubtful = {}
    BY DEF Init
  <1>2. <<>> \in Seq(Configurations) /\ <<>> \in Seq(Columns) /\ Len(<<>>) = 0
    BY EmptySeq
  <1>3. TypeOK
    BY <1>1, <1>2 DEF TypeOK
  <1>4. RowsAreColumns /\ OneRowPerServer
    BY <1>1, <1>2 DEF RowsAreColumns, OneRowPerServer
  <1>5. Settled /\ OpenWhileUp /\ ManagedIsFollowed /\ RowsAgree
    BY <1>1 DEF Settled, OpenWhileUp, ManagedIsFollowed, RowsAgree
  <1> QED
    BY <1>3, <1>4, <1>5 DEF PInv

(***************************************************************************)
(* The database keeps what memory has, of the names that are settled.      *)
(***************************************************************************)
LEMMA InvKeeps == PInv => RestartKeepsServers
  BY DEF PInv, RowsAgree, Settled, RestartKeepsServers, Agrees, Managed

(***************************************************************************)
(* A name without a server and without a row agrees.                       *)
(***************************************************************************)
LEMMA NoRows == ASSUME NEW table, table = <<>> PROVE Agrees(None, table)
  BY EmptySeq DEF Agrees

(***************************************************************************)
(* A table that a statement wrote to is a table still.                     *)
(***************************************************************************)
LEMMA RowsType ==
    ASSUME NEW table \in Seq(Columns)
    PROVE  table \in Seq(Configurations)
  <1>1. Columns \subseteq Configurations
    BY DEF Columns, Configurations
  <1> QED
    BY <1>1

(***************************************************************************)
(* Deleting the entries of a server leaves its rows in their number.       *)
(***************************************************************************)
LEMMA Cleared ==
    ASSUME NEW table \in Seq(Columns)
    PROVE  LET cleared == [j \in DOMAIN table |-> NoEntries]
           IN  cleared \in Seq(Columns) /\ Len(cleared) = Len(table)
  <1>1. DOMAIN table = 1..Len(table) /\ Len(table) \in Nat
    BY LenProperties
  <1> QED
    BY <1>1, NoEntriesType

(***************************************************************************)
(* storeConfigurationEntry() changes one entry of the first row.           *)
(***************************************************************************)
LEMMA Written ==
    ASSUME NEW table \in Seq(Columns), table # <<>>, NEW k \in Keys, NEW v \in Values
    PROVE  LET written == [table EXCEPT ![1][k] = Column(v)]
           IN  /\ written \in Seq(Columns) /\ Len(written) = Len(table)
               /\ DOMAIN written = DOMAIN table
               /\ table[1] \in Columns
               /\ written[1] = [table[1] EXCEPT ![k] = Column(v)]
  <1>1. DOMAIN table = 1..Len(table) /\ Len(table) \in Nat \ {0}
    BY LenProperties, EmptySeq
  <1>2. table[1] \in Columns
    BY <1>1, ElementOfSeq
  <1>3. [table[1] EXCEPT ![k] = Column(v)] \in Columns
    BY <1>2, ColumnKept DEF Columns
  <1> QED
    BY <1>1, <1>2, <1>3

------------------------------------------------------------------------------
(* Statements and transactions. *)

(***************************************************************************)
(* What a handler does to one name leaves a table of columns.              *)
(***************************************************************************)
TableOf(n, table) ==
    /\ table \in [Names -> Seq(Configurations)]
    /\ \A m \in Names : table[m] \in Seq(Columns)
    /\ \A m \in Names : m # n => table[m] = rows[m]

LEMMA OneTable ==
    ASSUME PInv, NEW n \in Names, NEW ofName \in Seq(Columns)
    PROVE  /\ TableOf(n, [rows EXCEPT ![n] = ofName])
           /\ [rows EXCEPT ![n] = ofName][n] = ofName
  <1>1. /\ rows \in [Names -> Seq(Configurations)]
        /\ \A m \in Names : rows[m] \in Seq(Columns)
    BY DEF PInv, TypeOK, RowsAreColumns
  <1>2. ofName \in Seq(Configurations)
    BY RowsType
  <1> QED
    BY <1>1, <1>2 DEF TableOf

(***************************************************************************)
(* What the table and the transaction are after a statement.               *)
(***************************************************************************)
DatabaseOK ==
    /\ rows \in [Names -> Seq(Configurations)]
    /\ committed \in [Names -> Seq(Configurations)]
    /\ unsaved \subseteq Names
    /\ RowsAreColumns
    /\ Settled

LEMMA DatabaseIsOK == PInv => DatabaseOK
  BY DEF PInv, TypeOK, DatabaseOK

LEMMA Wrote ==
    ASSUME PInv, NEW n \in Names, NEW table, TableOf(n, table),
           Write(n, table) \/ LeaveOpen(n, table) \/ Commit(n, table)
    PROVE  rows' = table /\ DatabaseOK'
  <1>1. DatabaseOK
    BY DatabaseIsOK
  <1>2. rows' = table
    BY DEF Write, LeaveOpen, Commit
  <1>3. CASE committed' = table /\ (unsaved' = {} \/ unsaved' = unsaved)
    BY <1>1, <1>2, <1>3 DEF DatabaseOK, TableOf, RowsAreColumns, Settled
  <1>4. CASE committed' = committed /\ unsaved' = unsaved \cup {n}
    BY <1>1, <1>2, <1>4 DEF DatabaseOK, TableOf, RowsAreColumns, Settled
  <1> QED
    BY <1>2, <1>3, <1>4 DEF Write, LeaveOpen, Commit

(***************************************************************************)
(* A rollback touches no name but those it makes doubtful.                 *)
(***************************************************************************)
LEMMA RolledBack ==
    ASSUME PInv, NEW failed \in SUBSET Names, Rollback(failed)
    PROVE  /\ DatabaseOK' /\ unsaved' = {} /\ doubtful' \subseteq Names
           /\ doubtful \cup failed \subseteq doubtful'
           /\ \A m \in Names \ doubtful' : rows'[m] = rows[m]
  <1>1. DatabaseOK /\ doubtful \subseteq Names
    BY DatabaseIsOK DEF PInv, TypeOK
  <1>2. /\ rows' = committed /\ committed' = committed /\ unsaved' = {}
        /\ doubtful' = doubtful \cup unsaved \cup failed
    BY DEF Rollback
  <1>3. DatabaseOK'
    BY <1>1, <1>2 DEF DatabaseOK, RowsAreColumns, Settled
  <1>4. \A m \in Names \ doubtful' : rows'[m] = rows[m]
    BY <1>1, <1>2 DEF DatabaseOK, Settled
  <1> QED
    BY <1>1, <1>2, <1>3, <1>4 DEF DatabaseOK

(***************************************************************************)
(* A statement that fails leaves the table as it is, or rolls it back.     *)
(***************************************************************************)
LEMMA Failed ==
    ASSUME PInv, NEW n \in Names, Fails(n)
    PROVE  /\ DatabaseOK' /\ unsaved' \subseteq unsaved /\ doubtful' \subseteq Names
           /\ doubtful \cup {n} \subseteq doubtful'
           /\ \A m \in Names \ doubtful' : rows'[m] = rows[m]
  <1>1. CASE Rollback({n})
    BY <1>1, RolledBack
  <1>2. CASE doubtful' = doubtful \cup {n} /\ UNCHANGED databaseVars
    <2>1. DatabaseOK /\ doubtful \subseteq Names
      BY DatabaseIsOK DEF PInv, TypeOK
    <2> QED
      BY <1>2, <2>1 DEF DatabaseOK, RowsAreColumns, Settled, databaseVars
  <1> QED
    BY <1>1, <1>2 DEF Fails

------------------------------------------------------------------------------
(* The steps. *)

(***************************************************************************)
(* A handler that touches one name, given what becomes of that name: of the*)
(* others it may only make some doubtful.                                  *)
(***************************************************************************)
LEMMA OneName ==
    ASSUME PInv, TypeOK', DatabaseOK', NEW n \in Names, phase' = phase,
           unsaved' = {} \/ unsaved' \subseteq unsaved \/ phase = "up",
           doubtful \subseteq doubtful' \cup {n},
           \A m \in Names : m # n => /\ configuration'[m] = configuration[m]
                                     /\ m \in linked' <=> m \in linked,
           \A m \in Names \ doubtful' : m # n => rows'[m] = rows[m],
           n \in doubtful' \/ Len(rows'[n]) <= 1,
           phase = "up" => \/ n \in doubtful'
                           \/ /\ Agrees(configuration'[n], rows'[n])
                              /\ configuration'[n] = None \/ n \in linked'
    PROVE  PInv'
  <1>1. RowsAreColumns' /\ Settled'
    BY DEF DatabaseOK
  <1>2. OpenWhileUp'
    BY DEF PInv, OpenWhileUp
  <1>3. OneRowPerServer'
    BY DEF PInv, OneRowPerServer
  <1>4. ManagedIsFollowed'
    BY DEF PInv, ManagedIsFollowed, Managed
  <1>5. RowsAgree'
    <2>1. phase = "up" => \A m \in Names \ doubtful' : Agrees(configuration'[m], rows'[m])
      BY DEF PInv, RowsAgree
    <2> QED
      BY <2>1 DEF RowsAgree, Agrees, Restored, Stored, Defaults
  <1> QED
    BY <1>1, <1>2, <1>3, <1>4, <1>5 DEF PInv

(***************************************************************************)
(* Before the process serves, and after it, the invariant is about the     *)
(* database alone.                                                         *)
(***************************************************************************)
LEMMA NotServing ==
    ASSUME TypeOK', DatabaseOK', OneRowPerServer', phase' # "up", unsaved' = {}
    PROVE  PInv'
  BY DEF PInv, DatabaseOK, OpenWhileUp, ManagedIsFollowed, RowsAgree

LEMMA EndStep ==
    ASSUME PInv, Memoryless, DatabaseOK', unsaved' = {}, doubtful' \subseteq Names,
           \A n \in Names \ doubtful' : n \notin doubtful /\ Len(rows'[n]) = Len(rows[n])
    PROVE  PInv'
  <1>1. /\ phase' = "down" /\ configuration' = [n \in Names |-> None]
        /\ linked' = {} /\ hidden' = {} /\ leaving' = {} /\ leavingLinked' = {}
    BY DEF Memoryless
  <1>2. TypeOK'
    <2>1. configuration' \in [Names -> Configurations \cup {None}]
      BY <1>1
    <2> QED
      BY <1>1, <2>1 DEF DatabaseOK, TypeOK
  <1>3. OneRowPerServer'
    BY DEF PInv, OneRowPerServer
  <1> QED
    BY <1>1, <1>2, <1>3, NotServing

LEMMA InitializeStep ==
    ASSUME PInv, Initialize
    PROVE  PInv'
  <1>1. TypeOK /\ RowsAreColumns
    BY DEF PInv
  <1>2. /\ Restorable /\ phase' = "up"
        /\ configuration' = [n \in Names |-> IF rows[n] = <<>> THEN configuration[n]
                                                               ELSE Restored(rows[n][1])]
        /\ linked' = {n \in Names : rows[n] # <<>>}
        /\ hidden' = hidden \cup (linked' \cap leaving)
        /\ doubtful' = Managed
        /\ UNCHANGED <<leaving, leavingLinked, rows, committed, unsaved>>
        /\ unsaved = {}
    BY DEF Initialize, databaseVars, PInv, OpenWhileUp
  <1>3. ASSUME NEW n \in Names, rows[n] # <<>>
        PROVE  /\ Len(rows[n]) = 1 /\ DOMAIN rows[n] = {1}
               /\ rows[n][1] \in Columns /\ n \notin Managed
    <2>1. rows[n] \in Seq(Columns) /\ Len(rows[n]) \in Nat \ {0}
      BY <1>1, <1>3, EmptySeq DEF RowsAreColumns
    <2>2. Len(rows[n]) <= IF n \in Managed THEN 0 ELSE 1
      BY <1>2 DEF Restorable
    <2>3. Len(rows[n]) = 1 /\ n \notin Managed
      <3>1. CASE n \in Managed
        BY <2>1, <2>2, <3>1
      <3>2. CASE n \notin Managed
        <4>1. Len(rows[n]) <= 1
          BY <2>2, <3>2, Zenon
        <4>2. \A i \in Nat \ {0} : i <= 1 => i = 1
          OBVIOUS
        <4> QED
          BY <2>1, <3>2, <4>1, <4>2, Zenon
      <3> QED
        BY <3>1, <3>2
    <2>4. DOMAIN rows[n] = 1..1
      BY <2>1, <2>3, LenProperties
    <2> QED
      BY <2>1, <2>3, <2>4, ElementOfSeq
  <1>4. TypeOK'
    <2>1. configuration' \in [Names -> Configurations \cup {None}]
      <3>1. \A n \in Names : rows[n] # <<>> => Restored(rows[n][1]) \in Configurations
        BY <1>3, RestoredType
      <3> QED
        BY <1>1, <1>2, <3>1 DEF TypeOK
    <2> QED
      BY <1>1, <1>2, <2>1 DEF TypeOK, Managed
  <1>5. RowsAreColumns' /\ Settled' /\ OpenWhileUp'
    BY <1>1, <1>2 DEF PInv, RowsAreColumns, Settled, OpenWhileUp
  <1>6. OneRowPerServer'
    <2>1. \A n \in Names : rows[n] = <<>> => Len(rows[n]) = 0
      BY EmptySeq
    <2>2. ASSUME NEW n \in Names PROVE Len(rows'[n]) <= 1
      <3>1. CASE rows[n] = <<>>
        BY <1>2, <2>1, <3>1
      <3>2. CASE rows[n] # <<>>
        <4>1. Len(rows[n]) = 1
          BY <1>3, <3>2
        <4> QED
          BY <1>2, <4>1
      <3> QED
        BY <3>1, <3>2
    <2> QED
      BY <2>2 DEF OneRowPerServer
  <1>7. ManagedIsFollowed'
    BY <1>2 DEF ManagedIsFollowed, Managed
  <1>8. RowsAgree'
    <2>1. ASSUME NEW n \in Names \ Managed
          PROVE  Agrees(configuration'[n], rows[n])
      <3>1. CASE rows[n] = <<>>
        <4>1. configuration'[n] = None
          BY <1>2, <2>1, <3>1 DEF Managed
        <4> QED
          BY <3>1, <4>1, NoRows
      <3>2. CASE rows[n] # <<>>
        <4> DEFINE config == Restored(rows[n][1])
        <4>1. configuration'[n] = config
          BY <1>2, <3>2
        <4>2. config \in Columns /\ config \in Configurations
          BY <1>3, <3>2, RestoredType
        <4>3. Stored(config) = config
          BY <4>2, StoredOfColumns
        <4>4. config # None
          BY <4>2, PersistorAssumption DEF Configurations
        <4>5. \A j \in DOMAIN rows[n] : Restored(rows[n][j]) = config
          BY <1>3, <3>2
        <4> HIDE DEF config
        <4> QED
          BY <3>2, <4>1, <4>3, <4>4, <4>5 DEF Agrees
      <3> QED
        BY <3>1, <3>2
    <2>2. \A n \in Names \ doubtful' : Agrees(configuration'[n], rows'[n])
      BY <1>2, <2>1
    <2> QED
      BY <2>2 DEF RowsAgree, Agrees, Restored, Stored, Defaults
  <1> QED
    BY <1>4, <1>5, <1>6, <1>7, <1>8 DEF PInv

LEMMA BootStep ==
    ASSUME PInv, Boot
    PROVE  PInv'
  <1>1. /\ phase = "down" /\ phase' = "booting"
        /\ UNCHANGED <<configuration, linked, busVars, databaseVars, doubtful>>
    BY DEF Boot
  <1>2. unsaved' = {} /\ OneRowPerServer' /\ DatabaseOK'
    BY <1>1, DatabaseIsOK
       DEF PInv, OpenWhileUp, OneRowPerServer, DatabaseOK, RowsAreColumns, Settled, databaseVars
  <1>3. TypeOK'
    BY <1>1 DEF PInv, TypeOK, busVars, databaseVars
  <1> QED
    BY <1>1, <1>2, <1>3, NotServing

(***************************************************************************)
(* The process ends, and with it the transaction left open.                *)
(***************************************************************************)
LEMMA DieStep ==
    ASSUME PInv, Memoryless, Rollback({})
    PROVE  PInv'
  <1>1. /\ DatabaseOK' /\ unsaved' = {} /\ doubtful' \subseteq Names
        /\ doubtful \subseteq doubtful'
        /\ \A m \in Names \ doubtful' : rows'[m] = rows[m]
    BY RolledBack
  <1> QED
    BY <1>1, EndStep

(***************************************************************************)
(* The statement that deletes the entries of a server.                     *)
(***************************************************************************)
LEMMA EntriesGone ==
    ASSUME PInv, NEW n \in Names
    PROVE  /\ TableOf(n, EntriesDeleted(n))
           /\ Len(EntriesDeleted(n)[n]) = Len(rows[n])
  <1> DEFINE cleared == [j \in DOMAIN rows[n] |-> NoEntries]
  <1>1. rows[n] \in Seq(Columns)
    BY DEF PInv, RowsAreColumns
  <1>2. cleared \in Seq(Columns) /\ Len(cleared) = Len(rows[n])
    BY <1>1, Cleared
  <1>3. EntriesDeleted(n) = [rows EXCEPT ![n] = cleared]
    BY DEF EntriesDeleted
  <1> HIDE DEF cleared
  <1> QED
    BY <1>2, <1>3, OneTable

LEMMA RemoveInterruptedStep ==
    ASSUME PInv, NEW n \in Names, RemoveInterrupted(n)
    PROVE  PInv'
  <1>1. /\ unsaved = {} /\ Write(n, EntriesDeleted(n)) /\ Memoryless
        /\ doubtful' = doubtful
    BY DEF RemoveInterrupted
  <1>2. /\ TableOf(n, EntriesDeleted(n))
        /\ Len(EntriesDeleted(n)[n]) = Len(rows[n])
    BY EntriesGone
  <1>3. rows' = EntriesDeleted(n) /\ DatabaseOK' /\ unsaved' = {}
    BY <1>1, <1>2, Wrote DEF Write
  <1>4. \A m \in Names : Len(rows'[m]) = Len(rows[m])
    BY <1>2, <1>3 DEF TableOf
  <1> QED
    BY <1>1, <1>3, <1>4, EndStep DEF PInv, TypeOK

(***************************************************************************)
(* What storeServer() inserts.                                             *)
(***************************************************************************)
LEMMA InsertedType ==
    ASSUME PInv, NEW n \in Names, NEW entries \in Columns
    PROVE  /\ TableOf(n, Inserted(n, entries))
           /\ Inserted(n, entries)[n] = Append(rows[n], entries)
  <1>1. rows[n] \in Seq(Columns)
    BY DEF PInv, RowsAreColumns
  <1>2. Append(rows[n], entries) \in Seq(Columns)
    BY <1>1, AppendProperties
  <1>3. Inserted(n, entries) = [rows EXCEPT ![n] = Append(rows[n], entries)]
    BY DEF Inserted
  <1> QED
    BY <1>2, <1>3, OneTable

LEMMA PartialType == Partial \subseteq Columns
  <1>1. Stored(Defaults) \in Columns
    BY DefaultsType, StoredType
  <1> QED
    BY <1>1 DEF Partial, Columns

LEMMA RowsTable ==
    ASSUME PInv, NEW n \in Names
    PROVE  TableOf(n, rows)
  BY DEF PInv, TypeOK, RowsAreColumns, TableOf

LEMMA AddStep ==
    ASSUME PInv, NEW n \in Names, Add(n)
    PROVE  PInv'
  <1>1. /\ phase # "down" /\ n \notin Managed
        /\ configuration' = [configuration EXCEPT ![n] = Defaults]
        /\ hidden' = hidden \cup ({n} \cap leaving)
        /\ UNCHANGED <<phase, leaving, leavingLinked>>
    BY DEF Add
  <1>2. TypeOK
    BY DEF PInv
  <1>3. /\ configuration' \in [Names -> Configurations \cup {None}]
        /\ configuration'[n] = Defaults
        /\ \A m \in Names : m # n => configuration'[m] = configuration[m]
    BY <1>1, <1>2, DefaultsType DEF TypeOK
  <1>4. ASSUME DatabaseOK', doubtful' \subseteq Names, linked' \subseteq Names
        PROVE  TypeOK'
    BY <1>1, <1>2, <1>3, <1>4 DEF TypeOK, DatabaseOK
  <1> DEFINE row == Stored(Defaults)
  <1>5. row \in Columns
    BY DefaultsType, StoredType
  <1>6. TableOf(n, Inserted(n, row)) /\ Inserted(n, row)[n] = Append(rows[n], row)
    BY <1>5, InsertedType
  <1>7. CASE /\ phase = "up" /\ Commit(n, Inserted(n, row))
             /\ linked' = linked \cup {n} /\ doubtful' = doubtful
    <2>1. /\ rows' = Inserted(n, row) /\ DatabaseOK' /\ unsaved' = {}
          /\ \A m \in Names : m # n => rows'[m] = rows[m]
      BY <1>6, <1>7, Wrote DEF Commit, TableOf
    <2>2. TypeOK'
      BY <1>2, <1>4, <1>7, <2>1 DEF TypeOK
    <2>3. n \notin doubtful => /\ Len(rows'[n]) <= 1
                               /\ Agrees(configuration'[n], rows'[n])
      <3> SUFFICES ASSUME n \notin doubtful
                   PROVE  Len(rows'[n]) <= 1 /\ Agrees(configuration'[n], rows'[n])
        OBVIOUS
      <3>1. rows[n] = <<>>
        BY <1>1, <1>7 DEF PInv, RowsAgree, Agrees, Managed
      <3>2. Restored(row) = Stored(Defaults)
        BY RestoredDefaults DEF row
      <3> HIDE DEF row
      <3>3. rows'[n] = <<row>>
        BY <1>6, <2>1, <3>1
      <3>4. Len(rows'[n]) = 1 /\ DOMAIN rows'[n] = {1} /\ rows'[n] # <<>>
            /\ rows'[n][1] = row
        BY <3>3
      <3>5. Defaults # None
        BY DefaultsType, PersistorAssumption DEF Configurations
      <3> QED
        BY <1>3, <3>2, <3>4, <3>5 DEF Agrees
    <2> QED
      BY <1>1, <1>3, <1>7, <2>1, <2>2, <2>3, OneName
  <1>8. CASE /\ phase = "up" /\ doubtful' = doubtful \cup {n}
             /\ linked' \in {linked, linked \cup {n}}
             /\ \E table : TableOf(n, table) /\ (Write(n, table) \/ LeaveOpen(n, table))
    <2>1. PICK table : TableOf(n, table) /\ (Write(n, table) \/ LeaveOpen(n, table))
      BY <1>8
    <2>2. DatabaseOK' /\ \A m \in Names : m # n => rows'[m] = rows[m]
      BY <2>1, Wrote DEF TableOf
    <2>3. TypeOK'
      BY <1>2, <1>4, <1>8, <2>2 DEF TypeOK
    <2> QED
      BY <1>1, <1>3, <1>8, <2>2, <2>3, OneName
  <1>9. CASE /\ phase = "up" /\ linked' \in {linked, linked \cup {n}} /\ Rollback({n})
    <2>1. /\ DatabaseOK' /\ unsaved' = {} /\ doubtful' \subseteq Names
          /\ doubtful \cup {n} \subseteq doubtful'
          /\ \A m \in Names \ doubtful' : rows'[m] = rows[m]
      BY <1>9, RolledBack
    <2>2. TypeOK'
      BY <1>2, <1>4, <1>9, <2>1 DEF TypeOK
    <2> QED
      BY <1>1, <1>3, <1>9, <2>1, <2>2, OneName
  <1>10. CASE /\ phase = "booting" /\ doubtful' = doubtful \cup {n}
              /\ UNCHANGED <<linked, databaseVars>>
    <2>1. DatabaseOK' /\ unsaved' = unsaved /\ rows' = rows
      BY <1>10, DatabaseIsOK DEF DatabaseOK, RowsAreColumns, Settled, databaseVars
    <2>2. TypeOK'
      BY <1>2, <1>4, <1>10, <2>1 DEF TypeOK
    <2> QED
      BY <1>1, <1>3, <1>10, <2>1, <2>2, OneName
  <1>11. StoreServer(n) =>
            \/ /\ Commit(n, Inserted(n, row))
               /\ linked' = linked \cup {n} /\ doubtful' = doubtful
            \/ /\ doubtful' = doubtful \cup {n}
               /\ linked' \in {linked, linked \cup {n}}
               /\ \E table : TableOf(n, table) /\ (Write(n, table) \/ LeaveOpen(n, table))
            \/ linked' \in {linked, linked \cup {n}} /\ Rollback({n})
    <2>1. \A entries \in Partial : TableOf(n, Inserted(n, entries))
      BY PartialType, InsertedType
    <2> QED
      BY <1>6, <2>1, RowsTable DEF StoreServer
  <1> QED
    BY <1>7, <1>8, <1>9, <1>10, <1>11 DEF Add

(***************************************************************************)
(* The entry that storeConfigurationEntry() writes.                        *)
(***************************************************************************)
LEMMA EntryWritten ==
    ASSUME PInv, NEW n \in Names, NEW k \in Keys, NEW v \in Values, StoreEntry(n, k, v)
    PROVE  /\ DatabaseOK'
           /\ unsaved' \subseteq unsaved \/ unsaved # {}
           /\ \A m \in Names : m # n => rows'[m] = rows[m]
           /\ rows[n] # <<>> /\ rows[n] \in Seq(Columns)
           /\ rows'[n] = [rows[n] EXCEPT ![1][k] = Column(v)]
  <1> DEFINE written == [rows[n] EXCEPT ![1][k] = Column(v)]
  <1>1. rows[n] # <<>> /\ rows[n] \in Seq(Columns)
    BY DEF StoreEntry, PInv, RowsAreColumns
  <1>2. Write(n, [rows EXCEPT ![n] = written])
    BY DEF StoreEntry
  <1>3. written \in Seq(Columns)
    BY <1>1, Written
  <1> HIDE DEF written
  <1>4. TableOf(n, [rows EXCEPT ![n] = written]) /\ [rows EXCEPT ![n] = written][n] = written
    BY <1>3, OneTable
  <1>5. DatabaseOK' /\ rows' = [rows EXCEPT ![n] = written]
    BY <1>2, <1>4, Wrote
  <1>6. rows'[n] = written
    BY <1>4, <1>5
  <1>7. \A m \in Names : m # n => rows'[m] = rows[m]
    BY <1>4, <1>5 DEF TableOf
  <1>8. unsaved' \subseteq unsaved \/ unsaved # {}
    BY <1>2 DEF Write
  <1> QED
    BY <1>1, <1>5, <1>6, <1>7, <1>8 DEF written

LEMMA SetValueStep ==
    ASSUME PInv, NEW n \in Names, NEW k \in Keys, NEW v \in Values, SetValue(n, k, v)
    PROVE  PInv'
  <1>1. /\ n \in Managed
        /\ configuration' = [configuration EXCEPT ![n][k] = v]
        /\ UNCHANGED <<phase, linked, busVars>>
    BY DEF SetValue
  <1>2. TypeOK /\ OneRowPerServer /\ (unsaved # {} => phase = "up")
    BY DEF PInv, OpenWhileUp
  <1> DEFINE config == [configuration[n] EXCEPT ![k] = v]
  <1>3. configuration[n] \in Configurations /\ configuration[n] # None
    BY <1>1, <1>2 DEF TypeOK, Managed
  <1>4. config \in Configurations
    BY <1>3 DEF Configurations
  <1>5. /\ configuration'[n] = config
        /\ configuration' \in [Names -> Configurations \cup {None}]
        /\ \A m \in Names : m # n => configuration'[m] = configuration[m]
    BY <1>1, <1>2, <1>4 DEF TypeOK
  <1>6. config # None
    BY <1>4, PersistorAssumption DEF Configurations
  <1>7. ASSUME DatabaseOK', doubtful' \subseteq Names
        PROVE  TypeOK'
    BY <1>1, <1>2, <1>5, <1>7 DEF TypeOK, DatabaseOK, busVars
  <1> HIDE DEF config
  <1>8. CASE n \in linked /\ StoreEntry(n, k, v) /\ doubtful' = doubtful
    <2> DEFINE written == [rows[n] EXCEPT ![1][k] = Column(v)]
    <2>1. /\ DatabaseOK' /\ (unsaved' \subseteq unsaved \/ unsaved # {})
          /\ \A m \in Names : m # n => rows'[m] = rows[m]
          /\ rows[n] # <<>> /\ rows[n] \in Seq(Columns) /\ rows'[n] = written
      BY <1>8, EntryWritten
    <2>2. /\ Len(written) = Len(rows[n])
          /\ DOMAIN written = DOMAIN rows[n]
          /\ rows[n][1] \in Columns
          /\ written[1] = [rows[n][1] EXCEPT ![k] = Column(v)]
      BY <2>1, Written
    <2> HIDE DEF written
    <2>3. TypeOK'
      BY <1>2, <1>7, <1>8, <2>1 DEF TypeOK
    <2>4. n \notin doubtful => Len(rows'[n]) <= 1
      BY <1>2, <2>1, <2>2 DEF OneRowPerServer
    <2>5. phase = "up" /\ n \notin doubtful => Agrees(configuration'[n], rows'[n])
      <3> SUFFICES ASSUME phase = "up", n \notin doubtful
                   PROVE  Agrees(configuration'[n], rows'[n])
        OBVIOUS
      <3>1. \A j \in DOMAIN rows[n] : Restored(rows[n][j]) = Stored(configuration[n])
        BY DEF PInv, RowsAgree, Agrees
      <3>2. DOMAIN rows[n] = {1}
        <4>1. DOMAIN rows[n] = 1..Len(rows[n]) /\ Len(rows[n]) \in Nat \ {0}
          BY <2>1, LenProperties, EmptySeq
        <4>2. Len(rows[n]) <= 1
          BY <1>2 DEF OneRowPerServer
        <4>3. \A i \in Nat \ {0} : i <= 1 => 1..i = {1}
          OBVIOUS
        <4> QED
          BY <4>1, <4>2, <4>3, Zenon
      <3>3. Restored(rows[n][1]) = Stored(configuration[n])
        BY <3>1, <3>2
      <3>4. Restored(written[1]) = Stored(config)
        <4>1. rows[n][1] \in Columns
          BY <2>2
        <4>2. Restored([rows[n][1] EXCEPT ![k] = Column(v)])
                  = Stored([configuration[n] EXCEPT ![k] = v])
          BY <1>3, <3>3, <4>1, EntryAgrees, Zenon
        <4> QED
          BY <2>2, <4>2, Zenon DEF config
      <3>5. written # <<>>
        BY <2>2, <3>2, EmptySeq
      <3> QED
        BY <1>5, <1>6, <2>1, <2>2, <3>2, <3>4, <3>5 DEF Agrees
    <2> QED
      BY <1>1, <1>2, <1>5, <1>8, <2>1, <2>3, <2>4, <2>5, OneName
  <1>9. CASE Fails(n)
    <2>1. /\ DatabaseOK' /\ unsaved' \subseteq unsaved /\ doubtful' \subseteq Names
          /\ doubtful \cup {n} \subseteq doubtful'
          /\ \A m \in Names \ doubtful' : rows'[m] = rows[m]
      BY <1>9, Failed
    <2>2. TypeOK'
      BY <1>7, <2>1
    <2> QED
      BY <1>1, <1>5, <2>1, <2>2, OneName
  <1>10. CASE n \notin linked /\ UNCHANGED <<databaseVars, doubtful>>
    <2>1. DatabaseOK' /\ unsaved' = unsaved /\ rows' = rows
      BY <1>10, DatabaseIsOK DEF DatabaseOK, RowsAreColumns, Settled, databaseVars
    <2>2. TypeOK'
      BY <1>2, <1>7, <1>10, <2>1 DEF TypeOK
    <2>3. n \in doubtful \/ Len(rows[n]) <= 1
      BY <1>2 DEF OneRowPerServer
    <2>4. phase = "up" => n \in doubtful
      BY <1>1, <1>10 DEF PInv, ManagedIsFollowed
    <2> QED
      BY <1>1, <1>5, <1>10, <2>1, <2>2, <2>3, <2>4, OneName
  <1> QED
    BY <1>8, <1>9, <1>10 DEF SetValue

LEMMA SetValueLateStep ==
    ASSUME PInv, NEW n \in Names, NEW k \in Keys, NEW v \in Values, SetValueLate(n, k, v)
    PROVE  PInv'
  <1>1. /\ StoreEntry(n, k, v) /\ doubtful' = doubtful \cup {n}
        /\ UNCHANGED <<phase, configuration, linked, busVars>>
    BY DEF SetValueLate
  <1>2. TypeOK /\ (unsaved # {} => phase = "up")
    BY DEF PInv, OpenWhileUp
  <1>3. /\ DatabaseOK' /\ (unsaved' \subseteq unsaved \/ unsaved # {})
        /\ \A m \in Names : m # n => rows'[m] = rows[m]
    BY <1>1, EntryWritten
  <1>4. TypeOK'
    BY <1>1, <1>2, <1>3 DEF TypeOK, DatabaseOK, busVars
  <1> QED
    BY <1>1, <1>2, <1>3, <1>4, OneName

LEMMA RemoveStep ==
    ASSUME PInv, NEW n \in Names, Remove(n)
    PROVE  PInv'
  <1>1. /\ phase' = phase /\ n \in Managed
        /\ configuration' = [configuration EXCEPT ![n] = None]
        /\ linked' = linked \ {n}
        /\ hidden' = hidden \ {n}
        /\ leaving' = leaving \cup ({n} \ hidden)
        /\ leavingLinked' = leavingLinked \cup (({n} \cap linked) \ hidden)
    BY DEF Remove, Unmanage
  <1>2. TypeOK /\ OneRowPerServer /\ (unsaved # {} => phase = "up")
    BY DEF PInv, OpenWhileUp
  <1>3. /\ configuration'[n] = None
        /\ configuration' \in [Names -> Configurations \cup {None}]
        /\ \A m \in Names : m # n => /\ configuration'[m] = configuration[m]
                                     /\ m \in linked' <=> m \in linked
    BY <1>1, <1>2 DEF TypeOK
  <1>4. ASSUME DatabaseOK', doubtful' \subseteq Names
        PROVE  TypeOK'
    BY <1>1, <1>2, <1>3, <1>4 DEF TypeOK, DatabaseOK
  <1>5. <<>> \in Seq(Columns) /\ Len(<<>>) = 0 /\ Agrees(None, <<>>)
    BY EmptySeq, NoRows
  <1>6. CASE /\ phase = "up" /\ Write(n, RowsDeleted(n, rows)) /\ doubtful' = doubtful \ {n}
    <2>1. RowsDeleted(n, rows) = [rows EXCEPT ![n] = <<>>]
      BY DEF RowsDeleted
    <2>2. TableOf(n, [rows EXCEPT ![n] = <<>>]) /\ [rows EXCEPT ![n] = <<>>][n] = <<>>
      BY <1>5, OneTable
    <2>3. DatabaseOK' /\ rows'[n] = <<>> /\ \A m \in Names : m # n => rows'[m] = rows[m]
      BY <1>6, <2>1, <2>2, Wrote DEF TableOf
    <2>4. TypeOK'
      BY <1>2, <1>4, <1>6, <2>3 DEF TypeOK
    <2> QED
      BY <1>1, <1>3, <1>5, <1>6, <2>3, <2>4, OneName
  <1>7. CASE /\ phase = "up" /\ Write(n, EntriesDeleted(n)) /\ doubtful' = doubtful \cup {n}
    <2>0. TableOf(n, EntriesDeleted(n))
      BY EntriesGone
    <2>1. DatabaseOK' /\ rows' = EntriesDeleted(n)
      BY <1>7, <2>0, Wrote
    <2>2. TypeOK'
      BY <1>2, <1>4, <1>7, <2>1 DEF TypeOK
    <2>3. \A m \in Names : m # n => rows'[m] = rows[m]
      BY <2>0, <2>1 DEF TableOf
    <2> QED
      BY <1>1, <1>3, <1>7, <2>1, <2>2, <2>3, OneName
  <1>8. CASE Fails(n)
    <2>1. /\ DatabaseOK' /\ unsaved' \subseteq unsaved /\ doubtful' \subseteq Names
          /\ doubtful \cup {n} \subseteq doubtful'
          /\ \A m \in Names \ doubtful' : rows'[m] = rows[m]
      BY <1>8, Failed
    <2>2. TypeOK'
      BY <1>4, <2>1
    <2> QED
      BY <1>1, <1>3, <2>1, <2>2, OneName
  <1>9. CASE /\ phase = "up" /\ Commit(n, RowsDeleted(n, committed))
             /\ doubtful' = (doubtful \cup unsaved) \ {n}
    <2>1. /\ rows' = [committed EXCEPT ![n] = <<>>] /\ committed' = rows' /\ unsaved' = {}
      BY <1>9 DEF Commit, RowsDeleted
    <2>2. /\ committed \in [Names -> Seq(Configurations)]
          /\ \A m \in Names : committed[m] \in Seq(Columns)
          /\ \A m \in Names \ unsaved : committed[m] = rows[m]
          /\ <<>> \in Seq(Configurations)
      BY <1>5, RowsType DEF PInv, TypeOK, RowsAreColumns, Settled
    <2>3. DatabaseOK' /\ rows'[n] = <<>>
      BY <1>5, <2>1, <2>2 DEF DatabaseOK, RowsAreColumns, Settled
    <2>4. \A m \in Names \ doubtful' : m # n => rows'[m] = rows[m]
      BY <1>9, <2>1, <2>2
    <2>5. TypeOK'
      BY <1>2, <1>4, <1>9, <2>3 DEF TypeOK
    <2> QED
      BY <1>1, <1>3, <1>5, <1>9, <2>1, <2>3, <2>4, <2>5, OneName
  <1>10. CASE phase = "booting" /\ UNCHANGED <<databaseVars, doubtful>>
    <2>1. DatabaseOK' /\ unsaved' = unsaved /\ rows' = rows
      BY <1>10, DatabaseIsOK DEF DatabaseOK, RowsAreColumns, Settled, databaseVars
    <2>2. TypeOK'
      BY <1>2, <1>4, <1>10, <2>1 DEF TypeOK
    <2>3. n \in doubtful \/ Len(rows[n]) <= 1
      BY <1>2 DEF OneRowPerServer
    <2> QED
      BY <1>1, <1>3, <1>10, <2>1, <2>2, <2>3, OneName
  <1> QED
    BY <1>6, <1>7, <1>8, <1>9, <1>10 DEF Remove

(***************************************************************************)
(* A rollback that belongs to no managed server.                           *)
(***************************************************************************)
LEMMA OtherStatementStep ==
    ASSUME PInv, OtherStatementFails
    PROVE  PInv'
  <1>1. /\ DatabaseOK' /\ unsaved' = {} /\ doubtful' \subseteq Names
        /\ doubtful \subseteq doubtful'
        /\ \A m \in Names \ doubtful' : rows'[m] = rows[m]
        /\ UNCHANGED <<phase, configuration, linked, busVars>>
    BY RolledBack DEF OtherStatementFails
  <1>2. TypeOK'
    BY <1>1 DEF PInv, TypeOK, DatabaseOK, busVars
  <1>3. /\ OpenWhileUp' /\ OneRowPerServer' /\ ManagedIsFollowed'
        /\ RowsAreColumns' /\ Settled'
    BY <1>1 DEF PInv, OpenWhileUp, OneRowPerServer, ManagedIsFollowed, Managed, DatabaseOK
  <1>4. RowsAgree'
    BY <1>1 DEF PInv, RowsAgree, Agrees, Restored, Stored, Defaults
  <1> QED
    BY <1>2, <1>3, <1>4 DEF PInv

(***************************************************************************)
(* Steps of the bus alone, and stuttering.                                 *)
(***************************************************************************)
LEMMA BusStep ==
    ASSUME PInv, TypeOK', UNCHANGED <<phase, configuration, linked, databaseVars, doubtful>>
    PROVE  PInv'
  BY DEF PInv, RowsAreColumns, Settled, OpenWhileUp, ManagedIsFollowed, Managed, RowsAgree,
         Agrees, Restored, Stored, Defaults, OneRowPerServer, databaseVars

LEMMA StepInv == PInv /\ [Next]_vars => PInv'
  <1> SUFFICES ASSUME PInv, [Next]_vars PROVE PInv'
    OBVIOUS
  <1>1. CASE Boot
    BY <1>1, BootStep
  <1>2. CASE Die \/ InitializeCrashes
    BY <1>2, DieStep DEF Die, InitializeCrashes
  <1>3. CASE Initialize
    BY <1>3, InitializeStep
  <1>4. ASSUME NEW n \in Names, Add(n) PROVE PInv'
    BY <1>4, AddStep
  <1>5. ASSUME NEW n \in Names, Remove(n) PROVE PInv'
    BY <1>5, RemoveStep
  <1>6. ASSUME NEW n \in Names, RemoveInterrupted(n) PROVE PInv'
    BY <1>6, RemoveInterruptedStep
  <1>7. ASSUME NEW n \in Names, ServerDeleted(n) PROVE PInv'
    <2>1. /\ leaving' = leaving \ {n} /\ leavingLinked' = leavingLinked \ {n}
          /\ UNCHANGED <<phase, configuration, linked, hidden, databaseVars, doubtful>>
      BY <1>7 DEF ServerDeleted
    <2>2. TypeOK'
      BY <2>1 DEF PInv, TypeOK, databaseVars
    <2> QED
      BY <2>1, <2>2, BusStep
  <1>8. ASSUME NEW n \in Names, NEW k \in Keys, NEW v \in Values, SetValue(n, k, v)
        PROVE  PInv'
    BY <1>8, SetValueStep
  <1>9. ASSUME NEW n \in Names, NEW k \in Keys, NEW v \in Values, SetValueLate(n, k, v)
        PROVE  PInv'
    BY <1>9, SetValueLateStep
  <1>10. CASE UNCHANGED vars
    <2>1. TypeOK'
      BY <1>10 DEF PInv, TypeOK, vars, busVars, databaseVars
    <2> QED
      BY <1>10, <2>1, BusStep DEF vars
  <1>11. CASE OtherStatementFails
    BY <1>11, OtherStatementStep
  <1> QED
    BY <1>1, <1>2, <1>3, <1>4, <1>5, <1>6, <1>7, <1>8, <1>9, <1>10, <1>11 DEF Next

LEMMA Invariance == Spec => []PInv
  BY InitInv, StepInv, PTL DEF Spec

------------------------------------------------------------------------------
(* The theorems. *)

(***************************************************************************)
(* Memory and table keep their types.                                      *)
(***************************************************************************)
THEOREM TypeCorrect == Spec => []TypeOK
  <1>1. PInv => TypeOK
    BY DEF PInv
  <1> QED
    BY <1>1, Invariance, PTL

(***************************************************************************)
(* What a daemon has when it ends between two handlers is what the next one*)
(* restores, for the names no statement failed for and that were not       *)
(* written in a transaction left open.                                     *)
(***************************************************************************)
THEOREM RestartKeeps == Spec => []RestartKeepsServers
  BY InvKeeps, Invariance, PTL

(***************************************************************************)
(* The process never reads two rows of a name that no failed statement and *)
(* no rollback was about.                                                  *)
(***************************************************************************)
THEOREM OneRow == Spec => []OneRowPerServer
  <1>1. PInv => OneRowPerServer
    BY DEF PInv
  <1> QED
    BY <1>1, Invariance, PTL

------------------------------------------------------------------------------
(* The store that survives the process. *)

(***************************************************************************)
(* What happens before initialize() is done: nothing is followed yet, and  *)
(* what is added is not stored.                                            *)
(***************************************************************************)
NotYetFollowed ==
    /\ phase # "up" => linked = {} /\ leavingLinked = {}
    /\ phase = "booting" => Managed \subseteq doubtful
    /\ phase = "down" => Managed = {}

LEMMA BootInvariance == Spec => []NotYetFollowed
  <1>1. Init => NotYetFollowed
    BY DEF Init, NotYetFollowed, Managed
  <1>2. PInv /\ NotYetFollowed /\ [Next]_vars => NotYetFollowed'
    <2> SUFFICES ASSUME PInv, NotYetFollowed, [Next]_vars PROVE NotYetFollowed'
      OBVIOUS
    <2>0. configuration \in [Names -> Configurations \cup {None}]
      BY DEF PInv, TypeOK
    <2> USE DEF NotYetFollowed, Managed
    <2>1. CASE Boot
      BY <2>1 DEF Boot, busVars
    <2>2. CASE Die \/ InitializeCrashes
      BY <2>2 DEF Die, InitializeCrashes, Memoryless
    <2>3. CASE Initialize
      BY <2>3 DEF Initialize
    <2>4. ASSUME NEW n \in Names, Add(n) PROVE NotYetFollowed'
      BY <2>0, <2>4 DEF Add
    <2>5. ASSUME NEW n \in Names, Remove(n) PROVE NotYetFollowed'
      <3>1. /\ phase' = phase /\ phase # "down" /\ configuration' = [configuration EXCEPT ![n] = None]
            /\ linked' = linked \ {n}
            /\ leavingLinked' = leavingLinked \cup (({n} \cap linked) \ hidden)
        BY <2>5 DEF Remove, Unmanage
      <3>2. phase = "booting" => doubtful' = doubtful \/ Fails(n)
        BY <2>5 DEF Remove
      <3>3. phase = "booting" => doubtful \subseteq doubtful'
        BY <3>2 DEF Fails, Rollback
      <3> QED
        BY <2>0, <3>1, <3>3
    <2>6. ASSUME NEW n \in Names, RemoveInterrupted(n) PROVE NotYetFollowed'
      BY <2>6 DEF RemoveInterrupted, Memoryless
    <2>7. ASSUME NEW n \in Names, ServerDeleted(n) PROVE NotYetFollowed'
      BY <2>7 DEF ServerDeleted
    <2>8. ASSUME NEW n \in Names, NEW k \in Keys, NEW v \in Values, SetValue(n, k, v)
          PROVE  NotYetFollowed'
      <3>1. /\ UNCHANGED <<phase, linked, leavingLinked>> /\ n \in Managed
            /\ configuration' = [configuration EXCEPT ![n][k] = v]
            /\ n \notin linked => doubtful' = doubtful
        BY <2>8 DEF SetValue, busVars
      <3> QED
        BY <2>0, <3>1
    <2>9. ASSUME NEW n \in Names, NEW k \in Keys, NEW v \in Values, SetValueLate(n, k, v)
          PROVE  NotYetFollowed'
      BY <2>9 DEF SetValueLate, busVars
    <2>10. CASE UNCHANGED vars
      BY <2>10 DEF vars, busVars
    <2>11. CASE OtherStatementFails
      <3>1. phase = "up"
        BY <2>11 DEF OtherStatementFails, PInv, OpenWhileUp
      <3> QED
        BY <2>11, <3>1 DEF OtherStatementFails
    <2> QED
      BY <2>1, <2>2, <2>3, <2>4, <2>5, <2>6, <2>7, <2>8, <2>9, <2>10, <2>11 DEF Next
  <1> QED
    BY <1>1, <1>2, Invariance, PTL DEF Spec

(***************************************************************************)
(* The store's tables hold configurations.                                 *)
(***************************************************************************)
LEMMA RestartType ==
    ASSUME NEW table \in Seq(Columns)
    PROVE  Restart(table) \in Configurations \cup {None}
  <1>1. CASE table = <<>>
    BY <1>1 DEF Restart
  <1>2. CASE table # <<>>
    <2>1. table[1] \in Columns
      BY <1>2, EmptySeq, ElementOfSeq
    <2> QED
      BY <1>2, <2>1, RestoredType DEF Restart
  <1> QED
    BY <1>1, <1>2

(***************************************************************************)
(* What a daemon that ends leaves behind, and what the next one serves.    *)
(***************************************************************************)
Unsure == doubtful \cup unsaved

LEMMA KeptType ==
    ASSUME PInv, NEW n \in Names
    PROVE  Kept(n) \in Configurations \cup {None}
  BY StoredType DEF PInv, TypeOK, Kept, Managed

LEMMA CommittedType ==
    ASSUME PInv, NEW n \in Names
    PROVE  Restart(committed[n]) \in Configurations \cup {None}
  BY RestartType DEF PInv, RowsAreColumns

(***************************************************************************)
(* Of a name that is not in doubt, both are the same.                      *)
(***************************************************************************)
LEMMA KeptIsCommitted ==
    ASSUME PInv, phase = "up", NEW n \in Names \ Unsure
    PROVE  Kept(n) = Restart(committed[n])
  <1>1. /\ n \in Managed <=> committed[n] # <<>>
        /\ \A j \in DOMAIN committed[n] :
              Restored(committed[n][j]) = Stored(configuration[n])
    BY InvKeeps DEF RestartKeepsServers, Unsure
  <1>2. CASE committed[n] = <<>>
    BY <1>1, <1>2 DEF Kept, Restart
  <1>3. CASE committed[n] # <<>>
    <2>1. committed[n] \in Seq(Columns)
      BY DEF PInv, RowsAreColumns
    <2>2. 1 \in DOMAIN committed[n]
      BY <1>3, <2>1, EmptySeq, LenProperties
    <2> QED
      BY <1>1, <1>3, <2>2 DEF Kept, Restart
  <1> QED
    BY <1>2, <1>3

(***************************************************************************)
(* What the store's two tables are, in every state of the invariant.       *)
(***************************************************************************)
TablesFit ==
    /\ \A n \in Names : Kept(n) \in Configurations \cup {None}
    /\ \A n \in Names : Restart(committed[n]) \in Configurations \cup {None}
    /\ phase = "up" => \A n \in Names \ Unsure : Kept(n) = Restart(committed[n])

LEMMA InvFits == PInv => TablesFit
  BY KeptType, CommittedType, KeptIsCommitted DEF TablesFit

LEMMA InvFitsAfter == PInv' => TablesFit'
  BY InvFits, PTL

(***************************************************************************)
(* Memory and database of a name that a handler left alone.                *)
(***************************************************************************)
LEMMA SameKept ==
    ASSUME NEW n \in Names, phase' = phase, configuration'[n] = configuration[n]
    PROVE  Kept(n)' = Kept(n)
  BY DEF Kept, Managed, Stored

LEMMA SameCommitted ==
    ASSUME NEW n \in Names, committed'[n] = committed[n]
    PROVE  Restart(committed[n])' = Restart(committed[n])
  BY DEF Restart, Restored, Defaults

(***************************************************************************)
(* A change that memory and database agree on; with it, what was written   *)
(* of other names in a transaction left open is committed.                 *)
(***************************************************************************)
LEMMA StoreChanges ==
    ASSUME PInv, PInv', NEW n \in Names, phase = "up", phase' = phase,
           Unsure' \subseteq Unsure,
           \A m \in Names : m # n => configuration'[m] = configuration[m],
           \A m \in Names \ Unsure : m # n => committed'[m] = committed[m]
    PROVE  Store!Next
  <1>1. TablesFit'
    BY InvFitsAfter
  <1>2. \A m \in Names \ {n} : Kept(m)' = Kept(m)
    BY SameKept
  <1>3. \A m \in Names \ (Unsure \cup {n}) : Restart(committed[m])' = Restart(committed[m])
    BY SameCommitted
  <1>4. /\ [m \in Names |-> Kept(m)]' \in Store!Tables
        /\ [m \in Names |-> Restart(committed[m])]' \in Store!Tables
    BY <1>1 DEF TablesFit, Store!Tables
  <1>5. Unsure \subseteq Names
    BY DEF PInv, TypeOK, Unsure
  <1>6. \A m \in (Unsure \cup {n}) \ Unsure' : Kept(m)' = Restart(committed[m])'
    BY <1>1, <1>5 DEF TablesFit
  <1>7. Store!Change(n)
    BY <1>2, <1>3, <1>4, <1>5, <1>6 DEF Store!Change, Unsure
  <1> QED
    BY <1>7 DEF Store!Next

(***************************************************************************)
(* A change of which nothing is known but that it is of one name.          *)
(***************************************************************************)
LEMMA StoreFails ==
    ASSUME PInv', NEW n \in Names, phase' = phase, Unsure' = Unsure \cup {n},
           \A m \in Names : m # n => /\ committed'[m] = committed[m]
                                     /\ configuration'[m] = configuration[m]
    PROVE  Store!Next
  <1>1. TablesFit'
    BY InvFitsAfter
  <1>2. \A m \in Names \ {n} : /\ Kept(m)' = Kept(m)
                               /\ Restart(committed[m])' = Restart(committed[m])
    BY SameKept, SameCommitted
  <1>3. Store!Only(n)
    BY <1>1, <1>2 DEF TablesFit, Store!Only
  <1>4. Store!Fail(n)
    BY <1>3 DEF Store!Fail, Unsure
  <1> QED
    BY <1>4 DEF Store!Next

(***************************************************************************)
(* Steps that the store does not see.                                      *)
(***************************************************************************)
LEMMA Unseen ==
    ASSUME \/ phase # "up" /\ phase' # "up"
           \/ UNCHANGED <<phase, configuration>>,
           UNCHANGED <<committed, Unsure>>
    PROVE  UNCHANGED Store!vars
  <1>1. \A n \in Names : Kept(n)' = Kept(n)
    BY DEF Kept, Managed, Stored
  <1>2. \A n \in Names : Restart(committed[n])' = Restart(committed[n])
    BY DEF Restart, Restored, Defaults
  <1>3. (phase = "up")' <=> phase = "up"
    OBVIOUS
  <1> QED
    BY <1>1, <1>2, <1>3 DEF Store!vars, Unsure

(***************************************************************************)
(* A rollback takes back what no name of the store was promised.           *)
(***************************************************************************)
LEMMA RollbackUnseen ==
    ASSUME NEW failed, Rollback(failed)
    PROVE  committed' = committed /\ Unsure' = Unsure \cup failed
  BY DEF Rollback, Unsure

(***************************************************************************)
(* The process ends.                                                       *)
(***************************************************************************)
LEMMA MemoryLost ==
    ASSUME Memoryless
    PROVE  /\ ((phase = "up")') = FALSE
           /\ [n \in Names |-> Kept(n)]' = [n \in Names |-> None]
  BY DEF Memoryless, Kept

LEMMA StoreEnds ==
    ASSUME phase # "down", Memoryless, Rollback({})
    PROVE  Store!Next \/ UNCHANGED Store!vars
  <1>1. committed' = committed /\ Unsure' = Unsure
    BY RollbackUnseen
  <1>2. CASE phase = "up"
    <2>1. \A n \in Names : Restart(committed[n])' = Restart(committed[n])
      BY <1>1 DEF Restart
    <2>2. Store!End
      BY <1>1, <1>2, <2>1, MemoryLost DEF Store!End, Store!Nothing, Unsure
    <2> QED
      BY <2>2 DEF Store!Next
  <1>3. CASE phase # "up"
    BY <1>1, <1>3, Unseen DEF Memoryless
  <1> QED
    BY <1>2, <1>3

LEMMA StoreInterrupted ==
    ASSUME PInv, NEW n \in Names, RemoveInterrupted(n)
    PROVE  Store!Next
  <1>1. /\ phase = "up" /\ n \in Managed /\ Memoryless /\ doubtful' = doubtful
        /\ unsaved = {} /\ unsaved' = {}
        /\ committed' = [rows EXCEPT ![n] = [j \in DOMAIN rows[n] |-> NoEntries]]
    BY DEF RemoveInterrupted, EntriesDeleted, Write
  <1>2. /\ rows \in [Names -> Seq(Configurations)] /\ rows[n] \in Seq(Columns)
        /\ configuration[n] \in Configurations
        /\ \A m \in Names : committed[m] = rows[m]
    BY <1>1 DEF PInv, TypeOK, RowsAreColumns, Managed, Settled
  <1>3. Kept(n) # None
    BY <1>1, <1>2, StoredType, PersistorAssumption DEF Kept, Configurations
  <1>4. Restart(committed'[n]) = IF Restart(rows[n]) = None THEN None ELSE Defaults
    <2> DEFINE cleared == [j \in DOMAIN rows[n] |-> NoEntries]
    <2>1. committed'[n] = cleared
      BY <1>1, <1>2
    <2>2. Len(cleared) = Len(rows[n]) /\ cleared \in Seq(Columns)
      BY <1>2, Cleared
    <2>3. CASE rows[n] = <<>>
      BY <2>1, <2>2, <2>3, EmptySeq DEF Restart
    <2>4. CASE rows[n] # <<>>
      <3>1. 1 \in DOMAIN rows[n] /\ rows[n][1] \in Columns
        BY <1>2, <2>4, EmptySeq, ElementOfSeq, LenProperties
      <3>2. cleared[1] = NoEntries /\ cleared # <<>>
        BY <3>1
      <3>3. Restored(NoEntries) = Defaults
        BY DEF Restored, NoEntries, Defaults
      <3>4. Restored(rows[n][1]) # None
        BY <3>1, RestoredType, PersistorAssumption DEF Configurations
      <3> QED
        BY <2>1, <2>4, <3>2, <3>3, <3>4 DEF Restart
    <2> QED
      BY <2>3, <2>4
  <1>5. \A m \in Names : m # n => committed'[m] = committed[m]
    BY <1>1, <1>2
  <1>6. [m \in Names |-> Restart(committed[m])]'
            = [[m \in Names |-> Restart(committed[m])]
                  EXCEPT ![n] = IF @ = None THEN None ELSE Defaults]
    <2>1. Restart(committed[n])' = Restart(committed'[n])
      BY DEF Restart
    <2>2. \A m \in Names : m # n => Restart(committed[m])' = Restart(committed[m])
      BY <1>5, SameCommitted
    <2> QED
      BY <1>2, <1>4, <2>1, <2>2
  <1>7. Store!Interrupted(n)
    BY <1>1, <1>3, <1>6, MemoryLost DEF Store!Interrupted, Store!Nothing
  <1> QED
    BY <1>7 DEF Store!Next

LEMMA StoreRestored ==
    ASSUME PInv, NotYetFollowed, Initialize
    PROVE  Store!Next
  <1>1. /\ phase = "booting" /\ Restorable /\ phase' = "up"
        /\ configuration' = [n \in Names |-> IF rows[n] = <<>> THEN configuration[n]
                                                               ELSE Restored(rows[n][1])]
        /\ doubtful' = Managed
        /\ UNCHANGED databaseVars
    BY DEF Initialize
  <1>0. /\ unsaved = {} /\ unsaved' = {} /\ committed' = committed
        /\ \A n \in Names : rows[n] = committed[n]
    BY <1>1 DEF PInv, OpenWhileUp, Settled, databaseVars
  <1>2. /\ doubtful' \subseteq doubtful
        /\ configuration \in [Names -> Configurations \cup {None}]
        /\ \A n \in Names : rows[n] \in Seq(Columns)
    BY <1>1 DEF NotYetFollowed, PInv, TypeOK, RowsAreColumns
  <1>3. ASSUME NEW n \in Names
        PROVE  /\ Kept(n)' \in Configurations \cup {None}
               /\ n \notin Managed => Kept(n)' = Restart(rows[n])
    <2>1. Kept(n)' = IF configuration'[n] # None THEN Stored(configuration'[n]) ELSE None
      BY <1>1 DEF Kept, Managed, Stored
    <2>2. CASE rows[n] = <<>>
      <3>1. configuration'[n] = configuration[n]
        BY <1>1, <2>2
      <3>2. configuration[n] # None => Stored(configuration[n]) \in Configurations
        BY <1>2, StoredType
      <3> QED
        BY <2>1, <2>2, <3>1, <3>2 DEF Managed, Restart
    <2>3. CASE rows[n] # <<>>
      <3>1. rows[n][1] \in Columns
        BY <1>2, <2>3, EmptySeq, ElementOfSeq
      <3>2. /\ Restored(rows[n][1]) \in Columns
            /\ Restored(rows[n][1]) \in Configurations
        BY <3>1, RestoredType
      <3>3. Stored(Restored(rows[n][1])) = Restored(rows[n][1])
        BY <3>2, StoredOfColumns
      <3>4. configuration'[n] = Restored(rows[n][1]) /\ configuration'[n] # None
        BY <1>1, <2>3, <3>2, PersistorAssumption DEF Configurations
      <3> QED
        BY <2>1, <2>3, <3>2, <3>3, <3>4 DEF Restart
    <2> QED
      BY <2>2, <2>3
  <1>4. [n \in Names |-> Restart(committed[n])]' = [n \in Names |-> Restart(committed[n])]
    BY <1>0 DEF Restart
  <1>5. Store!Restore
    BY <1>0, <1>1, <1>2, <1>3, <1>4 DEF Store!Restore, Store!Tables
  <1> QED
    BY <1>5 DEF Store!Next

(***************************************************************************)
(* What a statement leaves of the two tables.                              *)
(***************************************************************************)
LEMMA WriteSeen ==
    ASSUME PInv, NEW n \in Names, NEW table, Write(n, table),
           \A m \in Names : m # n => table[m] = rows[m]
    PROVE  /\ \A m \in Names \ Unsure : m # n => committed'[m] = committed[m]
           /\ \/ unsaved = {} /\ unsaved' = {}
              \/ unsaved' = unsaved \cup {n} /\ committed' = committed
           /\ \A m \in Names : m # n => committed'[m] = committed[m]
  BY DEF PInv, Settled, Write, Unsure

LEMMA StoreAdds ==
    ASSUME PInv, PInv', NEW n \in Names, Add(n)
    PROVE  Store!Next
  <1>1. /\ phase' = phase
        /\ configuration' = [configuration EXCEPT ![n] = Defaults]
        /\ \A m \in Names : m # n => configuration'[m] = configuration[m]
    BY DEF Add, PInv, TypeOK
  <1>2. /\ \A m \in Names : \A entries : m # n => Inserted(n, entries)[m] = rows[m]
        /\ Settled
    BY DEF PInv, TypeOK, Inserted
  <1>3. CASE phase = "up" /\ doubtful' = doubtful /\ Commit(n, Inserted(n, Stored(Defaults)))
    <2>1. Unsure' \subseteq Unsure
      BY <1>3 DEF Commit, Unsure
    <2>2. \A m \in Names \ Unsure : m # n => committed'[m] = committed[m]
      BY <1>2, <1>3 DEF Commit, Settled, Unsure
    <2> QED
      BY <1>1, <1>3, <2>1, <2>2, StoreChanges
  <1>4. CASE doubtful' = doubtful \cup {n} /\ \E table : LeaveOpen(n, table)
    <2>1. Unsure' = Unsure \cup {n} /\ committed' = committed
      BY <1>4 DEF LeaveOpen, Unsure
    <2> QED
      BY <1>1, <2>1, StoreFails
  <1>5. CASE Rollback({n})
    BY <1>1, <1>5, RollbackUnseen, StoreFails
  <1>6. ASSUME NEW table, \A m \in Names : m # n => table[m] = rows[m],
               doubtful' = doubtful \cup {n}, Write(n, table)
        PROVE  Store!Next
    <2>1. /\ \A m \in Names : m # n => committed'[m] = committed[m]
          /\ unsaved' \in {unsaved, unsaved \cup {n}}
      BY <1>6, WriteSeen
    <2>2. Unsure' = Unsure \cup {n}
      BY <1>6, <2>1 DEF Unsure
    <2> QED
      BY <1>1, <2>1, <2>2, StoreFails
  <1>7. CASE doubtful' = doubtful \cup {n} /\ UNCHANGED databaseVars
    <2>1. Unsure' = Unsure \cup {n} /\ committed' = committed
      BY <1>7 DEF databaseVars, Unsure
    <2> QED
      BY <1>1, <2>1, StoreFails
  <1>8. CASE phase = "up" /\ StoreServer(n)
    BY <1>2, <1>3, <1>4, <1>5, <1>6, <1>8 DEF StoreServer
  <1> QED
    BY <1>7, <1>8 DEF Add

LEMMA StatementFails ==
    ASSUME PInv', NEW n \in Names, phase' = phase, Fails(n),
           \A m \in Names : m # n => configuration'[m] = configuration[m]
    PROVE  Store!Next
  <1>1. committed' = committed /\ Unsure' = Unsure \cup {n}
    BY RollbackUnseen DEF Fails, databaseVars, Unsure
  <1> QED
    BY <1>1, StoreFails

LEMMA StoreSets ==
    ASSUME PInv, PInv', NotYetFollowed,
           NEW n \in Names, NEW k \in Keys, NEW v \in Values,
           SetValue(n, k, v) \/ SetValueLate(n, k, v)
    PROVE  Store!Next \/ UNCHANGED Store!vars
  <1>1. /\ phase' = phase
        /\ \A m \in Names : m # n => configuration'[m] = configuration[m]
    BY DEF SetValue, SetValueLate, PInv, TypeOK
  <1>2. StoreEntry(n, k, v) =>
            /\ \A m \in Names : m # n => committed'[m] = committed[m]
            /\ \/ unsaved = {} /\ unsaved' = {}
               \/ unsaved' = unsaved \cup {n} /\ committed' = committed
    <2> DEFINE table == [rows EXCEPT ![n][1][k] = Column(v)]
    <2>1. \A m \in Names : m # n => table[m] = rows[m]
      BY DEF PInv, TypeOK
    <2>2. StoreEntry(n, k, v) => Write(n, table)
      BY DEF StoreEntry
    <2> HIDE DEF table
    <2> QED
      BY <2>1, <2>2, WriteSeen
  <1>3. CASE StoreEntry(n, k, v) /\ doubtful' = doubtful \cup {n}
    <2>1. Unsure' = Unsure \cup {n}
      BY <1>2, <1>3 DEF Unsure
    <2> QED
      BY <1>1, <1>2, <1>3, <2>1, StoreFails
  <1>4. CASE Fails(n)
    BY <1>1, <1>4, StatementFails
  <1>5. CASE n \in linked /\ StoreEntry(n, k, v) /\ doubtful' = doubtful
    <2>1. phase = "up"
      BY <1>5 DEF NotYetFollowed
    <2>2. CASE unsaved = {} /\ unsaved' = {}
      <3>1. Unsure' \subseteq Unsure
        BY <1>5, <2>2 DEF Unsure
      <3> QED
        BY <1>1, <1>2, <1>5, <2>1, <3>1, StoreChanges
    <2>3. CASE unsaved' = unsaved \cup {n} /\ committed' = committed
      <3>1. Unsure' = Unsure \cup {n}
        BY <1>5, <2>3 DEF Unsure
      <3> QED
        BY <1>1, <2>3, <3>1, StoreFails
    <2> QED
      BY <1>2, <1>5, <2>2, <2>3
  <1>6. CASE SetValue(n, k, v) /\ n \notin linked /\ UNCHANGED <<databaseVars, doubtful>>
    <2>1. n \in Managed
      BY <1>6 DEF SetValue
    <2>2. Unsure' = Unsure /\ committed' = committed
      BY <1>6 DEF databaseVars, Unsure
    <2>3. CASE n \in doubtful
      <3>1. Unsure' = Unsure \cup {n}
        BY <2>2, <2>3 DEF Unsure
      <3> QED
        BY <1>1, <2>2, <3>1, StoreFails
    <2>4. CASE n \notin doubtful
      <3>1. phase # "up"
        BY <1>6, <2>1, <2>4 DEF PInv, ManagedIsFollowed
      <3> QED
        BY <1>1, <2>2, <3>1, Unseen
    <2> QED
      BY <2>3, <2>4
  <1> QED
    BY <1>3, <1>4, <1>5, <1>6 DEF SetValue, SetValueLate

LEMMA StoreRemoves ==
    ASSUME PInv, PInv', NEW n \in Names, Remove(n)
    PROVE  Store!Next \/ UNCHANGED Store!vars
  <1>1. /\ phase' = phase
        /\ \A m \in Names : m # n => configuration'[m] = configuration[m]
    BY DEF Remove, Unmanage, PInv, TypeOK
  <1>2. /\ \A m \in Names : m # n => /\ RowsDeleted(n, rows)[m] = rows[m]
                                     /\ EntriesDeleted(n)[m] = rows[m]
                                     /\ RowsDeleted(n, committed)[m] = committed[m]
    BY DEF PInv, TypeOK, RowsDeleted, EntriesDeleted
  <1>3. CASE phase = "up" /\ Write(n, RowsDeleted(n, rows)) /\ doubtful' = doubtful \ {n}
    <2>1. /\ \A m \in Names : m # n => committed'[m] = committed[m]
          /\ \/ unsaved = {} /\ unsaved' = {}
             \/ unsaved' = unsaved \cup {n} /\ committed' = committed
      BY <1>2, <1>3, WriteSeen
    <2>2. CASE unsaved = {} /\ unsaved' = {}
      <3>1. Unsure' \subseteq Unsure
        BY <1>3, <2>2 DEF Unsure
      <3> QED
        BY <1>1, <1>3, <2>1, <3>1, StoreChanges
    <2>3. CASE unsaved' = unsaved \cup {n} /\ committed' = committed
      <3>1. Unsure' = Unsure \cup {n}
        BY <1>3, <2>3 DEF Unsure
      <3> QED
        BY <1>1, <2>3, <3>1, StoreFails
    <2> QED
      BY <2>1, <2>2, <2>3
  <1>4. CASE Write(n, EntriesDeleted(n)) /\ doubtful' = doubtful \cup {n}
    <2>1. /\ \A m \in Names : m # n => committed'[m] = committed[m]
          /\ unsaved' \in {unsaved, unsaved \cup {n}}
      BY <1>2, <1>4, WriteSeen
    <2>2. Unsure' = Unsure \cup {n}
      BY <1>4, <2>1 DEF Unsure
    <2> QED
      BY <1>1, <2>1, <2>2, StoreFails
  <1>5. CASE Fails(n)
    BY <1>1, <1>5, StatementFails
  <1>6. CASE /\ phase = "up" /\ Commit(n, RowsDeleted(n, committed))
             /\ doubtful' = (doubtful \cup unsaved) \ {n}
    <2>1. Unsure' \subseteq Unsure
      BY <1>6 DEF Commit, Unsure
    <2>2. \A m \in Names : m # n => committed'[m] = committed[m]
      BY <1>2, <1>6 DEF Commit
    <2> QED
      BY <1>1, <1>6, <2>1, <2>2, StoreChanges
  <1>7. CASE phase = "booting" /\ UNCHANGED <<databaseVars, doubtful>>
    <2>1. Unsure' = Unsure /\ committed' = committed
      BY <1>7 DEF databaseVars, Unsure
    <2> QED
      BY <1>1, <1>7, <2>1, Unseen
  <1> QED
    BY <1>3, <1>4, <1>5, <1>6, <1>7 DEF Remove

LEMMA StoreStep ==
    ASSUME PInv, PInv', NotYetFollowed, [Next]_vars
    PROVE  Store!Next \/ UNCHANGED Store!vars
  <1>1. CASE Boot
    BY <1>1, Unseen DEF Boot, databaseVars, Unsure
  <1>2. CASE Die \/ InitializeCrashes
    <2>1. phase # "down" /\ Memoryless /\ Rollback({})
      BY <1>2 DEF Die, InitializeCrashes
    <2> QED
      BY <2>1, StoreEnds
  <1>3. CASE Initialize
    BY <1>3, StoreRestored
  <1>4. ASSUME NEW n \in Names, ServerDeleted(n)
        PROVE  UNCHANGED Store!vars
    BY <1>4, Unseen DEF ServerDeleted, databaseVars, Unsure
  <1>5. CASE OtherStatementFails
    <2>1. /\ UNCHANGED <<phase, configuration>>
          /\ committed' = committed /\ Unsure' = Unsure
      BY <1>5, RollbackUnseen DEF OtherStatementFails
    <2> QED
      BY <2>1, Unseen
  <1>6. CASE UNCHANGED vars
    BY <1>6, Unseen DEF vars, databaseVars, Unsure
  <1> QED
    BY <1>1, <1>2, <1>3, <1>4, <1>5, <1>6, StoreAdds, StoreSets, StoreRemoves, StoreInterrupted
       DEF Next

(***************************************************************************)
(* Every execution of the persistor is one of DurableServers: whatever the *)
(* order of changes, failed statements, transactions left open and ends of *)
(* the process, what is stored of a name follows the memory, and comes     *)
(* back, until a statement about that very name fails or writes to a       *)
(* transaction that was left open.                                         *)
(***************************************************************************)
THEOREM StoreKept == Spec => KeepsStore
  <1>1. Init => Store!Init
    <2> SUFFICES ASSUME Init PROVE Store!Init
      OBVIOUS
    <2>1. /\ phase = "down" /\ committed = [n \in Names |-> <<>>]
          /\ doubtful = {} /\ unsaved = {}
      BY DEF Init
    <2> QED
      BY <2>1 DEF Store!Init, Store!Nothing, Kept, Restart
  <1>2. PInv /\ PInv' /\ NotYetFollowed /\ [Next]_vars => [Store!Next]_(Store!vars)
    BY StoreStep
  <1> QED
    BY <1>1, <1>2, Invariance, BootInvariance, PTL DEF Spec, KeepsStore, Store!Spec

(***************************************************************************)
(* What the abstract store promises in turn: an end at any moment but      *)
(* within a removal loses nothing.                                         *)
(***************************************************************************)
THEOREM StorePromises == Store!Spec => []Store!Promise
  <1>1. Store!Init => Store!Promise
    BY DEF Store!Init, Store!Promise
  <1>2. ASSUME Store!Promise, [Store!Next]_(Store!vars)
        PROVE  Store!Promise'
    <2> USE DEF Store!Promise
    <2>1. CASE Store!Restore
      BY <1>2, <2>1 DEF Store!Restore
    <2>2. CASE Store!End
      BY <2>2 DEF Store!End
    <2>3. ASSUME NEW n \in Names, Store!Change(n)
          PROVE  Store!Promise'
      BY <1>2, <2>3 DEF Store!Change
    <2>4. ASSUME NEW n \in Names, Store!Fail(n)
          PROVE  Store!Promise'
      BY <1>2, <2>4 DEF Store!Fail, Store!Only
    <2>5. ASSUME NEW n \in Names, Store!Interrupted(n)
          PROVE  Store!Promise'
      BY <2>5 DEF Store!Interrupted
    <2>6. CASE UNCHANGED Store!vars
      BY <1>2, <2>6 DEF Store!vars
    <2> QED
      BY <1>2, <2>1, <2>2, <2>3, <2>4, <2>5, <2>6 DEF Store!Next
  <1> QED
    BY <1>1, <1>2, PTL DEF Store!Spec

(***************************************************************************)
(* What persistor.h says is stored is stored, of the names that no         *)
(* statement failed for and no open transaction holds, if no value spells a*)
(* number: of those names the columns' numeric affinity is the only thing  *)
(* that loses a configuration.                                             *)
(***************************************************************************)
THEOREM OnlyNumeralsAreLost ==
    ASSUME Numerals = {}
    PROVE  Spec => []ConfigurationIsKept
  <1>1. PInv => ConfigurationIsKept
    <2> SUFFICES ASSUME PInv, phase = "up", NEW n \in linked \ (doubtful \cup unsaved),
                        NEW j \in DOMAIN committed[n]
                 PROVE  Restored(committed[n][j]) = configuration[n]
      BY DEF ConfigurationIsKept
    <2>1. /\ linked \subseteq Names
          /\ configuration \in [Names -> Configurations \cup {None}]
      BY DEF PInv, TypeOK
    <2>2. committed[n] # <<>>
      BY EmptySeq
    <2>3. n \in Managed /\ Restored(committed[n][j]) = Stored(configuration[n])
      BY <2>1, <2>2, InvKeeps DEF RestartKeepsServers
    <2>4. configuration[n] \in Columns
      BY <2>1, <2>3 DEF Managed, Configurations, Columns
    <2> QED
      BY <2>3, <2>4, StoredOfColumns
  <1> QED
    BY <1>1, Invariance, PTL
==============================================================================
