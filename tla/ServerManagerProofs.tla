------------------------ MODULE ServerManagerProofs ------------------------
(***************************************************************************)
(* Proofs about the server manager, for any servers and interfaces.        *)
(***************************************************************************)
EXTENDS ServerManager, SequenceTheorems, TLAPS

(***************************************************************************)
(* What is left of a list once a position is taken out.                    *)
(***************************************************************************)
LEMMA RemovedAt ==
    ASSUME NEW S, NEW s \in Seq(S), NEW k \in DOMAIN s, NEW t, t = Lists!RemoveAt(s, k)
    PROVE  /\ t \in Seq(S)
           /\ DOMAIN t = 1..(Len(s) - 1)
           /\ \A j \in 1..(Len(s) - 1) : t[j] = IF j < k THEN s[j] ELSE s[j + 1]
  <1> DEFINE front == SubSeq(s, 1, k - 1)
             back == SubSeq(s, k + 1, Len(s))
  <1>1. Len(s) \in Nat /\ DOMAIN s = 1..Len(s) /\ \A j \in 1..Len(s) : s[j] \in S
    BY LenProperties, ElementOfSeq
  <1>2. /\ front \in Seq(S) /\ Len(front) = k - 1
        /\ \A j \in 1..k - 1 : front[j] = s[j]
    <2>1. 1 \in Int /\ k - 1 \in Int /\ \A j \in 1..k - 1 : s[j] \in S
      BY <1>1
    <2>2. /\ front \in Seq(S)
          /\ Len(front) = IF 1 <= k - 1 THEN k - 1 - 1 + 1 ELSE 0
          /\ \A j \in 1..k - 1 - 1 + 1 : front[j] = s[1 + j - 1]
      BY ONLY <2>1, SubSeqProperties
    <2> HIDE DEF front
    <2> QED
      BY <1>1, <2>2
  <1>3. /\ back \in Seq(S) /\ Len(back) = Len(s) - k
        /\ \A j \in 1..Len(s) - k : back[j] = s[k + j]
    <2>1. k + 1 \in Int /\ Len(s) \in Int /\ \A j \in k + 1..Len(s) : s[j] \in S
      BY <1>1
    <2>2. /\ back \in Seq(S)
          /\ Len(back) = IF k + 1 <= Len(s) THEN Len(s) - (k + 1) + 1 ELSE 0
          /\ \A j \in 1..Len(s) - (k + 1) + 1 : back[j] = s[k + 1 + j - 1]
      BY ONLY <2>1, SubSeqProperties
    <2> HIDE DEF back
    <2>3. Len(back) = Len(s) - k
      BY <1>1, <2>2
    <2>4. ASSUME NEW j \in 1..Len(s) - k PROVE back[j] = s[k + j]
      <3>1. j \in 1..Len(s) - (k + 1) + 1 /\ k + 1 + j - 1 = k + j
        BY <1>1
      <3> QED
        BY <2>2, <3>1
    <2> QED
      BY <2>2, <2>3, <2>4
  <1>4. t = front \o back
    BY DEF Lists!RemoveAt
  <1> HIDE DEF front, back
  <1>5. /\ t \in Seq(S) /\ Len(t) = Len(front) + Len(back)
        /\ \A j \in 1..Len(front) + Len(back) :
              t[j] = IF j <= Len(front) THEN front[j] ELSE back[j - Len(front)]
    <2>1. front \in Seq(S) /\ back \in Seq(S)
      BY <1>2, <1>3
    <2>2. /\ front \o back \in Seq(S)
          /\ Len(front \o back) = Len(front) + Len(back)
          /\ \A j \in 1..Len(front) + Len(back) :
                (front \o back)[j] = IF j <= Len(front) THEN front[j]
                                                      ELSE back[j - Len(front)]
      BY ONLY <2>1, ConcatProperties
    <2> QED
      BY <1>4, <2>2
  <1>6. DOMAIN t = 1..Len(t)
    BY <1>5, LenProperties
  <1>7. Len(t) = Len(s) - 1
    BY <1>1, <1>2, <1>3, <1>5
  <1>8. ASSUME NEW j \in 1..(Len(s) - 1)
        PROVE  t[j] = IF j < k THEN s[j] ELSE s[j + 1]
    <2>1. CASE j < k
      BY <1>1, <1>2, <1>3, <1>5, <2>1
    <2>2. CASE ~(j < k)
      <3>1. t[j] = back[j - Len(front)]
        BY <1>1, <1>2, <1>3, <1>5, <2>2
      <3>2. j - Len(front) \in 1..Len(s) - k /\ k + (j - Len(front)) = j + 1
        BY <1>1, <1>2, <2>2
      <3>3. back[j - Len(front)] = s[k + (j - Len(front))]
        BY <1>3, <3>2
      <3> QED
        BY <2>2, <3>1, <3>2, <3>3
    <2> QED
      BY <2>1, <2>2
  <1> QED
    BY <1>5, <1>6, <1>7, <1>8

(***************************************************************************)
(* The inductive invariant.  To what the runs check it adds that a server  *)
(* whose deletion is posted is still there: else its address might be taken*)
(* by a new server, which the deletion would take from the list.           *)
(***************************************************************************)
DoomedIsAlive == \A s \in doomed : object[s] # None

MInv ==
    /\ TypeOK
    /\ UniqueNames
    /\ ListedIsAlive
    /\ DoomedIsAlive
    /\ RegistryIsAlive
    /\ MatchedByPath
    /\ ExportedIsAlive

LEMMA InitInv == Init => MInv
  <1> SUFFICES ASSUME Init PROVE MInv
    OBVIOUS
  <1>1. servers \in Seq(Servers)
    BY EmptySeq DEF Init
  <1>2. TypeOK
    <2>1. 0 \in 0..MaxPings
      BY ManagerAssumption
    <2>2. pings \in [Ifaces -> 0..MaxPings]
      BY <2>1 DEF Init
    <2>3. /\ object \in [Servers -> Descriptions \cup {None}]
          /\ exported \in [Names -> Servers \cup {None}]
          /\ gameServers \in [Ifaces -> Servers \cup {None}]
      BY DEF Init
    <2>4. /\ iface \in [Ifaces -> IfaceStates]
          /\ location \in [Ifaces -> Paths \cup {None}]
      BY DEF Init, IfaceStates
    <2> QED
      BY <1>1, <2>2, <2>3, <2>4 DEF Init, TypeOK
  <1>3. UniqueNames /\ ListedIsAlive /\ DoomedIsAlive
    BY DEF Init, UniqueNames, ListedIsAlive, DoomedIsAlive, Listed
  <1>4. RegistryIsAlive /\ MatchedByPath /\ ExportedIsAlive
    BY DEF Init, RegistryIsAlive, Pinged, MatchedByPath, ExportedIsAlive
  <1> QED
    BY <1>2, <1>3, <1>4 DEF MInv

(***************************************************************************)
(* The list, position by position.                                         *)
(***************************************************************************)
LEMMA ListedPositions ==
    ASSUME TypeOK
    PROVE  /\ Len(servers) \in Nat /\ DOMAIN servers = 1..Len(servers)
           /\ \A k \in DOMAIN servers : servers[k] \in Servers /\ servers[k] \in Listed
           /\ Listed \subseteq Servers
  <1>1. servers \in Seq(Servers)
    BY DEF TypeOK
  <1>2. Len(servers) \in Nat /\ DOMAIN servers = 1..Len(servers)
    BY <1>1, LenProperties
  <1>3. \A k \in DOMAIN servers : servers[k] \in Servers
    BY <1>1, <1>2, ElementOfSeq
  <1> QED
    BY <1>2, <1>3 DEF Listed

------------------------------------------------------------------------------
(* The steps of the list. *)

LEMMA AddStep ==
    ASSUME MInv, NEW s \in Servers, NEW n \in Names, NEW p \in Paths, Add(s, n, p)
    PROVE  MInv'
  <1> DEFINE new == [name |-> n, path |-> p]
             size == Len(servers)
  <1>1. /\ TypeOK /\ UniqueNames /\ ListedIsAlive /\ DoomedIsAlive
        /\ RegistryIsAlive /\ MatchedByPath /\ ExportedIsAlive
    BY DEF MInv
  <1>2. /\ object[s] = None /\ Named(n) = {}
        /\ object' = [object EXCEPT ![s] = new]
        /\ exported' = [exported EXCEPT ![n] = IF @ = None THEN s ELSE @]
        /\ servers' = Append(servers, s)
        /\ UNCHANGED <<doomed, gameServers, iface, location, dropped, pings, stale, crashed>>
    BY DEF Add, ifaceVars
  <1>3. /\ size \in Nat /\ DOMAIN servers = 1..size
        /\ \A k \in DOMAIN servers : servers[k] \in Servers /\ servers[k] \in Listed
    BY <1>1, ListedPositions
  <1>4. /\ servers' \in Seq(Servers) /\ DOMAIN servers' = 1..size + 1
        /\ \A k \in 1..size : servers'[k] = servers[k]
        /\ servers'[size + 1] = s
    <2>1. servers \in Seq(Servers)
      BY <1>1 DEF TypeOK
    <2>2. /\ servers' \in Seq(Servers) /\ Len(servers') = size + 1
          /\ \A k \in 1..size : servers'[k] = servers[k]
          /\ servers'[size + 1] = s
      BY <1>2, <2>1, AppendProperties
    <2> QED
      BY <2>2, LenProperties
  <1>5. new \in Descriptions /\ new.name = n /\ new # None
    BY ManagerAssumption DEF Descriptions
  <1> HIDE DEF new, size
  <1>6. /\ object'[s] = new
        /\ \A other \in Servers : other # s => object'[other] = object[other]
    BY <1>1, <1>2 DEF TypeOK
  <1>7. TypeOK'
    BY <1>1, <1>2, <1>4, <1>5 DEF TypeOK
  <1>8. s \notin Listed /\ s \notin doomed
    BY <1>1, <1>2 DEF ListedIsAlive, DoomedIsAlive
  <1>9. \A k \in 1..size : object'[servers'[k]] = object[servers[k]]
    BY <1>3, <1>4, <1>6, <1>8
  <1>10. \A k \in 1..size : object[servers[k]].name # n
    BY <1>2, <1>3 DEF Named
  <1>11. UniqueNames'
    <2> SUFFICES ASSUME NEW j \in 1..size + 1, NEW k \in 1..size + 1,
                        object'[servers'[j]].name = object'[servers'[k]].name
                 PROVE  j = k
      BY <1>4 DEF UniqueNames
    <2>1. CASE j \in 1..size /\ k \in 1..size
      BY <1>1, <1>3, <1>9, <2>1 DEF UniqueNames
    <2>2. object'[servers'[size + 1]].name = n
      BY <1>4, <1>5, <1>6
    <2>3. CASE j = size + 1 /\ k \in 1..size
      BY <1>9, <1>10, <2>2, <2>3
    <2>4. CASE k = size + 1 /\ j \in 1..size
      BY <1>9, <1>10, <2>2, <2>4
    <2> QED
      BY <1>3, <2>1, <2>3, <2>4
  <1>12. Listed' = Listed \cup {s}
    <2>1. \A k \in 1..size + 1 : k \in 1..size \/ k = size + 1
      BY <1>3
    <2>2. \A k \in 1..size : k \in 1..size + 1
      BY <1>3
    <2>3. size + 1 \in 1..size + 1
      BY <1>3
    <2> QED
      BY <1>3, <1>4, <2>1, <2>2, <2>3 DEF Listed
  <1>13. ListedIsAlive' /\ DoomedIsAlive'
    <2>1. Listed \subseteq Servers /\ doomed \subseteq Servers
      BY <1>1, ListedPositions DEF TypeOK
    <2> QED
      BY <1>1, <1>2, <1>5, <1>6, <1>8, <1>12, <2>1 DEF ListedIsAlive, DoomedIsAlive
  <1>14. RegistryIsAlive'
    BY <1>1, <1>2 DEF RegistryIsAlive, Pinged
  <1>15. MatchedByPath'
    <2>1. \A i \in Pinged \ stale : gameServers[i] \in Servers /\ gameServers[i] # s
      BY <1>1, <1>2 DEF MatchedByPath, Pinged, TypeOK
    <2> QED
      BY <1>1, <1>2, <1>6, <2>1 DEF MatchedByPath, Pinged
  <1>16. ExportedIsAlive'
    <2> SUFFICES ASSUME NEW m \in Names, exported'[m] # None
                 PROVE  object'[exported'[m]] # None /\ object'[exported'[m]].name = m
      BY DEF ExportedIsAlive
    <2>1. CASE exported[m] # None
      <3>1. exported'[m] = exported[m] /\ exported[m] \in Servers
        BY <1>1, <1>2, <2>1 DEF TypeOK
      <3> QED
        BY <1>1, <1>2, <1>6, <2>1, <3>1 DEF ExportedIsAlive
    <2>2. CASE exported[m] = None
      <3>1. m = n /\ exported'[m] = s
        BY <1>1, <1>2, <2>2 DEF TypeOK
      <3> QED
        BY <1>5, <1>6, <3>1
    <2> QED
      BY <2>1, <2>2
  <1> QED
    BY <1>7, <1>11, <1>13, <1>14, <1>15, <1>16 DEF MInv

LEMMA RemoveStep ==
    ASSUME MInv, NEW s \in Servers, Remove(s)
    PROVE  MInv'
  <1> DEFINE size == Len(servers)
  <1>1. /\ TypeOK /\ UniqueNames /\ ListedIsAlive /\ DoomedIsAlive
        /\ RegistryIsAlive /\ MatchedByPath /\ ExportedIsAlive
    BY DEF MInv
  <1>2. /\ s \in Listed
        /\ doomed' = doomed \cup {s}
        /\ UNCHANGED <<object, exported, gameServers, iface, location, dropped, pings,
                       stale, crashed>>
    BY DEF Remove, Named, ifaceVars
  <1>3. /\ size \in Nat /\ DOMAIN servers = 1..size
        /\ \A k \in DOMAIN servers : servers[k] \in Servers /\ servers[k] \in Listed
    BY <1>1, ListedPositions
  <1>4. PICK k \in DOMAIN servers : servers[k] = s /\ servers' = Lists!RemoveAt(servers, k)
    BY DEF Remove
  <1>5. /\ servers' \in Seq(Servers) /\ DOMAIN servers' = 1..(size - 1)
        /\ \A j \in 1..(size - 1) :
              servers'[j] = IF j < k THEN servers[j] ELSE servers[j + 1]
    <2>1. servers \in Seq(Servers)
      BY <1>1 DEF TypeOK
    <2> QED
      BY <1>4, <2>1, RemovedAt
  <1> HIDE DEF size
  <1>6. TypeOK'
    BY <1>1, <1>2, <1>5 DEF TypeOK
  <1>7. \A j \in 1..(size - 1) :
           LET at == IF j < k THEN j ELSE j + 1
           IN  at \in 1..size /\ at # k /\ servers'[j] = servers[at]
    BY <1>3, <1>4, <1>5
  <1>8. UniqueNames'
    <2> SUFFICES ASSUME NEW i \in 1..(size - 1), NEW j \in 1..(size - 1),
                        object'[servers'[i]].name = object'[servers'[j]].name
                 PROVE  i = j
      BY <1>5 DEF UniqueNames
    <2>1. (IF i < k THEN i ELSE i + 1) = (IF j < k THEN j ELSE j + 1)
      BY <1>1, <1>2, <1>3, <1>7 DEF UniqueNames
    <2> QED
      BY <1>3, <1>4, <2>1
  <1>9. \A other \in Listed' : other \in Listed /\ other # s
    <2> SUFFICES ASSUME NEW j \in 1..(size - 1)
                 PROVE  servers'[j] \in Listed /\ servers'[j] # s
      BY <1>5 DEF Listed
    <2>1. PICK at \in 1..size : at # k /\ servers'[j] = servers[at]
      BY <1>7
    <2>2. servers[at] # servers[k]
      BY <1>1, <1>3, <1>4, <2>1 DEF UniqueNames
    <2> QED
      BY <1>3, <1>4, <2>1, <2>2
  <1>10. ListedIsAlive' /\ DoomedIsAlive'
    BY <1>1, <1>2, <1>9 DEF ListedIsAlive, DoomedIsAlive
  <1>11. RegistryIsAlive' /\ MatchedByPath' /\ ExportedIsAlive'
    BY <1>1, <1>2 DEF RegistryIsAlive, MatchedByPath, Pinged, ExportedIsAlive
  <1> QED
    BY <1>6, <1>8, <1>10, <1>11 DEF MInv

LEMMA DeleteStep ==
    ASSUME MInv, NEW s \in Servers, ServerDeleted(s)
    PROVE  MInv'
  <1>1. /\ TypeOK /\ UniqueNames /\ ListedIsAlive /\ DoomedIsAlive
        /\ RegistryIsAlive /\ MatchedByPath /\ ExportedIsAlive
    BY DEF MInv
  <1>2. /\ s \in doomed /\ doomed' = doomed \ {s}
        /\ object' = [object EXCEPT ![s] = None]
        /\ exported' = [n \in Names |-> IF exported[n] = s THEN None ELSE exported[n]]
        /\ stale' = stale \cup {i \in Ifaces : gameServers[i] = s}
        /\ UNCHANGED <<servers, gameServers, iface, location, dropped, pings, crashed>>
    BY DEF ServerDeleted, ifaceVars
  <1>3. TypeOK'
    BY <1>1, <1>2 DEF TypeOK
  <1>4. \A other \in Servers : other # s => object'[other] = object[other]
    BY <1>1, <1>2 DEF TypeOK
  <1>5. s \notin Listed /\ Listed' = Listed
    BY <1>1, <1>2 DEF ListedIsAlive, Listed
  <1>6. UniqueNames'
    <2>1. \A k \in DOMAIN servers : servers[k] \in Servers /\ servers[k] # s
      BY <1>1, <1>5, ListedPositions
    <2> QED
      BY <1>1, <1>2, <1>4, <2>1 DEF UniqueNames
  <1>7. ListedIsAlive' /\ DoomedIsAlive'
    <2>1. Listed \subseteq Servers /\ doomed \subseteq Servers
      BY <1>1, ListedPositions DEF TypeOK
    <2> QED
      BY <1>1, <1>2, <1>4, <1>5, <2>1 DEF ListedIsAlive, DoomedIsAlive
  <1>8. RegistryIsAlive'
    BY <1>1, <1>2 DEF RegistryIsAlive, Pinged
  <1>9. MatchedByPath'
    <2>1. \A i \in Ifaces : gameServers[i] \in Servers \cup {None}
      BY <1>1 DEF TypeOK
    <2> QED
      BY <1>1, <1>2, <1>4, <2>1 DEF MatchedByPath, Pinged
  <1>10. ExportedIsAlive'
    <2>1. \A n \in Names : exported[n] \in Servers \cup {None}
      BY <1>1 DEF TypeOK
    <2> QED
      BY <1>1, <1>2, <1>4, <2>1 DEF ExportedIsAlive
  <1> QED
    BY <1>3, <1>6, <1>7, <1>8, <1>9, <1>10 DEF MInv

------------------------------------------------------------------------------
(* The steps of interfaces and pings leave the list alone. *)

(***************************************************************************)
(* What an interface's step must keep, given that the list is as it was.   *)
(***************************************************************************)
LEMMA IfaceStep ==
    ASSUME MInv, UNCHANGED serverVars,
           TypeOK', RegistryIsAlive', MatchedByPath'
    PROVE  MInv'
  <1>1. UniqueNames' /\ ListedIsAlive' /\ DoomedIsAlive' /\ ExportedIsAlive'
    BY DEF MInv, serverVars, UniqueNames, ListedIsAlive, Listed, DoomedIsAlive,
           ExportedIsAlive
  <1> QED
    BY <1>1 DEF MInv

LEMMA ConnectionStep ==
    ASSUME MInv, NEW i \in Ifaces, NEW p \in Paths, NewConnection(i, p)
    PROVE  MInv'
  <1>1. TypeOK /\ RegistryIsAlive /\ MatchedByPath /\ ListedIsAlive
    BY DEF MInv
  <1>2. /\ iface[i] = "none"
        /\ location' = [location EXCEPT ![i] = p]
        /\ UNCHANGED <<serverVars, pings, dropped, stale, crashed>>
    BY DEF NewConnection
  <1>3. UNCHANGED <<servers, object, doomed, exported>>
    BY <1>2 DEF serverVars
  <1>4. i \notin Pinged
    BY <1>1, <1>2 DEF RegistryIsAlive
  <1>5. CASE \E k \in Matches(p) :
                /\ iface' = [iface EXCEPT ![i] = "open"]
                /\ gameServers' = [gameServers EXCEPT ![i] = servers[k]]
    <2>1. PICK k \in Matches(p) :
                /\ iface' = [iface EXCEPT ![i] = "open"]
                /\ gameServers' = [gameServers EXCEPT ![i] = servers[k]]
      BY <1>5
    <2>2. /\ servers[k] \in Servers /\ object[servers[k]].path = p
          /\ object[servers[k]] # None
      BY <1>1, ListedPositions DEF Matches, ListedIsAlive
    <2>3. TypeOK'
      BY <1>1, <1>2, <1>3, <2>1, <2>2 DEF TypeOK, IfaceStates
    <2>4. Pinged' \subseteq Pinged \cup {i}
      BY <1>1, <2>1 DEF Pinged, TypeOK
    <2>5. RegistryIsAlive'
      BY <1>1, <2>1, <2>4 DEF RegistryIsAlive, Pinged, TypeOK
    <2>6. MatchedByPath'
      <3> SUFFICES ASSUME NEW j \in Pinged' \ stale'
                   PROVE  /\ object'[gameServers'[j]] # None
                          /\ object'[gameServers'[j]].path = location'[j]
        BY DEF MatchedByPath
      <3>1. CASE j = i
        BY <1>1, <1>2, <1>3, <2>1, <2>2, <3>1 DEF TypeOK
      <3>2. CASE j # i
        <4>1. j \in Pinged \ stale /\ j \in Ifaces
          BY <1>2, <2>4, <3>2 DEF Pinged
        <4> QED
          BY <1>1, <1>2, <1>3, <2>1, <3>2, <4>1 DEF TypeOK, MatchedByPath
      <3> QED
        BY <3>1, <3>2
    <2> QED
      BY <1>2, <2>3, <2>5, <2>6, IfaceStep
  <1>6. CASE iface' = [iface EXCEPT ![i] = "stray"] /\ UNCHANGED gameServers
    <2>1. TypeOK'
      BY <1>1, <1>2, <1>3, <1>6 DEF TypeOK, IfaceStates
    <2>2. RegistryIsAlive'
      BY <1>1, <1>4, <1>6 DEF RegistryIsAlive, Pinged, TypeOK
    <2>3. MatchedByPath'
      BY <1>1, <1>2, <1>3, <1>4, <1>6 DEF MatchedByPath, Pinged, TypeOK
    <2> QED
      BY <1>2, <2>1, <2>2, <2>3, IfaceStep
  <1> QED
    BY <1>5, <1>6 DEF NewConnection

(***************************************************************************)
(* A forgotten interface is out of the map; the others are as they were.   *)
(***************************************************************************)
LEMMA ForgetStep ==
    ASSUME MInv, NEW i \in Ifaces, NEW how \in Leaving, Forget(i, how),
           UNCHANGED <<serverVars, location, dropped, crashed>>,
           pings' \in [Ifaces -> 0..MaxPings]
    PROVE  MInv'
  <1>1. TypeOK /\ RegistryIsAlive /\ MatchedByPath
    BY DEF MInv
  <1>2. /\ gameServers' = [gameServers EXCEPT ![i] = None]
        /\ iface' = [iface EXCEPT ![i] = how]
        /\ stale' = stale \ {i}
        /\ UNCHANGED <<servers, object, doomed, exported>>
    BY DEF Forget, serverVars
  <1>3. TypeOK'
    BY <1>1, <1>2 DEF TypeOK, IfaceStates, Leaving
  <1>4. Pinged' = Pinged \ {i}
    BY <1>1, <1>2 DEF Pinged, TypeOK
  <1>5. RegistryIsAlive'
    BY <1>1, <1>2, <1>4 DEF RegistryIsAlive, Pinged, TypeOK
  <1>6. MatchedByPath'
    BY <1>1, <1>2, <1>4 DEF MatchedByPath, Pinged, TypeOK
  <1> QED
    BY <1>3, <1>5, <1>6, IfaceStep

LEMMA IfaceDeletedStep ==
    ASSUME MInv, NEW i \in Ifaces, IfaceDeleted(i)
    PROVE  MInv'
  <1>1. TypeOK /\ RegistryIsAlive /\ MatchedByPath
    BY DEF MInv
  <1>2. /\ iface[i] \in Leaving
        /\ iface' = [iface EXCEPT ![i] = "none"]
        /\ location' = [location EXCEPT ![i] = None]
        /\ dropped' = dropped \ {i}
        /\ UNCHANGED <<servers, object, doomed, exported, gameServers, pings, stale, crashed>>
    BY DEF IfaceDeleted, serverVars
  <1>3. i \notin Pinged /\ Pinged' = Pinged
    BY <1>1, <1>2 DEF RegistryIsAlive, Pinged, Leaving
  <1>4. TypeOK'
    BY <1>1, <1>2 DEF TypeOK, IfaceStates
  <1>5. RegistryIsAlive' /\ MatchedByPath'
    BY <1>1, <1>2, <1>3 DEF RegistryIsAlive, MatchedByPath, Pinged, TypeOK
  <1> QED
    BY <1>2, <1>4, <1>5, IfaceStep DEF serverVars

(***************************************************************************)
(* Steps that count pings, lose a connection or die change nothing else.   *)
(***************************************************************************)
LEMMA QuietStep ==
    ASSUME MInv, UNCHANGED <<serverVars, gameServers, iface, location, stale>>,
           pings' \in [Ifaces -> 0..MaxPings], dropped' \subseteq Ifaces,
           crashed' \in BOOLEAN
    PROVE  MInv'
  <1>1. TypeOK'
    BY DEF MInv, serverVars, TypeOK
  <1>2. RegistryIsAlive' /\ MatchedByPath'
    BY DEF MInv, serverVars, RegistryIsAlive, MatchedByPath, Pinged
  <1> QED
    BY <1>1, <1>2, IfaceStep

LEMMA RestartStep ==
    ASSUME Restart
    PROVE  MInv'
  <1>1. servers' = <<>>
    BY DEF Restart
  <1>2. servers' \in Seq(Servers)
    BY <1>1, EmptySeq
  <1>3. TypeOK'
    <2>1. 0 \in 0..MaxPings
      BY ManagerAssumption
    <2>2. pings' \in [Ifaces -> 0..MaxPings]
      BY <2>1 DEF Restart
    <2>3. /\ object' \in [Servers -> Descriptions \cup {None}]
          /\ exported' \in [Names -> Servers \cup {None}]
          /\ gameServers' \in [Ifaces -> Servers \cup {None}]
      BY DEF Restart
    <2>4. /\ iface' \in [Ifaces -> IfaceStates]
          /\ location' \in [Ifaces -> Paths \cup {None}]
      BY DEF Restart, IfaceStates
    <2> QED
      BY <1>2, <2>2, <2>3, <2>4 DEF Restart, TypeOK
  <1>4. UniqueNames' /\ ListedIsAlive' /\ DoomedIsAlive'
    BY DEF Restart, UniqueNames, ListedIsAlive, DoomedIsAlive, Listed
  <1>5. RegistryIsAlive' /\ MatchedByPath' /\ ExportedIsAlive'
    BY DEF Restart, RegistryIsAlive, Pinged, MatchedByPath, ExportedIsAlive
  <1> QED
    BY <1>3, <1>4, <1>5 DEF MInv

LEMMA StepInv == MInv /\ [Next]_vars => MInv'
  <1> SUFFICES ASSUME MInv, [Next]_vars PROVE MInv'
    OBVIOUS
  <1>1. TypeOK
    BY DEF MInv
  <1>2. ASSUME NEW s \in Servers, NEW n \in Names, NEW p \in Paths, Add(s, n, p)
        PROVE  MInv'
    BY <1>2, AddStep
  <1>3. ASSUME NEW s \in Servers, Remove(s) PROVE MInv'
    BY <1>3, RemoveStep
  <1>4. ASSUME NEW s \in Servers, ServerDeleted(s) PROVE MInv'
    BY <1>4, DeleteStep
  <1>5. ASSUME NEW i \in Ifaces, NEW p \in Paths, NewConnection(i, p) PROVE MInv'
    BY <1>5, ConnectionStep
  <1>6. ASSUME NEW i \in Ifaces, AboutToQuit(i) PROVE MInv'
    <2>1. /\ Forget(i, "parted") /\ UNCHANGED <<serverVars, location, dropped, crashed>>
          /\ pings' \in [Ifaces -> 0..MaxPings]
      BY <1>1, <1>6 DEF AboutToQuit, TypeOK
    <2> QED
      BY <2>1, ForgetStep DEF Leaving
  <1>7. ASSUME NEW i \in Ifaces, IfaceDeleted(i) PROVE MInv'
    BY <1>7, IfaceDeletedStep
  <1>8. ASSUME NEW i \in Ifaces, ConnectionDrops(i) PROVE MInv'
    <2>1. /\ UNCHANGED <<serverVars, gameServers, iface, location, stale>>
          /\ pings' \in [Ifaces -> 0..MaxPings] /\ dropped' \subseteq Ifaces
          /\ crashed' \in BOOLEAN
      BY <1>1, <1>8 DEF ConnectionDrops, TypeOK
    <2> QED
      BY <2>1, QuietStep
  <1>9. ASSUME NEW i \in Ifaces, pings[i] > 0
        PROVE  [pings EXCEPT ![i] = @ - 1] \in [Ifaces -> 0..MaxPings]
    BY <1>1, <1>9, ManagerAssumption DEF TypeOK
  <1>10. ASSUME NEW i \in Ifaces, PingAnswered(i) PROVE MInv'
    <2>1. /\ UNCHANGED <<serverVars, gameServers, iface, location, stale>>
          /\ pings' \in [Ifaces -> 0..MaxPings] /\ dropped' \subseteq Ifaces
          /\ crashed' \in BOOLEAN
      BY <1>1, <1>9, <1>10 DEF PingAnswered, TypeOK, ifaceVars
    <2> QED
      BY <2>1, QuietStep
  <1>11. ASSUME NEW i \in Ifaces, PingFails(i) PROVE MInv'
    <2>1. /\ Forget(i, "condemned")
          /\ UNCHANGED <<serverVars, location, dropped, crashed>>
          /\ pings' \in [Ifaces -> 0..MaxPings]
      BY <1>9, <1>11 DEF PingFails
    <2> QED
      BY <2>1, ForgetStep DEF Leaving
  <1>12. ASSUME NEW i \in Ifaces, PingFailsBadly(i) \/ AboutToQuitLate(i) PROVE MInv'
    <2>1. /\ UNCHANGED <<serverVars, gameServers, iface, location, stale>>
          /\ pings' \in [Ifaces -> 0..MaxPings] /\ dropped' \subseteq Ifaces
          /\ crashed' \in BOOLEAN
      BY <1>1, <1>12 DEF PingFailsBadly, AboutToQuitLate, TypeOK, ifaceVars
    <2> QED
      BY <2>1, QuietStep
  <1>13. ASSUME PingAllServers PROVE MInv'
    <2>1. pings' \in [Ifaces -> 0..MaxPings]
      BY <1>1, <1>13, ManagerAssumption DEF PingAllServers, TypeOK
    <2>2. /\ UNCHANGED <<serverVars, gameServers, iface, location, stale>>
          /\ dropped' \subseteq Ifaces /\ crashed' \in BOOLEAN
      BY <1>1, <1>13 DEF PingAllServers, TypeOK, ifaceVars
    <2> QED
      BY <2>1, <2>2, QuietStep
  <1>14. ASSUME Handle PROVE MInv'
    BY <1>2, <1>3, <1>4, <1>5, <1>6, <1>7, <1>8, <1>10, <1>11, <1>12, <1>13, <1>14
       DEF Handle
  <1>15. ASSUME UNCHANGED vars PROVE MInv'
    <2>1. /\ UNCHANGED <<serverVars, gameServers, iface, location, stale>>
          /\ pings' \in [Ifaces -> 0..MaxPings] /\ dropped' \subseteq Ifaces
          /\ crashed' \in BOOLEAN
      BY <1>1, <1>15 DEF vars, ifaceVars, TypeOK
    <2> QED
      BY <2>1, QuietStep
  <1> QED
    BY <1>14, <1>15, RestartStep DEF Next

LEMMA Invariance == Spec => []MInv
  BY InitInv, StepInv, PTL DEF Spec

------------------------------------------------------------------------------
(* The theorems of the specification. *)

(***************************************************************************)
(* The variables keep their types through every reuse of an address.       *)
(***************************************************************************)
THEOREM TypeCorrect == Spec => []TypeOK
  <1>1. MInv => TypeOK
    BY DEF MInv
  <1> QED
    BY <1>1, Invariance, PTL

(***************************************************************************)
(* No two managed servers share a name: what find() finds is the server.   *)
(***************************************************************************)
THEOREM NamesAreUnique == Spec => []UniqueNames
  <1>1. MInv => UniqueNames
    BY DEF MInv
  <1> QED
    BY <1>1, Invariance, PTL

(***************************************************************************)
(* The list holds live servers only, none of which is to be deleted.       *)
(***************************************************************************)
THEOREM ListedAlive == Spec => []ListedIsAlive
  <1>1. MInv => ListedIsAlive
    BY DEF MInv
  <1> QED
    BY <1>1, Invariance, PTL

(***************************************************************************)
(* Pings go through live interfaces only.                                  *)
(***************************************************************************)
THEOREM RegistryAlive == Spec => []RegistryIsAlive
  <1>1. MInv => RegistryIsAlive
    BY DEF MInv
  <1> QED
    BY <1>1, Invariance, PTL

(***************************************************************************)
(* Until its server is deleted, an interface speaks for the installation   *)
(* its game server runs from.                                              *)
(***************************************************************************)
THEOREM Matched == Spec => []MatchedByPath
  <1>1. MInv => MatchedByPath
    BY DEF MInv
  <1> QED
    BY <1>1, Invariance, PTL

(***************************************************************************)
(* The bus never reaches a deleted server, or one under a foreign name.    *)
(***************************************************************************)
THEOREM ExportedAlive == Spec => []ExportedIsAlive
  <1>1. MInv => ExportedIsAlive
    BY DEF MInv
  <1> QED
    BY <1>1, Invariance, PTL
=============================================================================
