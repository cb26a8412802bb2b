------------------------- MODULE ServerStatusProofs -------------------------
(***************************************************************************)
(* Proofs about the status of a server, for any players, people, watched   *)
(* items and values, and any number of undelivered signals.                *)
(***************************************************************************)
EXTENDS ServerStatus, SequenceTheorems, TLAPS

(***************************************************************************)
(* What is in the queue of one item or one player, in order.               *)
(***************************************************************************)

\* Of an item, the last value on its way is the one it has.
QueueEndsCurrent ==
    \A i \in 1..Len(queue), w \in Watched, v \in Values :
        queue[i] = Changed(w, v) /\ v # actual[w] =>
            \E j \in 1..Len(queue) : i < j /\ queue[j] = Changed(w, actual[w])

\* An id is given away again only after a leaving.
JoinsAlternate ==
    \A i, j \in 1..Len(queue), p \in Players :
        i < j /\ queue[i] = Connected(p) /\ queue[j] = Connected(p) =>
            \E k \in 1..Len(queue) : i < k /\ k < j /\ queue[k] = Disconnected(p)

\* Nobody has an id whose last joining was followed by a leaving.
GoneHasLeft ==
    \A i \in 1..Len(queue), p \in Players :
        onServer[p] = None /\ queue[i] = Connected(p) =>
            \E j \in 1..Len(queue) : i < j /\ queue[j] = Disconnected(p)

QueueInv ==
    /\ connection = "none" => queue = <<>>
    /\ QueueEndsCurrent
    /\ JoinsAlternate
    /\ GoneHasLeft

Followed == connection = "open" /\ heard /\ ~corrupt

(***************************************************************************)
(* An id that is shown is not given to another before its leaving.         *)
(***************************************************************************)
ShownLeavesFirst ==
    Followed =>
        \A k \in 1..Len(players), j \in 1..Len(queue) :
            queue[j] = Connected(players[k].id) =>
                \E i \in 1..Len(queue) : i < j /\ queue[i] = Disconnected(players[k].id)

SInv ==
    /\ TypeOK
    /\ QueueInv
    /\ CountIsLength
    /\ ShownIsCurrent
    /\ NoGhostPlayers
    /\ ShownLeavesFirst

------------------------------------------------------------------------------
(* The queue. *)

(***************************************************************************)
(* The queue after a signal was sent.                                      *)
(***************************************************************************)
LEMMA Appended ==
    ASSUME TypeOK, NEW signal \in Signals, queue' = Append(queue, signal)
    PROVE  /\ queue' \in Seq(Signals)
           /\ Len(queue) \in Nat /\ Len(queue') = Len(queue) + 1
           /\ \A i \in 1..Len(queue) : queue'[i] = queue[i]
           /\ queue'[Len(queue) + 1] = signal
  <1>1. queue \in Seq(Signals)
    BY DEF TypeOK
  <1> QED
    BY <1>1, AppendProperties, LenProperties

(***************************************************************************)
(* The queue after its first signal was handled.                           *)
(***************************************************************************)
LEMMA Taken ==
    ASSUME TypeOK, queue # <<>>, queue' = Tail(queue)
    PROVE  /\ queue' \in Seq(Signals)
           /\ Len(queue) \in Nat \ {0} /\ Len(queue') = Len(queue) - 1
           /\ \A i \in 1..Len(queue) - 1 : queue'[i] = queue[i + 1]
           /\ Head(queue) = queue[1]
  <1>1. queue \in Seq(Signals)
    BY DEF TypeOK
  <1>2. Len(queue) \in Nat \ {0}
    BY <1>1, EmptySeq
  <1>3. Tail(queue) \in Seq(Signals) /\ Len(Tail(queue)) = Len(queue) - 1
        /\ \A i \in 1..Len(Tail(queue)) : Tail(queue)[i] = queue[i + 1]
    BY <1>1, HeadTailProperties
  <1> QED
    BY <1>1, <1>2, <1>3

LEMMA AlternatesIntro ==
    ASSUME NEW n \in Nat, Len(queue') = n,
           \A i, j \in 1..n, p \in Players :
               i < j /\ queue'[i] = Connected(p) /\ queue'[j] = Connected(p) =>
                   \E k \in 1..n : i < k /\ k < j /\ queue'[k] = Disconnected(p)
    PROVE  JoinsAlternate'
  BY DEF JoinsAlternate, Connected, Disconnected

(***************************************************************************)
(* A signal that is delivered was the first of its kind.                   *)
(***************************************************************************)
LEMMA TakenInv ==
    ASSUME TypeOK, QueueInv, queue # <<>>, queue' = Tail(queue),
           UNCHANGED <<connection, actual, onServer>>
    PROVE  QueueInv'
  <1> DEFINE n == Len(queue)
  <1>1. /\ n \in Nat \ {0} /\ Len(queue') = n - 1
        /\ \A i \in 1..n - 1 : queue'[i] = queue[i + 1]
    BY Taken
  <1> HIDE DEF n
  <1>2. ASSUME NEW j \in 1..n, j # 1
        PROVE  j - 1 \in 1..n - 1 /\ queue'[j - 1] = queue[j]
    <2>1. j - 1 \in 1..n - 1 /\ j - 1 + 1 = j
      BY <1>1, <1>2
    <2> QED
      BY <1>1, <2>1
  <1>3. ASSUME NEW j \in 1..n - 1
        PROVE  j + 1 \in 1..n /\ j \in Nat
    BY <1>1
  <1>4. QueueEndsCurrent'
    <2> SUFFICES ASSUME NEW i \in 1..n - 1, NEW w \in Watched, NEW v \in Values,
                        queue'[i] = Changed(w, v), v # actual[w]
                 PROVE  \E j \in 1..n - 1 : i < j /\ queue'[j] = Changed(w, actual[w])
      BY <1>1 DEF QueueEndsCurrent, Changed
    <2>1. i + 1 \in 1..n /\ queue[i + 1] = Changed(w, v)
      BY <1>1, <1>3
    <2>2. PICK j \in 1..n : i + 1 < j /\ queue[j] = Changed(w, actual[w])
      BY <2>1 DEF QueueInv, QueueEndsCurrent, n
    <2>3. j # 1 /\ i < j - 1
      BY <1>1, <2>2
    <2> QED
      BY <1>2, <2>2, <2>3
  <1>5. JoinsAlternate'
    <2>a. n - 1 \in Nat /\ Len(queue') = n - 1
      BY <1>1
    <2> SUFFICES ASSUME NEW i \in 1..n - 1, NEW j \in 1..n - 1, NEW p \in Players,
                        i < j, queue'[i] = Connected(p), queue'[j] = Connected(p)
                 PROVE  \E k \in 1..n - 1 : i < k /\ k < j /\ queue'[k] = Disconnected(p)
      BY <2>a, AlternatesIntro
    <2>1. /\ i + 1 \in 1..n /\ j + 1 \in 1..n /\ i + 1 < j + 1
          /\ queue[i + 1] = Connected(p) /\ queue[j + 1] = Connected(p)
      BY <1>1, <1>3
    <2>2. PICK k \in 1..n : i + 1 < k /\ k < j + 1 /\ queue[k] = Disconnected(p)
      BY <2>1 DEF QueueInv, JoinsAlternate, n
    <2>3. k # 1 /\ i < k - 1 /\ k - 1 < j
      BY <1>1, <2>2
    <2> QED
      BY <1>2, <2>2, <2>3
  <1>6. GoneHasLeft'
    <2> SUFFICES ASSUME NEW i \in 1..n - 1, NEW p \in Players,
                        onServer[p] = None, queue'[i] = Connected(p)
                 PROVE  \E j \in 1..n - 1 : i < j /\ queue'[j] = Disconnected(p)
      BY <1>1 DEF GoneHasLeft, Connected, Disconnected
    <2>1. i + 1 \in 1..n /\ queue[i + 1] = Connected(p)
      BY <1>1, <1>3
    <2>2. PICK j \in 1..n : i + 1 < j /\ queue[j] = Disconnected(p)
      BY <2>1 DEF QueueInv, GoneHasLeft, n
    <2>3. j # 1 /\ i < j - 1
      BY <1>1, <2>2
    <2> QED
      BY <1>2, <2>2, <2>3
  <1>7. connection' # "none"
    BY DEF QueueInv
  <1> QED
    BY <1>4, <1>5, <1>6, <1>7 DEF QueueInv

LEMMA EmptiedInv ==
    ASSUME queue' = <<>>
    PROVE  QueueInv'
  <1>1. 1..Len(queue') = {}
    BY EmptySeq
  <1> QED
    BY <1>1 DEF QueueInv, QueueEndsCurrent, JoinsAlternate, GoneHasLeft

LEMMA KeptInv ==
    ASSUME QueueInv, UNCHANGED <<queue, actual, onServer>>, connection' # "none"
    PROVE  QueueInv'
  BY DEF QueueInv, QueueEndsCurrent, JoinsAlternate, GoneHasLeft

LEMMA ItemChangesQueue ==
    ASSUME TypeOK, QueueInv, NEW w \in Watched, NEW v \in Values,
           actual' = [actual EXCEPT ![w] = v],
           queue' = Append(queue, Changed(w, v)),
           UNCHANGED onServer, connection' # "none"
    PROVE  QueueInv'
  <1> DEFINE n == Len(queue)
  <1>1. Changed(w, v) \in Signals
    BY DEF Signals
  <1>2. /\ n \in Nat /\ Len(queue') = n + 1
        /\ \A i \in 1..n : queue'[i] = queue[i]
        /\ queue'[n + 1] = Changed(w, v)
    BY <1>1, Appended
  <1>3. QueueInv
    OBVIOUS
  <1>4. /\ actual'[w] = v
        /\ \A x \in Watched : x # w => actual'[x] = actual[x]
    BY DEF TypeOK
  <1>5. QueueEndsCurrent'
    <2> SUFFICES ASSUME NEW i \in 1..n + 1, NEW x \in Watched, NEW y \in Values,
                        queue'[i] = Changed(x, y), y # actual'[x]
                 PROVE  \E j \in 1..n + 1 : i < j /\ queue'[j] = Changed(x, actual'[x])
      BY <1>2 DEF QueueEndsCurrent, Changed
    <2>1. i \in 1..n
      <3>1. i # n + 1
        BY <1>2, <1>4 DEF Changed
      <3> HIDE DEF n
      <3> QED
        BY <1>2, <3>1
    <2>2. CASE x = w
      <3> HIDE DEF n
      <3> QED
        BY <1>2, <1>4, <2>1, <2>2
    <2>3. CASE x # w
      <3>1. queue[i] = Changed(x, y) /\ y # actual[x] /\ actual'[x] = actual[x]
        BY <1>2, <1>4, <2>1, <2>3
      <3>2. PICK j \in 1..n : i < j /\ queue[j] = Changed(x, actual[x])
        BY <1>3, <2>1, <3>1 DEF QueueInv, QueueEndsCurrent
      <3> HIDE DEF n
      <3> QED
        BY <1>2, <3>1, <3>2
    <2> QED
      BY <2>2, <2>3
  <1>6. \A p \in Players : Changed(w, v) # Connected(p)
    BY DEF Changed, Connected
  <1>7. JoinsAlternate'
    <2>a. n + 1 \in Nat /\ Len(queue') = n + 1
      BY <1>2
    <2> SUFFICES ASSUME NEW i \in 1..n + 1, NEW j \in 1..n + 1, NEW p \in Players,
                        i < j, queue'[i] = Connected(p), queue'[j] = Connected(p)
                 PROVE  \E k \in 1..n + 1 : i < k /\ k < j /\ queue'[k] = Disconnected(p)
      BY <2>a, AlternatesIntro
    <2>1. i # n + 1 /\ j # n + 1
      BY <1>2, <1>6
    <2>2. i \in 1..n /\ j \in 1..n
      <3> HIDE DEF n
      <3> QED
        BY <1>2, <2>1
    <2>3. PICK k \in 1..n : i < k /\ k < j /\ queue[k] = Disconnected(p)
      BY <1>2, <1>3, <2>2 DEF QueueInv, JoinsAlternate
    <2> HIDE DEF n
    <2> QED
      BY <1>2, <2>3
  <1>8. GoneHasLeft'
    <2> SUFFICES ASSUME NEW i \in 1..n + 1, NEW p \in Players,
                        onServer[p] = None, queue'[i] = Connected(p)
                 PROVE  \E j \in 1..n + 1 : i < j /\ queue'[j] = Disconnected(p)
      BY <1>2 DEF GoneHasLeft, Connected, Disconnected
    <2>1. i # n + 1
      BY <1>2, <1>6
    <2>2. i \in 1..n
      <3> HIDE DEF n
      <3> QED
        BY <1>2, <2>1
    <2>3. PICK j \in 1..n : i < j /\ queue[j] = Disconnected(p)
      BY <1>2, <1>3, <2>2 DEF QueueInv, GoneHasLeft
    <2> HIDE DEF n
    <2> QED
      BY <1>2, <2>3
  <1> QED
    BY <1>5, <1>7, <1>8 DEF QueueInv

LEMMA JoinsQueue ==
    ASSUME TypeOK, QueueInv, NEW q \in Players, NEW who \in People,
           onServer[q] = None, onServer' = [onServer EXCEPT ![q] = who],
           queue' = Append(queue, Connected(q)),
           UNCHANGED actual, connection' # "none"
    PROVE  QueueInv'
  <1> DEFINE n == Len(queue)
  <1>1. Connected(q) \in Signals
    BY DEF Signals
  <1>2. /\ n \in Nat /\ Len(queue') = n + 1
        /\ \A i \in 1..n : queue'[i] = queue[i]
        /\ queue'[n + 1] = Connected(q)
    BY <1>1, Appended
  <1>3. /\ QueueInv /\ onServer[q] = None /\ actual' = actual
    OBVIOUS
  <1>4. /\ onServer'[q] # None
        /\ \A p \in Players : p # q => onServer'[p] = onServer[p]
    BY StatusAssumption DEF TypeOK
  <1>5. QueueEndsCurrent'
    <2> SUFFICES ASSUME NEW i \in 1..n + 1, NEW x \in Watched, NEW y \in Values,
                        queue'[i] = Changed(x, y), y # actual[x]
                 PROVE  \E j \in 1..n + 1 : i < j /\ queue'[j] = Changed(x, actual[x])
      BY <1>2, <1>3 DEF QueueEndsCurrent, Changed
    <2>1. i # n + 1
      BY <1>2 DEF Changed, Connected
    <2>2. i \in 1..n
      <3> HIDE DEF n
      <3> QED
        BY <1>2, <2>1
    <2>3. PICK j \in 1..n : i < j /\ queue[j] = Changed(x, actual[x])
      BY <1>2, <1>3, <2>2 DEF QueueInv, QueueEndsCurrent
    <2> HIDE DEF n
    <2> QED
      BY <1>2, <2>3
  <1>6. JoinsAlternate'
    <2>a. n + 1 \in Nat /\ Len(queue') = n + 1
      BY <1>2
    <2> SUFFICES ASSUME NEW i \in 1..n + 1, NEW j \in 1..n + 1, NEW p \in Players,
                        i < j, queue'[i] = Connected(p), queue'[j] = Connected(p)
                 PROVE  \E k \in 1..n + 1 : i < k /\ k < j /\ queue'[k] = Disconnected(p)
      BY <2>a, AlternatesIntro
    <2>1. i \in 1..n
      <3> HIDE DEF n
      <3> QED
        BY <1>2
    <2>2. CASE j = n + 1
      <3>1. p = q
        BY <1>2, <2>2 DEF Connected
      <3>2. PICK k \in 1..n : i < k /\ queue[k] = Disconnected(p)
        BY <1>2, <1>3, <2>1, <3>1 DEF QueueInv, GoneHasLeft
      <3> HIDE DEF n
      <3> QED
        BY <1>2, <2>2, <3>2
    <2>3. CASE j # n + 1
      <3>1. j \in 1..n
        <4> HIDE DEF n
        <4> QED
          BY <1>2, <2>3
      <3>2. PICK k \in 1..n : i < k /\ k < j /\ queue[k] = Disconnected(p)
        BY <1>2, <1>3, <2>1, <3>1 DEF QueueInv, JoinsAlternate
      <3> HIDE DEF n
      <3> QED
        BY <1>2, <3>2
    <2> QED
      BY <2>2, <2>3
  <1>7. GoneHasLeft'
    <2> SUFFICES ASSUME NEW i \in 1..n + 1, NEW p \in Players,
                        onServer'[p] = None, queue'[i] = Connected(p)
                 PROVE  \E j \in 1..n + 1 : i < j /\ queue'[j] = Disconnected(p)
      BY <1>2 DEF GoneHasLeft, Connected, Disconnected
    <2>1. p # q /\ onServer[p] = None
      BY <1>4
    <2>2. i # n + 1
      BY <1>2, <2>1 DEF Connected
    <2>3. i \in 1..n
      <3> HIDE DEF n
      <3> QED
        BY <1>2, <2>2
    <2>4. PICK j \in 1..n : i < j /\ queue[j] = Disconnected(p)
      BY <1>2, <1>3, <2>1, <2>3 DEF QueueInv, GoneHasLeft
    <2> HIDE DEF n
    <2> QED
      BY <1>2, <2>4
  <1> QED
    BY <1>5, <1>6, <1>7 DEF QueueInv

LEMMA LeavesQueue ==
    ASSUME TypeOK, QueueInv, NEW q \in Players,
           onServer' = [onServer EXCEPT ![q] = None],
           queue' = Append(queue, Disconnected(q)),
           UNCHANGED actual, connection' # "none"
    PROVE  QueueInv'
  <1> DEFINE n == Len(queue)
  <1>1. Disconnected(q) \in Signals
    BY DEF Signals
  <1>2. /\ n \in Nat /\ Len(queue') = n + 1
        /\ \A i \in 1..n : queue'[i] = queue[i]
        /\ queue'[n + 1] = Disconnected(q)
    BY <1>1, Appended
  <1>3. /\ QueueInv /\ actual' = actual
    OBVIOUS
  <1>4. \A p \in Players : p # q => onServer'[p] = onServer[p]
    BY DEF TypeOK
  <1>5. QueueEndsCurrent'
    <2> SUFFICES ASSUME NEW i \in 1..n + 1, NEW x \in Watched, NEW y \in Values,
                        queue'[i] = Changed(x, y), y # actual[x]
                 PROVE  \E j \in 1..n + 1 : i < j /\ queue'[j] = Changed(x, actual[x])
      BY <1>2, <1>3 DEF QueueEndsCurrent, Changed
    <2>1. i # n + 1
      BY <1>2 DEF Changed, Disconnected
    <2>2. i \in 1..n
      <3> HIDE DEF n
      <3> QED
        BY <1>2, <2>1
    <2>3. PICK j \in 1..n : i < j /\ queue[j] = Changed(x, actual[x])
      BY <1>2, <1>3, <2>2 DEF QueueInv, QueueEndsCurrent
    <2> HIDE DEF n
    <2> QED
      BY <1>2, <2>3
  <1>6. \A i \in 1..n + 1, p \in Players : queue'[i] = Connected(p) => i \in 1..n
    <2> SUFFICES ASSUME NEW i \in 1..n + 1, NEW p \in Players, queue'[i] = Connected(p)
                 PROVE  i \in 1..n
      OBVIOUS
    <2>1. i # n + 1
      BY <1>2 DEF Connected, Disconnected
    <2> HIDE DEF n
    <2> QED
      BY <1>2, <2>1
  <1>7. JoinsAlternate'
    <2>a. n + 1 \in Nat /\ Len(queue') = n + 1
      BY <1>2
    <2> SUFFICES ASSUME NEW i \in 1..n + 1, NEW j \in 1..n + 1, NEW p \in Players,
                        i < j, queue'[i] = Connected(p), queue'[j] = Connected(p)
                 PROVE  \E k \in 1..n + 1 : i < k /\ k < j /\ queue'[k] = Disconnected(p)
      BY <2>a, AlternatesIntro
    <2>1. i \in 1..n /\ j \in 1..n
      BY <1>6
    <2>2. PICK k \in 1..n : i < k /\ k < j /\ queue[k] = Disconnected(p)
      BY <1>2, <1>3, <2>1 DEF QueueInv, JoinsAlternate
    <2> HIDE DEF n
    <2> QED
      BY <1>2, <2>2
  <1>8. GoneHasLeft'
    <2> SUFFICES ASSUME NEW i \in 1..n + 1, NEW p \in Players,
                        onServer'[p] = None, queue'[i] = Connected(p)
                 PROVE  \E j \in 1..n + 1 : i < j /\ queue'[j] = Disconnected(p)
      BY <1>2 DEF GoneHasLeft, Connected, Disconnected
    <2>1. i \in 1..n
      BY <1>6
    <2>2. CASE p = q
      <3> HIDE DEF n
      <3> QED
        BY <1>2, <2>1, <2>2
    <2>3. CASE p # q
      <3>1. PICK j \in 1..n : i < j /\ queue[j] = Disconnected(p)
        BY <1>2, <1>3, <1>4, <2>1, <2>3 DEF QueueInv, GoneHasLeft
      <3> HIDE DEF n
      <3> QED
        BY <1>2, <3>1
    <2> QED
      BY <2>2, <2>3
  <1> QED
    BY <1>5, <1>7, <1>8 DEF QueueInv

------------------------------------------------------------------------------
(* The list of players. *)

(***************************************************************************)
(* What is left of a list once a position is taken out.                    *)
(***************************************************************************)
LEMMA RemovedAt ==
    ASSUME NEW S, NEW s \in Seq(S), NEW k \in DOMAIN s, NEW t, t = RemoveAt(s, k)
    PROVE  /\ t \in Seq(S)
           /\ DOMAIN t = 1..(Len(s) - 1)
           /\ \A j \in 1..(Len(s) - 1) : t[j] = IF j < k THEN s[j] ELSE s[j + 1]
  <1> DEFINE front == SubSeq(s, 1, k - 1)
             back == SubSeq(s, k + 1, Len(s))
  <1>1. Len(s) \in Nat /\ DOMAIN s = 1..Len(s) /\ \A j \in 1..Len(s) : s[j] \in S
    BY LenProperties, ElementOfSeq
  <1>2. /\ front \in Seq(S) /\ Len(front) = k - 1
        /\ \A j \in 1..k - 1 : front[j] = s[j]
    <2>1. 1 \in Int /\ k - 1 \in Int /\ \A j \in 1..k - 1 : s[j] \in S
      BY <1>1
    <2>2. /\ front \in Seq(S)
          /\ Len(front) = IF 1 <= k - 1 THEN k - 1 - 1 + 1 ELSE 0
          /\ \A j \in 1..k - 1 - 1 + 1 : front[j] = s[1 + j - 1]
      BY ONLY <2>1, SubSeqProperties
    <2> HIDE DEF front
    <2> QED
      BY <1>1, <2>2
  <1>3. /\ back \in Seq(S) /\ Len(back) = Len(s) - k
        /\ \A j \in 1..Len(s) - k : back[j] = s[k + j]
    <2>1. k + 1 \in Int /\ Len(s) \in Int /\ \A j \in k + 1..Len(s) : s[j] \in S
      BY <1>1
    <2>2. /\ back \in Seq(S)
          /\ Len(back) = IF k + 1 <= Len(s) THEN Len(s) - (k + 1) + 1 ELSE 0
          /\ \A j \in 1..Len(s) - (k + 1) + 1 : back[j] = s[k + 1 + j - 1]
      BY ONLY <2>1, SubSeqProperties
    <2> HIDE DEF back
    <2>3. Len(back) = Len(s) - k
      BY <1>1, <2>2
    <2>4. ASSUME NEW j \in 1..Len(s) - k PROVE back[j] = s[k + j]
      <3>1. j \in 1..Len(s) - (k + 1) + 1 /\ k + 1 + j - 1 = k + j
        BY <1>1
      <3> QED
        BY <2>2, <3>1
    <2> QED
      BY <2>2, <2>3, <2>4
  <1>4. t = front \o back
    BY DEF RemoveAt
  <1> HIDE DEF front, back
  <1>5. /\ t \in Seq(S) /\ Len(t) = Len(front) + Len(back)
        /\ \A j \in 1..Len(front) + Len(back) :
              t[j] = IF j <= Len(front) THEN front[j] ELSE back[j - Len(front)]
    <2>1. front \in Seq(S) /\ back \in Seq(S)
      BY <1>2, <1>3
    <2>2. /\ front \o back \in Seq(S)
          /\ Len(front \o back) = Len(front) + Len(back)
          /\ \A j \in 1..Len(front) + Len(back) :
                (front \o back)[j] = IF j <= Len(front) THEN front[j]
                                                      ELSE back[j - Len(front)]
      BY ONLY <2>1, ConcatProperties
    <2> QED
      BY <1>4, <2>2
  <1>6. DOMAIN t = 1..Len(t)
    BY <1>5, LenProperties
  <1>7. Len(t) = Len(s) - 1
    BY <1>1, <1>2, <1>3, <1>5
  <1>8. ASSUME NEW j \in 1..(Len(s) - 1)
        PROVE  t[j] = IF j < k THEN s[j] ELSE s[j + 1]
    <2>1. CASE j < k
      BY <1>1, <1>2, <1>3, <1>5, <2>1
    <2>2. CASE ~(j < k)
      <3>1. t[j] = back[j - Len(front)]
        BY <1>1, <1>2, <1>3, <1>5, <2>2
      <3>2. j - Len(front) \in 1..Len(s) - k /\ k + (j - Len(front)) = j + 1
        BY <1>1, <1>2, <2>2
      <3>3. back[j - Len(front)] = s[k + (j - Len(front))]
        BY <1>3, <3>2
      <3> QED
        BY <2>2, <3>1, <3>2, <3>3
    <2> QED
      BY <2>1, <2>2
  <1> QED
    BY <1>5, <1>6, <1>7, <1>8

(***************************************************************************)
(* A list that is cleared satisfies everything that is said of lists.      *)
(***************************************************************************)
LEMMA ClearedList ==
    ASSUME players' = <<>>
    PROVE  NoGhostPlayers' /\ ShownLeavesFirst'
  <1>1. 1..Len(players') = {} /\ DOMAIN players' = {}
    BY EmptySeq
  <1>2. ToSet(players)' = {}
    BY <1>1 DEF ToSet
  <1>3. IsInjective([i \in 1..Len(players) |-> players[i].id])'
    BY <1>1 DEF IsInjective
  <1> QED
    BY <1>1, <1>2, <1>3 DEF NoGhostPlayers, ShownLeavesFirst

LEMMA ResetStep ==
    ASSUME SInv, reset, QueueInv', UNCHANGED gameVars,
           connection' \in {"none", "open", "condemned"}, heard' \in BOOLEAN,
           queue' \in Seq(Signals)
    PROVE  SInv'
  <1>1. TypeOK
    BY DEF SInv
  <1>2. /\ details' = FALSE /\ shown' = Unknown
        /\ players' = <<>> /\ playerCount' = 0 /\ corrupt' = corrupt
        /\ actual' = actual /\ onServer' = onServer
    BY DEF reset, clearPlayers, gameVars
  <1>3. players' \in Seq([id : Players, who : People \cup {None}]) /\ Len(players') = 0
    BY <1>2, EmptySeq
  <1>4. TypeOK'
    <2>1. shown' \in [Watched -> Values \cup {None}]
      BY <1>2 DEF Unknown
    <2>2. details' \in BOOLEAN /\ corrupt' \in BOOLEAN
      BY <1>1, <1>2, Zenon DEF TypeOK
    <2>4. playerCount' \in Int
      BY <1>2
    <2>3. actual' \in [Watched -> Values] /\ onServer' \in [Players -> People \cup {None}]
      BY <1>1, <1>2 DEF TypeOK
    <2> QED
      BY <1>3, <2>1, <2>2, <2>3, <2>4, Zenon DEF TypeOK
  <1>5. CountIsLength'
    BY <1>2, <1>3 DEF CountIsLength
  <1>6. ShownIsCurrent'
    BY <1>2 DEF ShownIsCurrent, Unknown
  <1> QED
    BY <1>2, <1>4, <1>5, <1>6, ClearedList DEF SInv

(***************************************************************************)
(* What is shown and listed stays, and so does the queue; only a connected *)
(* interface that is attended has something to show for it.                *)
(***************************************************************************)
LEMMA SameShown ==
    ASSUME SInv, QueueInv', UNCHANGED <<shownVars, playerVars, gameVars>>,
           connection' \in {"none", "condemned"}, heard' \in BOOLEAN,
           queue' \in Seq(Signals)
    PROVE  SInv'
  <1>1. TypeOK'
    BY DEF SInv, TypeOK, shownVars, playerVars, gameVars
  <1>2. CountIsLength'
    BY DEF SInv, CountIsLength, playerVars
  <1>3. ShownIsCurrent' /\ NoGhostPlayers' /\ ShownLeavesFirst'
    BY DEF ShownIsCurrent, NoGhostPlayers, ShownLeavesFirst, Followed
  <1> QED
    BY <1>1, <1>2, <1>3 DEF SInv

LEMMA StatusInit == Init => SInv
  <1> SUFFICES ASSUME Init PROVE SInv
    OBVIOUS
  <1>1. /\ players = <<>> /\ queue = <<>> /\ playerCount = 0 /\ connection = "none"
        /\ details = FALSE /\ shown = Unknown /\ corrupt = FALSE /\ heard = FALSE
        /\ actual \in [Watched -> Values] /\ onServer = [p \in Players |-> None]
    BY DEF Init
  <1>2. /\ players \in Seq([id : Players, who : People \cup {None}])
        /\ queue \in Seq(Signals) /\ Len(players) = 0 /\ 1..Len(queue) = {}
    BY <1>1, EmptySeq
  <1>3. TypeOK
    <2>1. shown \in [Watched -> Values \cup {None}]
      BY <1>1 DEF Unknown
    <2>2. onServer \in [Players -> People \cup {None}]
      BY <1>1
    <2>3. details \in BOOLEAN /\ corrupt \in BOOLEAN
      BY <1>1, Zenon
    <2>5. playerCount \in Int
      BY <1>1
    <2>4. connection \in {"none", "open", "condemned"} /\ heard \in BOOLEAN
      BY <1>1
    <2> QED
      BY <1>1, <1>2, <2>1, <2>2, <2>3, <2>4, <2>5, Zenon DEF TypeOK
  <1>4. QueueInv
    BY <1>1, <1>2 DEF QueueInv, QueueEndsCurrent, JoinsAlternate, GoneHasLeft
  <1>5. CountIsLength /\ ShownIsCurrent /\ NoGhostPlayers /\ ShownLeavesFirst
    BY <1>1, <1>2 DEF CountIsLength, ShownIsCurrent, NoGhostPlayers, ShownLeavesFirst,
                      Followed
  <1> QED
    BY <1>3, <1>4, <1>5 DEF SInv

------------------------------------------------------------------------------
(* The coordinator and the connection. *)

LEMMA TrackStep ==
    ASSUME TypeOK, Track
    PROVE  /\ connection' = "open" /\ UNCHANGED gameVars
           /\ queue' \in Seq(Signals) /\ QueueInv'
  <1>1. connection' = "open" /\ UNCHANGED gameVars
    BY DEF Track
  <1>2. CASE queue' = <<>>
    BY <1>1, <1>2, EmptySeq, EmptiedInv
  <1>3. ASSUME NEW w \in Watched, queue' = <<Changed(w, actual[w])>>
        PROVE  queue' \in Seq(Signals) /\ QueueInv'
    <2>1. Changed(w, actual[w]) \in Signals
      BY DEF TypeOK, Signals
    <2>2. queue' \in Seq(Signals) /\ Len(queue') = 1 /\ queue'[1] = Changed(w, actual[w])
      BY <1>3, <2>1
    <2>3. QueueEndsCurrent'
      BY <1>1, <2>2 DEF QueueEndsCurrent, Changed, gameVars
    <2>4. JoinsAlternate'
      <3>1. \A i, j \in 1..1 : ~(i < j)
        OBVIOUS
      <3> QED
        BY <2>2, <3>1, AlternatesIntro
    <2>5. GoneHasLeft'
      BY <2>2 DEF GoneHasLeft, Changed, Connected
    <2> QED
      BY <1>1, <2>2, <2>3, <2>4, <2>5 DEF QueueInv
  <1> QED
    BY <1>1, <1>2, <1>3 DEF Track

LEMMA RegisteredStep ==
    ASSUME SInv, Registered
    PROVE  SInv'
  <1>1. TypeOK
    BY DEF SInv
  <1>2. Track /\ reset /\ heard' = TRUE
    BY DEF Registered
  <1>3. /\ connection' = "open" /\ UNCHANGED gameVars
        /\ queue' \in Seq(Signals) /\ QueueInv'
    BY <1>1, <1>2, TrackStep
  <1>4. heard' \in BOOLEAN
    BY <1>2, Zenon
  <1> QED
    BY <1>2, <1>3, <1>4, ResetStep

LEMMA UnaskedStep ==
    ASSUME SInv, RegisteredUnasked
    PROVE  SInv'
  <1>1. TypeOK
    BY DEF SInv
  <1>2. /\ Track /\ heard' = FALSE /\ details' = TRUE
        /\ shown' = [w \in Watched |-> Updated(shown[w], w, actual[w])]
        /\ UNCHANGED <<players, playerCount, corrupt>>
    BY DEF RegisteredUnasked, playerVars
  <1>3. /\ connection' = "open" /\ actual' = actual /\ onServer' = onServer
        /\ queue' \in Seq(Signals) /\ QueueInv'
    BY <1>1, <1>2, TrackStep DEF gameVars
  <1>4. TypeOK'
    <2>1. shown' \in [Watched -> Values \cup {None}]
      BY <1>1, <1>2 DEF TypeOK, Updated
    <2>2. details' \in BOOLEAN /\ heard' \in BOOLEAN
      BY <1>2, Zenon
    <2> QED
      BY <1>1, <1>2, <1>3, <2>1, <2>2, Zenon DEF TypeOK
  <1>5. CountIsLength'
    BY <1>2 DEF SInv, CountIsLength
  <1>6. ShownIsCurrent'
    BY <1>1, <1>2, <1>3 DEF ShownIsCurrent, Updated, TypeOK
  <1>7. NoGhostPlayers' /\ ShownLeavesFirst'
    BY <1>2 DEF NoGhostPlayers, ShownLeavesFirst, Followed
  <1> QED
    BY <1>3, <1>4, <1>5, <1>6, <1>7 DEF SInv

LEMMA RemovedStep ==
    ASSUME SInv, Removed
    PROVE  SInv'
  <1>1. TypeOK
    BY DEF SInv
  <1>2. /\ details' = FALSE /\ shown' = Unknown
        /\ players' = <<>> /\ playerCount' = 0 /\ corrupt' = FALSE
        /\ connection' = "none" /\ heard' = FALSE /\ queue' = <<>>
        /\ actual' = actual /\ onServer' = onServer
    BY DEF Removed, gameVars
  <1>3. /\ players' \in Seq([id : Players, who : People \cup {None}]) /\ Len(players') = 0
        /\ queue' \in Seq(Signals)
    BY <1>2, EmptySeq
  <1>4. TypeOK'
    <2>1. shown' \in [Watched -> Values \cup {None}]
      BY <1>2 DEF Unknown
    <2>2. details' \in BOOLEAN /\ corrupt' \in BOOLEAN /\ heard' \in BOOLEAN
      BY <1>2, Zenon
    <2>3. playerCount' \in Int
      BY <1>2
    <2>4. connection' \in {"none", "open", "condemned"}
      BY <1>2
    <2> QED
      BY <1>1, <1>2, <1>3, <2>1, <2>2, <2>3, <2>4, Zenon DEF TypeOK
  <1>5. QueueInv'
    BY <1>2, EmptiedInv
  <1>6. CountIsLength' /\ ShownIsCurrent'
    BY <1>2, <1>3 DEF CountIsLength, ShownIsCurrent
  <1> QED
    BY <1>2, <1>4, <1>5, <1>6, ClearedList DEF SInv

LEMMA GoodbyeStep ==
    ASSUME SInv, Goodbye \/ TimedOut \/ IfaceDeleted \/ StateChanges
    PROVE  SInv'
  <1>1. TypeOK /\ QueueInv
    BY DEF SInv
  <1>2. CASE Goodbye \/ TimedOut
    <2>1. /\ connection' = "condemned" /\ heard' = heard /\ queue' = queue
          /\ UNCHANGED gameVars
          /\ reset \/ UNCHANGED <<shownVars, playerVars>>
      BY <1>2 DEF Goodbye, TimedOut, Ends
    <2>2. QueueInv'
      BY <1>1, <2>1, KeptInv DEF gameVars
    <2>3. heard' \in BOOLEAN /\ queue' \in Seq(Signals)
      BY <1>1, <2>1, Zenon DEF TypeOK
    <2> QED
      BY <2>1, <2>2, <2>3, ResetStep, SameShown
  <1>3. CASE IfaceDeleted
    <2>1. /\ connection' = "none" /\ heard' = FALSE /\ queue' = <<>>
          /\ UNCHANGED <<shownVars, playerVars, gameVars>>
      BY <1>3 DEF IfaceDeleted
    <2>2. QueueInv' /\ queue' \in Seq(Signals)
      BY <2>1, EmptiedInv, EmptySeq
    <2>3. heard' \in BOOLEAN
      BY <2>1, Zenon
    <2> QED
      BY <2>1, <2>2, <2>3, SameShown
  <1>4. CASE StateChanges
    <2>1. /\ connection' = connection /\ heard' = heard /\ queue' = queue
          /\ UNCHANGED gameVars /\ reset
      BY <1>4 DEF StateChanges, ifaceVars
    <2>2. QueueInv'
      BY <1>1, <2>1
         DEF QueueInv, QueueEndsCurrent, JoinsAlternate, GoneHasLeft, gameVars,
             Changed, Connected, Disconnected
    <2>3. heard' \in BOOLEAN /\ queue' \in Seq(Signals)
          /\ connection' \in {"none", "open", "condemned"}
      BY <1>1, <2>1, Zenon DEF TypeOK
    <2> QED
      BY <2>1, <2>2, <2>3, ResetStep
  <1> QED
    BY <1>2, <1>3, <1>4

------------------------------------------------------------------------------
(* Signals that are delivered. *)

(***************************************************************************)
(* What was in the queue behind another signal is still in it.             *)
(***************************************************************************)
LEMMA StaysQueued ==
    ASSUME TypeOK, queue # <<>>, queue' = Tail(queue),
           NEW signal, NEW i \in 1..Len(queue), queue[i] = signal, i > 1
    PROVE  \E k \in 1..Len(queue') : k = i - 1 /\ queue'[k] = signal
  <1>1. /\ Len(queue) \in Nat \ {0} /\ Len(queue') = Len(queue) - 1
        /\ \A k \in 1..Len(queue) - 1 : queue'[k] = queue[k + 1]
    BY Taken
  <1>2. i - 1 \in 1..Len(queue') /\ i - 1 + 1 = i
    BY <1>1
  <1> QED
    BY <1>1, <1>2

LEMMA ItemChangedStep ==
    ASSUME SInv, NEW w \in Watched, NEW v \in Values, ItemChanged(w, v)
    PROVE  SInv'
  <1>1. TypeOK /\ QueueInv /\ ShownIsCurrent /\ NoGhostPlayers /\ ShownLeavesFirst
    BY DEF SInv
  <1>2. /\ queue # <<>> /\ Head(queue) = Changed(w, v) /\ queue' = Tail(queue)
        /\ shown' = [shown EXCEPT ![w] = Updated(@, w, v)]
        /\ UNCHANGED <<details, players, playerCount, corrupt, connection, heard,
                       actual, onServer>>
    BY DEF ItemChanged, playerVars, ifaceVars, gameVars
  <1>3. /\ queue' \in Seq(Signals) /\ QueueInv'
        /\ Len(queue) \in Nat \ {0} /\ queue[1] = Changed(w, v)
        /\ Len(queue') = Len(queue) - 1
        /\ \A i \in 1..Len(queue) - 1 : queue'[i] = queue[i + 1]
    BY <1>1, <1>2, Taken, TakenInv
  <1>4. ASSUME NEW signal, signal # Changed(w, v), Contains(queue, signal)
        PROVE  Contains(queue', signal)
    <2>1. PICK i \in 1..Len(queue) : queue[i] = signal
      BY <1>4 DEF Contains
    <2>2. i > 1
      BY <1>3, <1>4, <2>1
    <2> QED
      BY <1>1, <1>2, <2>1, <2>2, StaysQueued DEF Contains
  <1>5. TypeOK'
    <2>1. shown' \in [Watched -> Values \cup {None}]
      BY <1>1, <1>2 DEF TypeOK, Updated
    <2> QED
      BY <1>1, <1>2, <1>3, <2>1, Zenon DEF TypeOK
  <1>6. CountIsLength'
    BY <1>2 DEF SInv, CountIsLength
  <1>7. ShownIsCurrent'
    <2> SUFFICES ASSUME connection = "open", NEW x \in Watched
                 PROVE  \/ shown'[x] \in {None, actual[x]}
                        \/ Contains(queue', Changed(x, actual[x]))
                        \/ x \in Numeric /\ actual[x] \in Garbage
      BY <1>2 DEF ShownIsCurrent, Changed
    <2>1. CASE x # w
      <3>1. shown'[x] = shown[x]
        BY <1>1, <1>2, <2>1 DEF TypeOK
      <3>2. Changed(x, actual[x]) # Changed(w, v)
        BY <2>1 DEF Changed
      <3> QED
        BY <1>1, <1>4, <3>1, <3>2 DEF ShownIsCurrent
    <2>2. CASE x = w /\ v = actual[w]
      <3>1. shown'[w] = v \/ (w \in Numeric /\ v \in Garbage)
        BY <1>1, <1>2 DEF TypeOK, Updated
      <3> QED
        BY <2>2, <3>1
    <2>3. CASE x = w /\ v # actual[w]
      <3>1. 1 \in 1..Len(queue)
        BY <1>3
      <3>2. PICK j \in 1..Len(queue) : 1 < j /\ queue[j] = Changed(w, actual[w])
        BY <1>1, <1>3, <2>3, <3>1 DEF QueueInv, QueueEndsCurrent
      <3> QED
        BY <1>1, <1>2, <2>3, <3>2, StaysQueued DEF Contains
    <2> QED
      BY <2>1, <2>2, <2>3
  <1>8. NoGhostPlayers'
    <2>1. \A p : Disconnected(p) # Changed(w, v)
      BY DEF Disconnected, Changed
    <2>2. ASSUME NEW info \in ToSet(players), Contains(queue, Disconnected(info.id))
          PROVE  Contains(queue', Disconnected(info.id))
      BY <1>4, <2>1, <2>2
    <2> QED
      BY <1>1, <1>2, <2>2 DEF NoGhostPlayers, Disconnected
  <1>9. ShownLeavesFirst'
    <2> SUFFICES ASSUME Followed, NEW k \in 1..Len(players), NEW j \in 1..Len(queue'),
                        queue'[j] = Connected(players[k].id)
                 PROVE  \E i \in 1..Len(queue') :
                            i < j /\ queue'[i] = Disconnected(players[k].id)
      BY <1>2 DEF ShownLeavesFirst, Followed, Connected, Disconnected
    <2>1. j + 1 \in 1..Len(queue) /\ queue[j + 1] = Connected(players[k].id)
      BY <1>3
    <2>2. PICK i \in 1..Len(queue) : i < j + 1 /\ queue[i] = Disconnected(players[k].id)
      BY <1>1, <2>1 DEF ShownLeavesFirst
    <2>3. i > 1
      <3>1. i # 1
        BY <1>3, <2>2 DEF Disconnected, Changed
      <3> QED
        BY <1>3, <3>1
    <2>4. \E m \in 1..Len(queue') : m = i - 1 /\ queue'[m] = Disconnected(players[k].id)
      BY <1>1, <1>2, <2>2, <2>3, StaysQueued
    <2> QED
      BY <1>3, <2>2, <2>4
  <1> QED
    BY <1>3, <1>5, <1>6, <1>7, <1>8, <1>9 DEF SInv

(***************************************************************************)
(* The rest of what is shown of the watched items, for signals about       *)
(* players.                                                                *)
(***************************************************************************)
LEMMA OtherSignalTaken ==
    ASSUME TypeOK, ShownIsCurrent, queue # <<>>, queue' = Tail(queue),
           \A w \in Watched, v \in Values : Head(queue) # Changed(w, v),
           UNCHANGED <<connection, shown, actual>>
    PROVE  ShownIsCurrent'
  <1>1. Len(queue) \in Nat \ {0} /\ Head(queue) = queue[1]
    BY Taken
  <1> SUFFICES ASSUME connection = "open", NEW x \in Watched
               PROVE  \/ shown[x] \in {None, actual[x]}
                      \/ Contains(queue', Changed(x, actual[x]))
                      \/ x \in Numeric /\ actual[x] \in Garbage
    BY DEF ShownIsCurrent, Changed
  <1>2. CASE Contains(queue, Changed(x, actual[x]))
    <2>1. PICK i \in 1..Len(queue) : queue[i] = Changed(x, actual[x])
      BY <1>2 DEF Contains
    <2>2. actual[x] \in Values
      BY DEF TypeOK
    <2>3. i > 1
      BY <1>1, <2>1, <2>2
    <2> QED
      BY <2>1, <2>3, StaysQueued DEF Contains
  <1> QED
    BY <1>2 DEF ShownIsCurrent

(***************************************************************************)
(* An id of the list that its delivered signal is not the leaving of still *)
(* leaves before it joins.                                                 *)
(***************************************************************************)
LEMMA StillLeavesFirst ==
    ASSUME TypeOK, ShownLeavesFirst, Followed, queue # <<>>, queue' = Tail(queue),
           NEW k \in 1..Len(players), Head(queue) # Disconnected(players[k].id),
           NEW j \in 1..Len(queue'), queue'[j] = Connected(players[k].id)
    PROVE  \E i \in 1..Len(queue') : i < j /\ queue'[i] = Disconnected(players[k].id)
  <1>1. /\ Len(queue) \in Nat \ {0} /\ Head(queue) = queue[1]
        /\ Len(queue') = Len(queue) - 1
        /\ \A i \in 1..Len(queue) - 1 : queue'[i] = queue[i + 1]
    BY Taken
  <1>2. j + 1 \in 1..Len(queue) /\ queue[j + 1] = Connected(players[k].id)
    BY <1>1
  <1>3. PICK i \in 1..Len(queue) : i < j + 1 /\ queue[i] = Disconnected(players[k].id)
    BY <1>2 DEF ShownLeavesFirst
  <1>4. i > 1
    <2>1. i # 1
      BY <1>1, <1>3
    <2> QED
      BY <1>1, <2>1
  <1>5. \E m \in 1..Len(queue') : m = i - 1 /\ queue'[m] = Disconnected(players[k].id)
    BY <1>3, <1>4, StaysQueued
  <1> QED
    BY <1>1, <1>3, <1>5

(***************************************************************************)
(* The list holds players, at the positions up to its length.              *)
(***************************************************************************)
LEMMA PlayersType ==
    ASSUME TypeOK
    PROVE  /\ Len(players) \in Nat /\ DOMAIN players = 1..Len(players)
           /\ \A k \in 1..Len(players) :
                 players[k].id \in Players /\ players[k] \in ToSet(players)
  <1>1. players \in Seq([id : Players, who : People \cup {None}])
    BY DEF TypeOK
  <1>2. Len(players) \in Nat /\ DOMAIN players = 1..Len(players)
    BY <1>1, LenProperties
  <1>3. \A k \in 1..Len(players) : players[k] \in [id : Players, who : People \cup {None}]
    BY <1>1, ElementOfSeq
  <1> QED
    BY <1>2, <1>3 DEF ToSet

LEMMA GhostIntro ==
    ASSUME TypeOK', onServer' = onServer,
           Followed' =>
               \A k \in 1..Len(players') :
                   \/ players'[k].who # None
                         /\ onServer[players'[k].id] = players'[k].who
                   \/ Contains(queue', Disconnected(players'[k].id)),
           Followed' =>
               \A a, b \in 1..Len(players') : players'[a].id = players'[b].id => a = b
    PROVE  NoGhostPlayers'
  <1>1. DOMAIN players' = 1..Len(players')
    <2>1. players' \in Seq([id : Players, who : People \cup {None}])
      BY DEF TypeOK
    <2> QED
      BY <2>1, LenProperties
  <1>2. \A info \in ToSet(players') : \E k \in 1..Len(players') : info = players'[k]
    BY <1>1 DEF ToSet
  <1>3. Followed' => IsInjective([i \in 1..Len(players') |-> players'[i].id])
    BY DEF IsInjective
  <1>4. Followed' =>
            \A info \in ToSet(players') :
                \/ info.who # None /\ onServer'[info.id] = info.who
                \/ Contains(queue', Disconnected(info.id))
    BY <1>2
  <1> QED
    BY <1>3, <1>4 DEF NoGhostPlayers, Followed, ToSet, Disconnected, IsInjective

LEMMA PlayerConnectedStep ==
    ASSUME SInv, NEW p \in Players, PlayerConnected(p)
    PROVE  SInv'
  <1> DEFINE new == PlayerInfo(p, onServer[p])
             n == Len(players)
  <1>1. TypeOK /\ QueueInv /\ ShownIsCurrent /\ NoGhostPlayers /\ ShownLeavesFirst
    BY DEF SInv
  <1>2. /\ queue # <<>> /\ Head(queue) = Connected(p) /\ queue' = Tail(queue)
        /\ players' = Append(players, new)
        /\ playerCount' = playerCount + 1
        /\ UNCHANGED <<details, shown, corrupt, connection, heard, actual, onServer>>
    BY DEF PlayerConnected, addPlayer, shownVars, ifaceVars, gameVars
  <1>3. /\ queue' \in Seq(Signals) /\ QueueInv'
        /\ Len(queue) \in Nat \ {0} /\ queue[1] = Connected(p)
        /\ Len(queue') = Len(queue) - 1
        /\ \A i \in 1..Len(queue) - 1 : queue'[i] = queue[i + 1]
    BY <1>1, <1>2, Taken, TakenInv
  <1>4. new \in [id : Players, who : People \cup {None}]
    BY <1>1 DEF PlayerInfo, TypeOK
  <1>5. new.id = p /\ new.who = onServer[p]
    BY DEF PlayerInfo
  <1>6. /\ players' \in Seq([id : Players, who : People \cup {None}])
        /\ n \in Nat /\ Len(players') = n + 1 /\ DOMAIN players' = 1..n + 1
        /\ \A k \in 1..n : players'[k] = players[k]
        /\ players'[n + 1] = new
    <2>1. players \in Seq([id : Players, who : People \cup {None}])
      BY <1>1 DEF TypeOK
    <2> HIDE DEF new
    <2> QED
      BY <1>2, <1>4, <2>1, AppendProperties, LenProperties
  <1>7. \A k \in 1..n : players[k].id \in Players /\ players[k] \in ToSet(players)
    BY <1>1, PlayersType
  <1> HIDE DEF new, n
  <1>8. TypeOK'
    <2>1. playerCount' \in Int
      BY <1>1, <1>2 DEF TypeOK
    <2> QED
      BY <1>1, <1>2, <1>3, <1>6, <2>1, Zenon DEF TypeOK
  <1>9. CountIsLength'
    BY <1>1, <1>2, <1>6 DEF SInv, CountIsLength, TypeOK, n
  <1>10. ShownIsCurrent'
    <2>1. \A w \in Watched, v \in Values : Head(queue) # Changed(w, v)
      BY <1>2 DEF Changed, Connected
    <2> QED
      BY <1>1, <1>2, <2>1, OtherSignalTaken
  <1>11. ASSUME NEW id, Contains(queue, Disconnected(id))
         PROVE  Contains(queue', Disconnected(id))
    <2>1. PICK i \in 1..Len(queue) : queue[i] = Disconnected(id)
      BY <1>11 DEF Contains
    <2>2. i > 1
      BY <1>3, <2>1 DEF Connected, Disconnected
    <2> QED
      BY <1>1, <1>2, <2>1, <2>2, StaysQueued DEF Contains
  <1>12. Followed' = Followed
    BY <1>2 DEF Followed
  <1>13. ASSUME Followed, NEW k \in 1..n
         PROVE  players[k].id # p
    <2>1. 1 \in 1..Len(queue) /\ ~ \E i \in 1..Len(queue) : i < 1
      BY <1>3
    <2> QED
      BY <1>1, <1>3, <1>13, <2>1 DEF ShownLeavesFirst, n
  <1>14. NoGhostPlayers'
    <2>1. ASSUME Followed, NEW k \in 1..n + 1
          PROVE  \/ players'[k].who # None
                    /\ onServer[players'[k].id] = players'[k].who
                 \/ Contains(queue', Disconnected(players'[k].id))
      <3>1. CASE k \in 1..n
        <4>1. \/ players[k].who # None /\ onServer[players[k].id] = players[k].who
              \/ Contains(queue, Disconnected(players[k].id))
          BY <1>1, <1>7, <2>1, <3>1 DEF NoGhostPlayers, Followed
        <4> QED
          BY <1>6, <1>11, <3>1, <4>1
      <3>2. CASE k = n + 1 /\ onServer[p] # None
        BY <1>5, <1>6, <3>2
      <3>3. CASE k = n + 1 /\ onServer[p] = None
        <4>1. 1 \in 1..Len(queue)
          BY <1>3
        <4>2. PICK j \in 1..Len(queue) : 1 < j /\ queue[j] = Disconnected(p)
          BY <1>1, <1>3, <3>3, <4>1 DEF QueueInv, GoneHasLeft
        <4>3. Contains(queue', Disconnected(p))
          BY <1>1, <1>2, <4>2, StaysQueued DEF Contains
        <4> QED
          BY <1>5, <1>6, <3>3, <4>3
      <3> QED
        BY <1>6, <3>1, <3>2, <3>3
    <2>2. ASSUME Followed, NEW a \in 1..n + 1, NEW b \in 1..n + 1,
                 players'[a].id = players'[b].id
          PROVE  a = b
      <3>1. CASE a \in 1..n /\ b \in 1..n
        BY <1>1, <1>6, <2>2, <3>1 DEF NoGhostPlayers, Followed, IsInjective, n
      <3>2. CASE a = n + 1 /\ b \in 1..n
        BY <1>5, <1>6, <1>13, <2>2, <3>2
      <3>3. CASE b = n + 1 /\ a \in 1..n
        BY <1>5, <1>6, <1>13, <2>2, <3>3
      <3> QED
        BY <1>6, <3>1, <3>2, <3>3
    <2> QED
      BY <1>2, <1>6, <1>8, <1>12, <2>1, <2>2, GhostIntro
  <1>15. ShownLeavesFirst'
    <2> SUFFICES ASSUME Followed, NEW k \in 1..n + 1, NEW j \in 1..Len(queue'),
                        queue'[j] = Connected(players'[k].id)
                 PROVE  \E i \in 1..Len(queue') :
                            i < j /\ queue'[i] = Disconnected(players'[k].id)
      BY <1>6, <1>12 DEF ShownLeavesFirst, Connected, Disconnected
    <2>1. CASE k \in 1..n
      <3>1. Head(queue) # Disconnected(players[k].id)
        BY <1>2 DEF Connected, Disconnected
      <3>2. k \in 1..Len(players) /\ players'[k] = players[k]
        BY <1>6, <2>1 DEF n
      <3>3. queue'[j] = Connected(players[k].id)
        BY <3>2
      <3>4. \E i \in 1..Len(queue') : i < j /\ queue'[i] = Disconnected(players[k].id)
        BY <1>1, <1>2, <3>1, <3>2, <3>3, StillLeavesFirst
      <3> QED
        BY <3>2, <3>4
    <2>2. CASE k = n + 1
      <3>1. /\ 1 \in 1..Len(queue) /\ j + 1 \in 1..Len(queue) /\ 1 < j + 1
            /\ queue[j + 1] = Connected(p)
        BY <1>3, <1>5, <1>6, <2>2
      <3>2. PICK i \in 1..Len(queue) : 1 < i /\ i < j + 1 /\ queue[i] = Disconnected(p)
        BY <1>1, <1>3, <3>1 DEF QueueInv, JoinsAlternate
      <3>3. \E m \in 1..Len(queue') : m = i - 1 /\ queue'[m] = Disconnected(p)
        BY <1>1, <1>2, <3>2, StaysQueued
      <3> QED
        BY <1>3, <1>5, <1>6, <2>2, <3>2, <3>3
    <2> QED
      BY <1>6, <2>1, <2>2
  <1> QED
    BY <1>3, <1>8, <1>9, <1>10, <1>14, <1>15 DEF SInv

LEMMA PlayerDisconnectedStep ==
    ASSUME SInv, NEW p \in Players, PlayerDisconnected(p)
    PROVE  SInv'
  <1> DEFINE n == Len(players)
  <1>1. TypeOK /\ QueueInv /\ ShownIsCurrent /\ NoGhostPlayers /\ ShownLeavesFirst
        /\ CountIsLength
    BY DEF SInv
  <1>2. /\ queue # <<>> /\ Head(queue) = Disconnected(p) /\ queue' = Tail(queue)
        /\ playerCount' = playerCount - 1
        /\ removePlayer(p)
        /\ UNCHANGED <<details, shown, connection, heard, actual, onServer>>
    BY DEF PlayerDisconnected, removePlayer, shownVars, ifaceVars, gameVars
  <1>3. /\ queue' \in Seq(Signals) /\ QueueInv'
        /\ Len(queue) \in Nat \ {0} /\ queue[1] = Disconnected(p)
        /\ Len(queue') = Len(queue) - 1
        /\ \A i \in 1..Len(queue) - 1 : queue'[i] = queue[i + 1]
    BY <1>1, <1>2, Taken, TakenInv
  <1>4. ShownIsCurrent'
    <2>1. \A w \in Watched, v \in Values : Head(queue) # Changed(w, v)
      BY <1>2 DEF Changed, Disconnected
    <2> QED
      BY <1>1, <1>2, <2>1, OtherSignalTaken
  <1>5. playerCount' \in Int
    BY <1>1, <1>2 DEF TypeOK
  <1>6. CASE corrupt' = TRUE /\ UNCHANGED players
    <2>1. TypeOK'
      <3>1. corrupt' \in BOOLEAN
        BY <1>6, Zenon
      <3> QED
        BY <1>1, <1>2, <1>3, <1>5, <1>6, <3>1, Zenon DEF TypeOK
    <2>2. CountIsLength' /\ NoGhostPlayers' /\ ShownLeavesFirst'
      BY <1>6 DEF CountIsLength, NoGhostPlayers, ShownLeavesFirst, Followed
    <2> QED
      BY <1>3, <1>4, <2>1, <2>2 DEF SInv
  <1>7. ASSUME NEW gone \in Entries(p), players' = RemoveAt(players, gone),
               UNCHANGED corrupt
        PROVE  SInv'
    <2>1. /\ players \in Seq([id : Players, who : People \cup {None}])
          /\ gone \in DOMAIN players /\ players[gone].id = p
      BY <1>1, <1>7 DEF TypeOK, Entries
    <2>2. /\ players' \in Seq([id : Players, who : People \cup {None}])
          /\ DOMAIN players' = 1..(n - 1)
          /\ \A k \in 1..(n - 1) :
                players'[k] = IF k < gone THEN players[k] ELSE players[k + 1]
      BY <1>7, <2>1, RemovedAt
    <2>3. n \in Nat /\ DOMAIN players = 1..n
          /\ \A k \in 1..n : players[k].id \in Players /\ players[k] \in ToSet(players)
      BY <1>1, PlayersType
    <2>4. DOMAIN players' = 1..Len(players') /\ Len(players') \in Nat
      BY <2>2, LenProperties
    <2>5. Followed' = Followed
      BY <1>2, <1>7 DEF Followed
    <2>6. n \in 1..n
      BY <2>1, <2>3
    <2> HIDE DEF n
    <2>7. Len(players') = n - 1
      BY <2>2, <2>3, <2>4, <2>6
    <2>8. ASSUME NEW k \in 1..(n - 1)
          PROVE  LET at == IF k < gone THEN k ELSE k + 1
                 IN  at \in 1..n /\ at # gone /\ players'[k] = players[at]
      BY <2>1, <2>2, <2>3
    <2>9. ASSUME Followed, NEW at \in 1..n, at # gone
          PROVE  players[at].id # p
      BY <1>1, <2>1, <2>3, <2>9 DEF NoGhostPlayers, Followed, IsInjective, n
    <2>10. TypeOK'
      <3>1. corrupt' = corrupt
        BY <1>7
      <3> QED
        BY <1>1, <1>2, <1>3, <1>5, <2>2, <3>1, Zenon DEF TypeOK
    <2>11. CountIsLength'
      <3>1. corrupt' = corrupt
        BY <1>7
      <3>2. ~corrupt => playerCount = n
        BY <1>1 DEF CountIsLength, n
      <3> QED
        BY <1>2, <2>3, <2>7, <3>1, <3>2 DEF CountIsLength
    <2>12. ASSUME NEW id, id # p, Contains(queue, Disconnected(id))
           PROVE  Contains(queue', Disconnected(id))
      <3>1. PICK i \in 1..Len(queue) : queue[i] = Disconnected(id)
        BY <2>12 DEF Contains
      <3>2. i > 1
        BY <1>3, <2>12, <3>1 DEF Disconnected
      <3> QED
        BY <1>1, <1>2, <3>1, <3>2, StaysQueued DEF Contains
    <2>13. ASSUME Followed, NEW k \in 1..(n - 1)
           PROVE  \/ players'[k].who # None
                     /\ onServer[players'[k].id] = players'[k].who
                  \/ Contains(queue', Disconnected(players'[k].id))
      <3>1. PICK at \in 1..n : at # gone /\ players'[k] = players[at]
        BY <2>8
      <3>2. \/ players[at].who # None /\ onServer[players[at].id] = players[at].who
            \/ Contains(queue, Disconnected(players[at].id))
        BY <1>1, <2>3, <2>13 DEF NoGhostPlayers, Followed
      <3> QED
        BY <2>9, <2>12, <2>13, <3>1, <3>2
    <2>14. ASSUME Followed, NEW a \in 1..(n - 1), NEW b \in 1..(n - 1),
                  players'[a].id = players'[b].id
           PROVE  a = b
      <3>1. \A x, y \in 1..n : players[x].id = players[y].id => x = y
        BY <1>1, <2>14 DEF NoGhostPlayers, Followed, IsInjective, n
      <3>2. (IF a < gone THEN a ELSE a + 1) = (IF b < gone THEN b ELSE b + 1)
        BY <2>8, <2>14, <3>1
      <3> QED
        BY <2>1, <2>3, <3>2
    <2>15. NoGhostPlayers'
      BY <1>2, <2>5, <2>7, <2>10, <2>13, <2>14, GhostIntro
    <2>16. ShownLeavesFirst'
      <3> SUFFICES ASSUME Followed, NEW k \in 1..(n - 1), NEW j \in 1..Len(queue'),
                          queue'[j] = Connected(players'[k].id)
                   PROVE  \E i \in 1..Len(queue') :
                              i < j /\ queue'[i] = Disconnected(players'[k].id)
        BY <2>5, <2>7 DEF ShownLeavesFirst, Connected, Disconnected
      <3>1. PICK at \in 1..n : at # gone /\ players'[k] = players[at]
        BY <2>8
      <3>2. Head(queue) # Disconnected(players[at].id)
        BY <1>2, <2>9, <3>1 DEF Disconnected
      <3>3. at \in 1..Len(players) /\ queue'[j] = Connected(players[at].id)
        BY <3>1 DEF n
      <3>4. \E i \in 1..Len(queue') : i < j /\ queue'[i] = Disconnected(players[at].id)
        BY <1>1, <1>2, <3>2, <3>3, StillLeavesFirst
      <3> QED
        BY <3>1, <3>4
    <2> QED
      BY <1>3, <1>4, <2>10, <2>11, <2>15, <2>16 DEF SInv
  <1> QED
    BY <1>2, <1>6, <1>7 DEF removePlayer

------------------------------------------------------------------------------
(* Signals that are sent. *)

(***************************************************************************)
(* Without a connection nobody hears the game server.                      *)
(***************************************************************************)
LEMMA UnheardStep ==
    ASSUME SInv, connection = "none",
           UNCHANGED <<shownVars, playerVars, ifaceVars, queue>>,
           actual' \in [Watched -> Values], onServer' \in [Players -> People \cup {None}]
    PROVE  SInv'
  <1>1. TypeOK /\ QueueInv
    BY DEF SInv
  <1>2. queue' = <<>> /\ connection' = "none"
    BY <1>1 DEF QueueInv, ifaceVars
  <1>3. QueueInv'
    BY <1>2, EmptiedInv
  <1>4. TypeOK'
    BY <1>1 DEF TypeOK, shownVars, playerVars, ifaceVars
  <1>5. CountIsLength'
    BY DEF SInv, CountIsLength, playerVars
  <1>6. ShownIsCurrent' /\ NoGhostPlayers' /\ ShownLeavesFirst'
    BY <1>2 DEF ShownIsCurrent, NoGhostPlayers, ShownLeavesFirst, Followed
  <1> QED
    BY <1>3, <1>4, <1>5, <1>6 DEF SInv

(***************************************************************************)
(* A signal that is sent leaves everything in the queue, and a joining is  *)
(* of an id whose leaving, if it is shown, is on its way.                  *)
(***************************************************************************)
LEMMA SentStep ==
    ASSUME SInv, NEW signal \in Signals, queue' = Append(queue, signal), QueueInv',
           UNCHANGED <<shownVars, playerVars, ifaceVars>>,
           actual' \in [Watched -> Values], onServer' \in [Players -> People \cup {None}],
           \A w \in Watched : actual'[w] = actual[w] \/ signal = Changed(w, actual'[w]),
           \A p \in Players : \/ onServer'[p] = onServer[p]
                              \/ onServer[p] = None
                              \/ signal = Disconnected(p),
           \A p \in Players : signal = Connected(p) => onServer[p] = None
    PROVE  SInv'
  <1>1. TypeOK /\ ShownIsCurrent /\ NoGhostPlayers /\ ShownLeavesFirst
    BY DEF SInv
  <1>2. /\ queue' \in Seq(Signals) /\ Len(queue) \in Nat /\ Len(queue') = Len(queue) + 1
        /\ \A i \in 1..Len(queue) : queue'[i] = queue[i]
        /\ queue'[Len(queue) + 1] = signal
    BY <1>1, Appended
  <1>3. /\ UNCHANGED <<details, shown, players, playerCount, corrupt, connection, heard>>
        /\ Followed' = Followed
    BY DEF shownVars, playerVars, ifaceVars, Followed
  <1>4. TypeOK'
    BY <1>1, <1>2, <1>3, Zenon DEF TypeOK
  <1>5. CountIsLength'
    BY <1>3 DEF SInv, CountIsLength
  <1>6. \A sent : Contains(queue, sent) \/ sent = signal => Contains(queue', sent)
    BY <1>2 DEF Contains
  <1>7. ShownIsCurrent'
    <2> SUFFICES ASSUME connection = "open", NEW w \in Watched
                 PROVE  \/ shown[w] \in {None, actual'[w]}
                        \/ Contains(queue', Changed(w, actual'[w]))
                        \/ w \in Numeric /\ actual'[w] \in Garbage
      BY <1>3 DEF ShownIsCurrent, Changed
    <2>1. CASE actual'[w] = actual[w]
      BY <1>1, <1>6, <2>1 DEF ShownIsCurrent
    <2>2. CASE signal = Changed(w, actual'[w])
      BY <1>6, <2>2
    <2> QED
      BY <2>1, <2>2
  <1>8. \A k \in 1..Len(players) :
           players[k].id \in Players /\ players[k] \in ToSet(players)
    BY <1>1, PlayersType
  <1>9. NoGhostPlayers'
    <2>1. ASSUME Followed, NEW info \in ToSet(players)
          PROVE  \/ info.who # None /\ onServer'[info.id] = info.who
                 \/ Contains(queue', Disconnected(info.id))
      <3>1. \/ info.who # None /\ onServer[info.id] = info.who
            \/ Contains(queue, Disconnected(info.id))
        BY <1>1, <2>1 DEF NoGhostPlayers, Followed
      <3>2. info.id \in Players
        BY <1>1, PlayersType DEF ToSet
      <3> QED
        BY <1>6, <3>1, <3>2
    <2> QED
      BY <1>1, <1>3, <2>1 DEF NoGhostPlayers, Followed, Disconnected
  <1>10. ShownLeavesFirst'
    <2> SUFFICES ASSUME Followed, NEW k \in 1..Len(players), NEW j \in 1..Len(queue'),
                        queue'[j] = Connected(players[k].id)
                 PROVE  \E i \in 1..Len(queue') :
                            i < j /\ queue'[i] = Disconnected(players[k].id)
      BY <1>3 DEF ShownLeavesFirst, Connected, Disconnected
    <2>1. CASE j \in 1..Len(queue)
      <3>1. PICK i \in 1..Len(queue) : i < j /\ queue[i] = Disconnected(players[k].id)
        BY <1>1, <1>2, <2>1 DEF ShownLeavesFirst
      <3> QED
        BY <1>2, <3>1
    <2>2. CASE j = Len(queue) + 1
      <3>1. onServer[players[k].id] = None
        BY <1>2, <1>8, <2>2
      <3>2. Contains(queue, Disconnected(players[k].id))
        BY <1>1, <1>8, <3>1 DEF NoGhostPlayers, Followed
      <3>3. PICK i \in 1..Len(queue) : queue[i] = Disconnected(players[k].id)
        BY <3>2 DEF Contains
      <3> QED
        BY <1>2, <2>2, <3>3
    <2> QED
      BY <1>2, <2>1, <2>2
  <1> QED
    BY <1>4, <1>5, <1>7, <1>9, <1>10 DEF SInv

LEMMA EmitStep ==
    ASSUME SInv, NEW signal \in Signals, Emit(signal)
    PROVE  /\ UNCHANGED <<shownVars, playerVars, ifaceVars>>
           /\ \/ connection = "none" /\ queue' = queue
              \/ connection # "none" /\ connection' # "none"
                    /\ queue' = Append(queue, signal)
  BY DEF Emit, ifaceVars

LEMMA ItemChangesStep ==
    ASSUME SInv, NEW w \in Watched, NEW v \in Values, ItemChanges(w, v)
    PROVE  SInv'
  <1> DEFINE signal == Changed(w, v)
  <1>1. TypeOK /\ QueueInv
    BY DEF SInv
  <1>2. /\ actual' = [actual EXCEPT ![w] = v] /\ onServer' = onServer /\ Emit(signal)
    BY DEF ItemChanges
  <1>3. signal \in Signals
    BY DEF Signals
  <1>4. /\ actual' \in [Watched -> Values] /\ onServer' \in [Players -> People \cup {None}]
        /\ \A x \in Watched : actual'[x] = actual[x] \/ signal = Changed(x, actual'[x])
    BY <1>1, <1>2 DEF TypeOK
  <1>5. \A p \in Players : signal # Connected(p)
    BY DEF Changed, Connected
  <1>6. CASE connection = "none"
    BY <1>2, <1>3, <1>4, <1>6, EmitStep, UnheardStep
  <1>7. CASE connection # "none"
    <2>1. /\ queue' = Append(queue, signal) /\ connection' # "none"
          /\ UNCHANGED <<shownVars, playerVars, ifaceVars>>
      BY <1>2, <1>3, <1>7, EmitStep
    <2>2. QueueInv'
      BY <1>1, <1>2, <2>1, ItemChangesQueue
    <2> QED
      BY <1>2, <1>3, <1>4, <1>5, <2>1, <2>2, SentStep
  <1> QED
    BY <1>6, <1>7

LEMMA PlayerJoinsStep ==
    ASSUME SInv, NEW q \in Players, NEW who \in People, PlayerJoins(q, who)
    PROVE  SInv'
  <1> DEFINE signal == Connected(q)
  <1>1. TypeOK /\ QueueInv
    BY DEF SInv
  <1>2. /\ onServer[q] = None /\ onServer' = [onServer EXCEPT ![q] = who]
        /\ actual' = actual /\ Emit(signal)
    BY DEF PlayerJoins
  <1>3. signal \in Signals
    BY DEF Signals
  <1>4. /\ actual' \in [Watched -> Values] /\ onServer' \in [Players -> People \cup {None}]
        /\ \A p \in Players : onServer'[p] = onServer[p] \/ onServer[p] = None
    BY <1>1, <1>2 DEF TypeOK
  <1>5. \A p \in Players : signal = Connected(p) => onServer[p] = None
    BY <1>2 DEF Connected
  <1>6. CASE connection = "none"
    BY <1>2, <1>3, <1>4, <1>6, EmitStep, UnheardStep
  <1>7. CASE connection # "none"
    <2>1. /\ queue' = Append(queue, signal) /\ connection' # "none"
          /\ UNCHANGED <<shownVars, playerVars, ifaceVars>>
      BY <1>2, <1>3, <1>7, EmitStep
    <2>2. QueueInv'
      BY <1>1, <1>2, <2>1, JoinsQueue
    <2> QED
      BY <1>2, <1>3, <1>4, <1>5, <2>1, <2>2, SentStep
  <1> QED
    BY <1>6, <1>7

LEMMA PlayerLeavesStep ==
    ASSUME SInv, NEW q \in Players, PlayerLeaves(q)
    PROVE  SInv'
  <1> DEFINE signal == Disconnected(q)
  <1>1. TypeOK /\ QueueInv
    BY DEF SInv
  <1>2. /\ onServer' = [onServer EXCEPT ![q] = None]
        /\ actual' = actual /\ Emit(signal)
    BY DEF PlayerLeaves
  <1>3. signal \in Signals
    BY DEF Signals
  <1>4. /\ actual' \in [Watched -> Values] /\ onServer' \in [Players -> People \cup {None}]
        /\ \A p \in Players : onServer'[p] = onServer[p] \/ signal = Disconnected(p)
    BY <1>1, <1>2 DEF TypeOK
  <1>5. \A p \in Players : signal # Connected(p)
    BY DEF Connected, Disconnected
  <1>6. CASE connection = "none"
    BY <1>2, <1>3, <1>4, <1>6, EmitStep, UnheardStep
  <1>7. CASE connection # "none"
    <2>1. /\ queue' = Append(queue, signal) /\ connection' # "none"
          /\ UNCHANGED <<shownVars, playerVars, ifaceVars>>
      BY <1>2, <1>3, <1>7, EmitStep
    <2>2. QueueInv'
      BY <1>1, <1>2, <2>1, LeavesQueue
    <2> QED
      BY <1>2, <1>3, <1>4, <1>5, <2>1, <2>2, SentStep
  <1> QED
    BY <1>6, <1>7

------------------------------------------------------------------------------
(* The theorems of the specification. *)

LEMMA StatusStep == SInv /\ [Next]_vars => SInv'
  <1> SUFFICES ASSUME SInv, [Next]_vars PROVE SInv'
    OBVIOUS
  <1>1. CASE Goodbye \/ TimedOut \/ IfaceDeleted \/ StateChanges
    BY <1>1, GoodbyeStep
  <1>2. CASE Removed
    BY <1>2, RemovedStep
  <1>3. CASE Registered
    BY <1>3, RegisteredStep
  <1>4. CASE RegisteredUnasked
    BY <1>4, UnaskedStep
  <1>5. ASSUME NEW w \in Watched, NEW v \in Values, ItemChanged(w, v) \/ ItemChanges(w, v)
        PROVE  SInv'
    BY <1>5, ItemChangedStep, ItemChangesStep
  <1>6. ASSUME NEW p \in Players, PlayerConnected(p) \/ PlayerDisconnected(p)
        PROVE  SInv'
    BY <1>6, PlayerConnectedStep, PlayerDisconnectedStep
  <1>7. ASSUME NEW p \in Players, \/ PlayerLeaves(p)
                                  \/ \E who \in People : PlayerJoins(p, who)
        PROVE  SInv'
    BY <1>7, PlayerLeavesStep, PlayerJoinsStep
  <1>8. CASE UNCHANGED vars
    <2>1. UNCHANGED <<details, shown, players, playerCount, corrupt, connection, heard,
                      queue, actual, onServer>>
      BY <1>8 DEF vars, shownVars, playerVars, ifaceVars, gameVars
    <2>2. TypeOK'
      BY <2>1, Zenon DEF SInv, TypeOK
    <2>3. QueueInv' /\ CountIsLength' /\ ShownIsCurrent'
      BY <2>1 DEF SInv, QueueInv, QueueEndsCurrent, JoinsAlternate, GoneHasLeft, CountIsLength,
                  ShownIsCurrent, Changed, Connected, Disconnected
    <2>4. NoGhostPlayers' /\ ShownLeavesFirst'
      BY <2>1 DEF SInv, NoGhostPlayers, ShownLeavesFirst, Followed, Connected, Disconnected
    <2> QED
      BY <2>2, <2>3, <2>4 DEF SInv
  <1> QED
    BY <1>1, <1>2, <1>3, <1>4, <1>5, <1>6, <1>7, <1>8 DEF Next

LEMMA StatusInvariance == Spec => []SInv
  BY StatusInit, StatusStep, PTL DEF Spec

(***************************************************************************)
(* The variables of the status keep their types.                           *)
(***************************************************************************)
THEOREM TypeCorrect == Spec => []TypeOK
  <1>1. SInv => TypeOK
    BY DEF SInv
  <1> QED
    BY <1>1, StatusInvariance, PTL

(***************************************************************************)
(* The published count is the length of the published list, until a player *)
(* is erased who is not in it.                                             *)
(***************************************************************************)
THEOREM CountCorrect == Spec => []CountIsLength
  <1>1. SInv => CountIsLength
    BY DEF SInv
  <1> QED
    BY <1>1, StatusInvariance, PTL

(***************************************************************************)
(* Who is listed is there under that name or about to be taken out, for any*)
(* number of signals on their way and any reuse of ids.                    *)
(***************************************************************************)
THEOREM NoGhosts == Spec => []NoGhostPlayers
  <1>1. SInv => NoGhostPlayers
    BY DEF SInv
  <1> QED
    BY <1>1, StatusInvariance, PTL

(***************************************************************************)
(* What is shown of a connected server is current or about to be replaced. *)
(***************************************************************************)
THEOREM ShownCurrent == Spec => []ShownIsCurrent
  <1>1. SInv => ShownIsCurrent
    BY DEF SInv
  <1> QED
    BY <1>1, StatusInvariance, PTL
=============================================================================
