---------------------------- MODULE SteamIdProofs ----------------------------
(***************************************************************************)
(* Proofs about SteamId, for fields of any width.                          *)
(***************************************************************************)
EXTENDS SteamId, TLAPS

(***************************************************************************)
(* Dividing takes a number of two digits apart.                            *)
(***************************************************************************)
LEMMA DivMod ==
    ASSUME NEW d \in Nat, d > 0, NEW high \in Int, NEW low \in 0..d - 1
    PROVE  /\ (low + d * high) % d = low
           /\ (low + d * high) \div d = high
  OBVIOUS

LEMMA ModInRange ==
    ASSUME NEW d \in Nat, d > 0, NEW n \in Int
    PROVE  n % d \in 0..d - 1 /\ n \div d \in Int
  OBVIOUS

LEMMA ModOfSmall ==
    ASSUME NEW d \in Nat, d > 0, NEW n \in 0..d - 1
    PROVE  n % d = n
  OBVIOUS

(***************************************************************************)
(* Every number is the bits of an id.                                      *)
(***************************************************************************)
LEMMA StructType ==
    ASSUME NEW n \in Int
    PROVE  Struct(n) \in Ids
  <1> DEFINE a == n \div 2
             i == a \div Accounts
             t == i \div Instances
  <1>1. n % 2 \in 0..1 /\ a \in Int
    BY ModInRange
  <1> HIDE DEF a
  <1>2. a % Accounts \in 0..Accounts - 1 /\ i \in Int
    BY <1>1, ModInRange, SteamIdAssumption
  <1> HIDE DEF i
  <1>3. i % Instances \in 0..Instances - 1 /\ t \in Int
    BY <1>2, ModInRange, SteamIdAssumption
  <1> HIDE DEF t
  <1>4. t % Types \in 0..Types - 1 /\ t \div Types \in Int
    BY <1>3, ModInRange, SteamIdAssumption
  <1>5. (t \div Types) % Universes \in 0..Universes - 1
    BY <1>4, ModInRange, SteamIdAssumption
  <1>6. Struct(n) = [y |-> n % 2, accountNumber |-> a % Accounts,
                     instance |-> i % Instances, type |-> t % Types,
                     universe |-> (t \div Types) % Universes]
    BY DEF Struct, a, i, t
  <1> QED
    BY <1>1, <1>2, <1>3, <1>4, <1>5, <1>6 DEF Ids

LEMMA CombineType ==
    ASSUME NEW y \in Nat, NEW z \in Nat, NEW u \in Nat
    PROVE  Combine(y, z, u) \in Ids
  <1>1. y % 2 \in 0..1
    BY ModInRange
  <1>2. z % Accounts \in 0..Accounts - 1
    BY ModInRange, SteamIdAssumption
  <1>3. u % Universes \in 0..Universes - 1
    BY ModInRange, SteamIdAssumption
  <1> QED
    BY <1>1, <1>2, <1>3, SteamIdAssumption DEF Combine, Ids

(***************************************************************************)
(* The struct and the number are two views of the same bits.               *)
(***************************************************************************)
THEOREM StructOfNumber ==
    ASSUME NEW s \in Ids
    PROVE  Struct(Number(s)) = s
  <1> DEFINE t == s.type + Types * s.universe
             i == s.instance + Instances * t
             a == s.accountNumber + Accounts * i
  <1>1. /\ s.y \in 0..1 /\ s.accountNumber \in 0..Accounts - 1
        /\ s.instance \in 0..Instances - 1 /\ s.type \in 0..Types - 1
        /\ s.universe \in 0..Universes - 1
    BY DEF Ids
  <1>2. t \in Int /\ t % Types = s.type /\ t \div Types = s.universe
    <2>1. Types \in Nat /\ Types > 0 /\ s.universe \in Int
      BY <1>1, SteamIdAssumption
    <2>2. t % Types = s.type /\ t \div Types = s.universe
      BY <1>1, <2>1, DivMod
    <2> QED
      BY <1>1, <2>1, <2>2
  <1> HIDE DEF t
  <1>3. i \in Int /\ i % Instances = s.instance /\ i \div Instances = t
    <2>1. Instances \in Nat /\ Instances > 0
      BY SteamIdAssumption
    <2>2. i % Instances = s.instance /\ i \div Instances = t
      BY <1>1, <1>2, <2>1, DivMod
    <2> QED
      BY <1>1, <1>2, <2>1, <2>2
  <1> HIDE DEF i
  <1>4. a \in Int /\ a % Accounts = s.accountNumber /\ a \div Accounts = i
    <2>1. Accounts \in Nat /\ Accounts > 0
      BY SteamIdAssumption
    <2>2. a % Accounts = s.accountNumber /\ a \div Accounts = i
      BY <1>1, <1>3, <2>1, DivMod
    <2> QED
      BY <1>1, <1>3, <2>1, <2>2
  <1> HIDE DEF a
  <1>5. (s.y + 2 * a) % 2 = s.y /\ (s.y + 2 * a) \div 2 = a
    BY <1>1, <1>4, DivMod
  <1>6. Number(s) = s.y + 2 * a
    BY DEF Number, t, i, a
  <1>7. s.universe % Universes = s.universe
    BY <1>1, ModOfSmall, SteamIdAssumption
  <1>8. Struct(Number(s)) = [y |-> s.y, accountNumber |-> s.accountNumber,
                             instance |-> s.instance, type |-> s.type,
                             universe |-> s.universe]
    BY <1>2, <1>3, <1>4, <1>5, <1>6, <1>7 DEF Struct
  <1> QED
    BY <1>8 DEF Ids

(***************************************************************************)
(* The quotient of a bounded number is bounded.                            *)
(***************************************************************************)
LEMMA Parts ==
    ASSUME NEW d \in Nat, d > 0, NEW high \in Nat, NEW n \in Nat, n < d * high
    PROVE  /\ n % d \in 0..d - 1 /\ n \div d \in Nat
           /\ n \div d < high
           /\ n = (n % d) + d * (n \div d)
  <1>1. n % d \in 0..d - 1 /\ n \div d \in Nat /\ n = (n % d) + d * (n \div d)
    OBVIOUS
  <1>2. ASSUME NEW q \in Nat, NEW r \in Nat, n = r + d * q, q >= high
        PROVE  FALSE
    <2>1. d * q >= d * high
      BY <1>2
    <2> QED
      BY <1>2, <2>1
  <1> QED
    BY <1>1, <1>2

(***************************************************************************)
(* No number is lost: ids are equal exactly when their numbers are, which  *)
(* is what operator== compares.                                            *)
(***************************************************************************)
THEOREM NumberOfStruct ==
    ASSUME NEW n \in 0..Total - 1
    PROVE  Number(Struct(n)) = n
  <1> DEFINE T == Types * Universes
             I == Instances * T
             A == Accounts * I
             a == n \div 2
             i == a \div Accounts
             t == i \div Instances
             u == t \div Types
  <1>1. T \in Nat
    BY SteamIdAssumption
  <1>2. I \in Nat
    BY <1>1, SteamIdAssumption DEF I
  <1>3. A \in Nat /\ Total = 2 * A
    BY <1>2, SteamIdAssumption DEF Total
  <1>4. a \in Nat /\ a < A /\ n = (n % 2) + 2 * a /\ n % 2 \in 0..1
    <2>1. n \in Nat /\ n < 2 * A
      BY <1>3
    <2> HIDE DEF A
    <2> QED
      BY <1>3, <2>1, Parts
  <1> HIDE DEF a
  <1>5. /\ i \in Nat /\ i < I /\ a = (a % Accounts) + Accounts * i
        /\ a % Accounts \in Int
    <2> HIDE DEF I
    <2> QED
      BY <1>2, <1>4, Parts, SteamIdAssumption
  <1> HIDE DEF i
  <1>6. /\ t \in Nat /\ t < T /\ i = (i % Instances) + Instances * t
        /\ i % Instances \in Int
    <2> HIDE DEF T
    <2> QED
      BY <1>1, <1>5, Parts, SteamIdAssumption
  <1> HIDE DEF t
  <1>7. /\ u \in Nat /\ u < Universes /\ t = (t % Types) + Types * u
        /\ t % Types \in Int
    <2>1. Types \in Nat /\ Types > 0 /\ Universes \in Nat /\ t < Types * Universes
      BY <1>6, SteamIdAssumption
    <2> HIDE DEF T
    <2>2. /\ t % Types \in 0..Types - 1 /\ u \in Nat /\ u < Universes
          /\ t = (t % Types) + Types * u
      BY <1>6, <2>1, Parts, Zenon
    <2> QED
      BY <2>1, <2>2
  <1> HIDE DEF u
  <1>8. u % Universes = u
    BY <1>7, ModOfSmall, SteamIdAssumption
  <1>9. Struct(n) = [y |-> n % 2, accountNumber |-> a % Accounts,
                     instance |-> i % Instances, type |-> t % Types,
                     universe |-> u]
    BY <1>8 DEF Struct, a, i, t, u
  <1>10. Number(Struct(n))
             = (n % 2) + 2 * ((a % Accounts)
                   + Accounts * ((i % Instances) + Instances * ((t % Types) + Types * u)))
    BY <1>9 DEF Number
  <1>11. Number(Struct(n)) = (n % 2) + 2 * a
    BY <1>5, <1>6, <1>7, <1>10, Zenon
  <1> QED
    BY <1>4, <1>11

(***************************************************************************)
(* The top bit of the number is the top bit of the universe.               *)
(***************************************************************************)
LEMMA NumberBound ==
    ASSUME NEW s \in Ids, 2 * (s.universe + 1) <= Universes
    PROVE  Number(s) \in Nat /\ 2 * Number(s) < Total
  <1> DEFINE t == s.type + Types * s.universe
             i == s.instance + Instances * t
             a == s.accountNumber + Accounts * i
             T == Types * Universes
             I == Instances * T
             A == Accounts * I
  <1>1. /\ s.y \in 0..1 /\ s.accountNumber \in 0..Accounts - 1
        /\ s.instance \in 0..Instances - 1 /\ s.type \in 0..Types - 1
        /\ s.universe \in 0..Universes - 1
    BY DEF Ids
  <1>2. t \in Nat /\ T \in Nat /\ 2 * (t + 1) <= T
    <2>1. Types * (2 * (s.universe + 1)) <= T
      BY <1>1, SteamIdAssumption
    <2>2. t + 1 <= Types * (s.universe + 1)
      BY <1>1, SteamIdAssumption
    <2>3. t \in Nat /\ T \in Nat
      BY <1>1, SteamIdAssumption
    <2> HIDE DEF t, T
    <2> QED
      BY <1>1, <2>1, <2>2, <2>3, SteamIdAssumption
  <1> HIDE DEF t, T
  <1>3. i \in Nat /\ I \in Nat /\ 2 * (i + 1) <= I
    <2>1. Instances * (2 * (t + 1)) <= I
      BY <1>2, SteamIdAssumption
    <2>2. i + 1 <= Instances * (t + 1)
      BY <1>1, <1>2, SteamIdAssumption
    <2>3. i \in Nat /\ I \in Nat
      BY <1>1, <1>2, SteamIdAssumption
    <2> HIDE DEF i, I
    <2> QED
      BY <1>2, <2>1, <2>2, <2>3, SteamIdAssumption
  <1> HIDE DEF i, I
  <1>4. a \in Nat /\ A \in Nat /\ 2 * (a + 1) <= A
    <2>1. Accounts * (2 * (i + 1)) <= A
      BY <1>3, SteamIdAssumption
    <2>2. a + 1 <= Accounts * (i + 1)
      BY <1>1, <1>3, SteamIdAssumption
    <2>3. a \in Nat /\ A \in Nat
      BY <1>1, <1>3, SteamIdAssumption
    <2> HIDE DEF a, A
    <2> QED
      BY <1>3, <2>1, <2>2, <2>3, SteamIdAssumption
  <1> HIDE DEF a, A
  <1>5. Number(s) = s.y + 2 * a /\ Total = 2 * A
    BY DEF Number, Total, t, i, a, T, I, A
  <1> QED
    BY <1>1, <1>4, <1>5

------------------------------------------------------------------------------
(* The three constructors, on what is written canonically or printed. *)

(***************************************************************************)
(* Both STEAM_ texts of an account, by the book and as printed, name it.   *)
(***************************************************************************)
LEMMA TextParsed ==
    ASSUME NEW s \in Ids, Individual(s), NEW t,
           t \in {CanonicalText(s), ToText(s)}
    PROVE  FromText(t) = s
  <1>1. /\ s.y \in 0..1 /\ s.accountNumber \in 0..Accounts - 1
        /\ s.universe \in 1..Digits - 1 /\ s.instance = 1 /\ s.type = 1
    BY DEF Ids, Individual
  <1>2. t.y = s.y /\ t.z = s.accountNumber /\ t.x \in 0..Digits - 1
    BY <1>1, SteamIdAssumption DEF CanonicalText, ToText
  <1>3. (IF t.x = 0 THEN 1 ELSE t.x) = s.universe
    BY <1>1 DEF CanonicalText, ToText
  <1>4. s.y % 2 = s.y /\ s.accountNumber % Accounts = s.accountNumber
    BY <1>1, ModOfSmall, SteamIdAssumption
  <1>5. s.universe % Universes = s.universe
    BY <1>1, ModOfSmall, SteamIdAssumption
  <1>6. ToUInt(t.z) = s.accountNumber
    BY <1>1, <1>2, SteamIdAssumption DEF ToUInt
  <1>7. t.y \in 0..Digits - 1 /\ t.z >= 0
    BY <1>1, <1>2, SteamIdAssumption
  <1>8. FromText(t) = Combine(s.y, s.accountNumber, s.universe)
    BY <1>2, <1>3, <1>6, <1>7 DEF FromText
  <1> QED
    BY <1>1, <1>4, <1>5, <1>8 DEF Combine, Ids

(***************************************************************************)
(* The canonical [U:...] text of an account is parsed to it.               *)
(***************************************************************************)
LEMMA Id3Parsed ==
    ASSUME NEW s \in Ids, Individual(s)
    PROVE  FromId3(CanonicalId3(s)) = s
  <1> DEFINE w == s.y + 2 * s.accountNumber
  <1>1. /\ s.y \in 0..1 /\ s.accountNumber \in 0..Accounts - 1
        /\ s.universe \in 1..Digits - 1 /\ s.instance = 1 /\ s.type = 1
    BY DEF Ids, Individual
  <1>2. w \in Nat /\ w < 2 * Accounts /\ w % 2 = s.y
    BY <1>1, DivMod, SteamIdAssumption
  <1>3. (w - s.y) \div 2 = s.accountNumber
    BY <1>1, DivMod
  <1>4. s.y % 2 = s.y /\ s.accountNumber % Accounts = s.accountNumber
    BY <1>1, ModOfSmall, SteamIdAssumption
  <1>5. s.universe % Universes = s.universe
    BY <1>1, ModOfSmall, SteamIdAssumption
  <1>6. CanonicalId3(s) = [x |-> s.universe, w |-> w]
    BY <1>1 DEF CanonicalId3
  <1> HIDE DEF w
  <1>7. ToUInt(w) = w
    BY <1>2 DEF ToUInt
  <1>8. s.universe \in 0..Digits - 1 /\ w >= 0
    BY <1>1, <1>2, SteamIdAssumption
  <1>9. FromId3(CanonicalId3(s)) = Combine(s.y, s.accountNumber, s.universe)
    BY <1>2, <1>3, <1>6, <1>7, <1>8 DEF FromId3
  <1> QED
    BY <1>1, <1>4, <1>5, <1>9 DEF Combine, Ids

(***************************************************************************)
(* The number of an account is parsed to it.                               *)
(***************************************************************************)
LEMMA Id64Parsed ==
    ASSUME NEW s \in Ids, 2 * (s.universe + 1) <= Universes
    PROVE  FromId64(ToId64(s)) = s
  <1>1. Number(s) \in Nat /\ 2 * Number(s) < Total
    BY NumberBound
  <1>2. Total \in Nat
    BY SteamIdAssumption DEF Total
  <1>3. Number(s) % Total = Number(s)
    BY <1>1, <1>2, ModOfSmall
  <1>4. FromId64(ToId64(s)) = Struct(Number(s))
    BY <1>1, <1>2, <1>3 DEF FromId64, ToId64
  <1> QED
    BY <1>4, StructOfNumber

------------------------------------------------------------------------------
(* The theorems of the specification. *)

LEMMA ToUIntType == ASSUME NEW n \in Nat PROVE ToUInt(n) \in Nat
  BY DEF ToUInt

LEMMA TextType ==
    ASSUME NEW t, t.x \in Int, t.y \in Int, t.z \in Int
    PROVE  FromText(t) \in Ids
  <1>1. CASE t.x \in 0..Digits - 1 /\ t.y \in 0..Digits - 1 /\ t.z >= 0
    <2>1. t.x \in Nat /\ t.y \in Nat /\ t.z \in Nat
      BY <1>1, SteamIdAssumption
    <2>2. ToUInt(t.z) \in Nat
      BY <2>1, ToUIntType
    <2>3. (IF t.x = 0 THEN 1 ELSE t.x) \in Nat
      BY <2>1
    <2> QED
      BY <1>1, <2>1, <2>2, <2>3, CombineType DEF FromText
  <1> QED
    BY <1>1, SteamIdAssumption DEF FromText, Zero, Ids

LEMMA Id3Type ==
    ASSUME NEW t, t.x \in Int, t.w \in Int
    PROVE  FromId3(t) \in Ids
  <1>1. CASE t.x \in 0..Digits - 1 /\ t.w >= 0
    <2> DEFINE w == ToUInt(t.w)
    <2>1. t.x \in Nat /\ w \in Nat
      BY <1>1, ToUIntType, SteamIdAssumption
    <2> HIDE DEF w
    <2>2. w % 2 \in Nat /\ (w - (w % 2)) \div 2 \in Nat
      BY <2>1
    <2>3. Combine(w % 2, (w - (w % 2)) \div 2, t.x) \in Ids
      BY <2>1, <2>2, CombineType
    <2>4. FromId3(t) = Combine(w % 2, (w - (w % 2)) \div 2, t.x)
      BY <1>1 DEF FromId3, w
    <2> QED
      BY <2>3, <2>4
  <1> QED
    BY <1>1, SteamIdAssumption DEF FromId3, Zero, Ids

LEMMA Id64Type ==
    ASSUME NEW n \in Int
    PROVE  FromId64(n) \in Ids
  <1>1. Total \in Nat /\ Total > 0
    <2>1. Types * Universes > 0 /\ Types * Universes \in Nat
      BY SteamIdAssumption
    <2>2. Instances * (Types * Universes) > 0 /\ Instances * (Types * Universes) \in Nat
      BY <2>1, SteamIdAssumption
    <2> QED
      BY <2>2, SteamIdAssumption DEF Total
  <1>2. n % Total \in Int
    BY <1>1
  <1>3. Struct(n % Total) \in Ids
    BY <1>2, StructType
  <1> QED
    BY <1>3, SteamIdAssumption DEF FromId64, Zero, Ids

(***************************************************************************)
(* Whatever is parsed or assigned, every field stays in its bits.          *)
(***************************************************************************)
THEOREM TypeCorrect == Spec => []TypeOK
  <1>1. Init => TypeOK
    BY SteamIdAssumption DEF Init, TypeOK, Zero, Ids
  <1>2. TypeOK /\ [Next]_vars => TypeOK'
    <2> SUFFICES ASSUME TypeOK, [Next]_vars
                 PROVE  TypeOK'
      OBVIOUS
    <2>1. CASE Construct
      BY <2>1, StructType DEF Construct, TypeOK, Total
    <2>2. CASE ParseText
      <3>1. PICK x \in 0..Digits, y \in 0..Digits, z \in 0..2 * Accounts :
                id' = FromText([x |-> x, y |-> y, z |-> z])
        BY <2>2 DEF ParseText
      <3> QED
        BY <3>1, TextType, SteamIdAssumption DEF TypeOK
    <2>3. CASE ParseId3
      <3>1. PICK x \in 0..Digits, w \in -1..2 * Accounts :
                id' = FromId3([x |-> x, w |-> w])
        BY <2>3 DEF ParseId3
      <3> QED
        BY <3>1, Id3Type, SteamIdAssumption DEF TypeOK
    <2>4. CASE ParseId64
      BY <2>4, Id64Type DEF ParseId64, TypeOK
    <2>5. CASE Reparse
      <3>1. /\ id.universe \in Int /\ id.y \in Int /\ id.accountNumber \in Int
            /\ id.accountNumber * 2 + id.y \in Int
            /\ id.instance \in Int /\ id.type \in Int
        BY DEF TypeOK, Ids
      <3>2. FromText(ToText(id)) \in Ids
        BY <3>1, TextType DEF ToText
      <3>3. Promoted(id.accountNumber * 2 + id.y) \in Int
        BY <3>1, SteamIdAssumption DEF Promoted
      <3>4. FromId3(ToId3(id)) \in Ids
        BY <3>1, <3>3, Id3Type DEF ToId3
      <3>5. Number(id) \in Int
        BY <3>1, SteamIdAssumption DEF Number
      <3>6. FromId64(ToId64(id)) \in Ids
        BY <3>5, Id64Type DEF ToId64
      <3> QED
        BY <2>5, <3>2, <3>4, <3>6 DEF Reparse, TypeOK
    <2>6. CASE UNCHANGED vars
      BY <2>6 DEF vars, TypeOK
    <2> QED
      BY <2>1, <2>2, <2>3, <2>4, <2>5, <2>6 DEF Next
  <1> QED
    BY <1>1, <1>2, PTL DEF Spec

(***************************************************************************)
(* Both texts of every account, the largest included, parse to its id.     *)
(***************************************************************************)
THEOREM CanonicalParsed == Spec => []CanonicalIsParsed
  <1>1. TypeOK => CanonicalIsParsed
    BY TextParsed, Id3Parsed DEF TypeOK, CanonicalIsParsed
  <1> QED
    BY <1>1, TypeCorrect, PTL

(***************************************************************************)
(* What is printed parses to the id that was printed.                      *)
(***************************************************************************)
THEOREM PrintedParsed == Spec => []PrintedIsParsed
  <1>1. ASSUME TypeOK PROVE PrintedIsParsed
    <2>1. id \in Ids
      BY <1>1 DEF TypeOK
    <2>2. Individual(id) => FromText(ToText(id)) = id
      BY <2>1, TextParsed
    <2>3. ASSUME Individual(id), 2 * id.accountNumber + id.y < Accounts
          PROVE  FromId3(ToId3(id)) = id
      <3>1. ToId3(id) = CanonicalId3(id)
        <4>1. id.accountNumber \in Int /\ id.y \in Int
          BY <2>1 DEF Ids
        <4>2. Promoted(id.accountNumber * 2 + id.y) = 2 * id.accountNumber + id.y
          BY <2>3, <4>1, SteamIdAssumption DEF Promoted
        <4> QED
          BY <4>2 DEF ToId3, CanonicalId3
      <3> QED
        BY <2>1, <2>3, <3>1, Id3Parsed
    <2>4. 2 * (id.universe + 1) <= Universes => FromId64(ToId64(id)) = id
      BY <2>1, Id64Parsed
    <2> QED
      BY <2>2, <2>3, <2>4 DEF PrintedIsParsed
  <1> QED
    BY <1>1, TypeCorrect, PTL

(***************************************************************************)
(* Where PrintedIsParsed stops, nothing comes back: the sum overflows, the *)
(* text holds a minus sign, and no account of the upper half is parsed     *)
(* from the Id3 that toFormat() prints of it.                              *)
(***************************************************************************)
THEOREM UpperHalfIsLost ==
    ASSUME NEW s \in Ids, 2 * s.accountNumber + s.y >= Accounts
    PROVE  FromId3(ToId3(s)) = Zero
  <1>1. s.y \in 0..1 /\ s.accountNumber \in 0..Accounts - 1
    BY DEF Ids
  <1>2. Promoted(s.accountNumber * 2 + s.y) < 0
    BY <1>1, SteamIdAssumption DEF Promoted
  <1> QED
    BY <1>1, <1>2, SteamIdAssumption DEF FromId3, ToId3, Promoted

(***************************************************************************)
(* No two accounts print alike, as Text in any universe of one digit.      *)
(***************************************************************************)
THEOREM TextTellsApart ==
    ASSUME NEW s \in Ids, NEW t \in Ids, Individual(s), Individual(t),
           ToText(s) = ToText(t)
    PROVE  s = t
  BY TextParsed
==============================================================================
