------------------------------- MODULE SteamId -------------------------------
(***************************************************************************)
(* The SteamId class: a 64-bit id seen through a struct of bit-fields, and *)
(* its conversions from and to three texts.                                *)
(*                                                                         *)
(* A text is the record of the numbers its pattern captures.  The widths   *)
(* are constants, so that the same definitions serve the real ones (2^31   *)
(* account numbers, 2^20 instances, 2^4 types, 2^8 universes, ten digits)  *)
(* and small ones.                                                         *)
(***************************************************************************)
EXTENDS Integers

CONSTANTS
    Accounts,       \* account numbers: the range of a 31-bit field
    Instances,      \* instances: the range of a 20-bit field
    Types,          \* account types: the range of a 4-bit field
    Universes,      \* universes: the range of an 8-bit field
    Digits          \* the values of one decimal digit

ASSUME SteamIdAssumption ==
    /\ {Accounts, Instances, Types, Universes, Digits} \subseteq Nat
    /\ Accounts > 1 /\ Instances > 1 /\ Types > 1
    /\ Digits > 1 /\ 2 * Digits <= Universes

VARIABLE id         \* the object's m_steamId

vars == <<id>>

Ids == [y : 0..1, accountNumber : 0..Accounts - 1, instance : 0..Instances - 1,
        type : 0..Types - 1, universe : 0..Universes - 1]

Zero == [y |-> 0, accountNumber |-> 0, instance |-> 0, type |-> 0, universe |-> 0]

Formats == {"Text", "Id3", "Id64"}

TypeOK == id \in Ids

------------------------------------------------------------------------------
(* The struct and the number. *)

\* Mutated form: the fields are not cut to their widths.
CombineUncut(y, accountNumber, universe) ==
    [y |-> y, accountNumber |-> accountNumber, instance |-> 1, type |-> 1,
     universe |-> universe]

(***************************************************************************)
(* combine(): each field keeps the low bits of what it is given.           *)
(***************************************************************************)
Combine(y, accountNumber, universe) ==
    [y |-> y % 2, accountNumber |-> accountNumber % Accounts,
     instance |-> 1, type |-> 1, universe |-> universe % Universes]

(***************************************************************************)
(* The bits of the struct read as one unsigned number, and back.           *)
(***************************************************************************)
Number(s) ==
    s.y + 2 * (s.accountNumber
                  + Accounts * (s.instance + Instances * (s.type + Types * s.universe)))

Total == 2 * (Accounts * (Instances * (Types * Universes)))

Struct(n) ==
    LET a == n \div 2
        i == a \div Accounts
        t == i \div Instances
    IN  [y |-> n % 2, accountNumber |-> a % Accounts, instance |-> i % Instances,
         type |-> t % Types, universe |-> (t \div Types) % Universes]

(***************************************************************************)
(* QString::toUInt() of a run of digits: zero when 32 bits do not hold it. *)
(***************************************************************************)
ToUInt(n) == IF n < 2 * Accounts THEN n ELSE 0

(***************************************************************************)
(* The sum of accountNumber * 2 and y: bit-fields that fit an int are      *)
(* promoted to int, so the upper half of the account numbers overflows.    *)
(* Undefined, the machine's addition wraps to a negative number.           *)
(***************************************************************************)
Promoted(n) == IF n < Accounts THEN n ELSE n - 2 * Accounts

------------------------------------------------------------------------------
(* fromSteamIdFormat().  A text that its pattern does not match, or a      *)
(* decimal number toLongLong() cannot hold, gives zero.                    *)

\* Mutated form: the universe a game prints as 0 is taken as it is.
FromTextAsPrinted(t) ==
    IF t.x \in 0..Digits - 1 /\ t.y \in 0..Digits - 1 /\ t.z >= 0
    THEN Combine(t.y, ToUInt(t.z), t.x)
    ELSE Zero

\* STEAM_X:Y:Z
FromText(t) ==
    IF t.x \in 0..Digits - 1 /\ t.y \in 0..Digits - 1 /\ t.z >= 0
    THEN Combine(t.y, ToUInt(t.z), IF t.x = 0 THEN 1 ELSE t.x)
    ELSE Zero

\* Mutated form: the parity stays in the account number.
FromId3Whole(t) ==
    IF t.x \in 0..Digits - 1 /\ t.w >= 0
    THEN Combine(ToUInt(t.w) % 2, ToUInt(t.w), t.x)
    ELSE Zero

\* U:X:W
FromId3(t) ==
    IF t.x \in 0..Digits - 1 /\ t.w >= 0
    THEN LET w == ToUInt(t.w)
             y == w % 2
         IN  Combine(y, (w - y) \div 2, t.x)
    ELSE Zero

\* A number read as signed, its bits taken as unsigned.
FromId64(n) ==
    IF -Total <= 2 * n /\ 2 * n < Total THEN Struct(n % Total) ELSE Zero

------------------------------------------------------------------------------
(* toFormat(). *)

ToText(s) ==
    [x |-> IF s.universe = 1 THEN 0 ELSE s.universe, y |-> s.y, z |-> s.accountNumber]

ToId3(s) == [x |-> s.universe, w |-> Promoted(s.accountNumber * 2 + s.y)]

ToId64(s) == Number(s)

------------------------------------------------------------------------------
(* The object over its constructors. *)

Construct == \E n \in 0..Total - 1 : id' = Struct(n)

ParseText ==
    \E x \in 0..Digits, y \in 0..Digits, z \in 0..2 * Accounts :
        id' = FromText([x |-> x, y |-> y, z |-> z])

ParseId3 ==
    \E x \in 0..Digits, w \in -1..2 * Accounts : id' = FromId3([x |-> x, w |-> w])

ParseId64 == \E n \in -Total..Total : id' = FromId64(n)

(***************************************************************************)
(* An id is printed, and what was printed is parsed.                       *)
(***************************************************************************)
Reparse ==
    \/ id' = FromText(ToText(id))
    \/ id' = FromId3(ToId3(id))
    \/ id' = FromId64(ToId64(id))

Init == id = Zero

Next == Construct \/ ParseText \/ ParseId3 \/ ParseId64 \/ Reparse

Spec == Init /\ [][Next]_vars

------------------------------------------------------------------------------
(* Properties. *)

(***************************************************************************)
(* The ids the texts are about: accounts of a person, in a universe of one *)
(* digit.  The texts hold neither the instance nor the type.               *)
(***************************************************************************)
Individual(s) ==
    s.instance = 1 /\ s.type = 1 /\ s.universe \in 1..Digits - 1

\* The texts as the format's documentation writes them, for every account.
CanonicalText(s) == [x |-> s.universe, y |-> s.y, z |-> s.accountNumber]

CanonicalId3(s) == [x |-> s.universe, w |-> 2 * s.accountNumber + s.y]

(***************************************************************************)
(* Parsing finds the one id a text writes, the largest account included,   *)
(* and both texts of an account give the same id.                          *)
(***************************************************************************)
CanonicalIsParsed ==
    Individual(id) => /\ FromText(CanonicalText(id)) = id
                      /\ FromId3(CanonicalId3(id)) = id

(***************************************************************************)
(* What toFormat() prints, the constructor reads back: as Text every       *)
(* account, as Id3 those of the lower half, whose W an int holds, and as a *)
(* number every id of the universes whose top bit is clear, of any type.   *)
(***************************************************************************)
PrintedIsParsed ==
    /\ Individual(id) => FromText(ToText(id)) = id
    /\ Individual(id) /\ 2 * id.accountNumber + id.y < Accounts
          => FromId3(ToId3(id)) = id
    /\ 2 * (id.universe + 1) <= Universes => FromId64(ToId64(id)) = id
==============================================================================
