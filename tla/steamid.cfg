\* Three-bit account numbers, one-bit instances and types, eight universes.
SPECIFICATION Spec
CONSTANTS
    Accounts = 8
    Instances = 2
    Types = 2
    Universes = 8
    Digits = 4
INVARIANTS
    TypeOK
    CanonicalIsParsed
    PrintedIsParsed
