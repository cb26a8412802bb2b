\* Two servers, two connections, every reuse of their addresses.
SPECIFICATION FairSpec
CONSTANTS
    Servers = {s1, s2}
    Ifaces = {i1, i2}
    Names = {red, blue}
    Paths = {tf, cs}
    None = None
    MaxPings = 1
INVARIANTS
    TypeOK
    UniqueNames
    ListedIsAlive
    RegistryIsAlive
    MatchedByPath
    ExportedIsAlive
PROPERTY DroppedIsForgotten
