\* One game server at a time, two players, ids reused, a number that may not parse.
SPECIFICATION Spec
CONSTANTS
    Players = {p1, p2}
    People = {ann, bob}
    Watched = {tv_port}
    Numeric = {tv_port}
    Values = {v1, v2, junk}
    Garbage = {junk}
    None = None
    MaxQueue = 3
CONSTRAINT Explored
SYMMETRY Anyone
INVARIANTS
    TypeOK
    CountIsLength
    NoGhostPlayers
    ShownIsCurrent
