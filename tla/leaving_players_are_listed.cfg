SPECIFICATION Spec
CONSTANTS
    Players = {p1, p2}
    People = {ann, bob}
    Watched = {tv_port}
    Numeric = {tv_port}
    Values = {v1, v2, junk}
    Garbage = {junk}
    None = None
    MaxQueue = 2
INVARIANT LeavingPlayersAreListed
