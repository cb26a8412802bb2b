SPECIFICATION Spec
CONSTANTS
    Servers = {s1, s2}
    Ifaces = {i1, i2}
    Names = {red, blue}
    Paths = {tf, cs}
    None = None
    MaxPings = 1
PROPERTY ReportsAreOwned
