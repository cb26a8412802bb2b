\* Two processes; two starts may overlap; one game server.
SPECIFICATION ControlledSpec
SYMMETRY Interchangeable
CONSTANTS
    Users = {own}
    OwnUser = own
    Unresolvable = {}
    NoSession = NoSession
    Starters = {s1, s2}
    GameServers = {g1}
    TmuxFaults = FALSE
    Clients = {c1, c2}
    None = None
INVARIANTS
    NoStartIsForgotten
    NoStopIsForgotten
PROPERTIES
    ServesCommands

