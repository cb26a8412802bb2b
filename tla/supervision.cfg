\* Two overlapping starts and two connections; tmux commands fail or overrun.
SPECIFICATION SupervisedSpec
CONSTANTS
    Users = {own, alice, ghost}
    OwnUser = own
    Unresolvable = {ghost}
    NoSession = NoSession
    Starters = {s1, s2}
    GameServers = {g1, g2}
    TmuxFaults = TRUE
SYMMETRY Interchangeable
INVARIANTS
    SessionIsReachable
    OrderlyEndIsClean
    OfflineIsOffline
    RunningWasToldToQuit
PROPERTIES
    LaunchesIntoNewSession
