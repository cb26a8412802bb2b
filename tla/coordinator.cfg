\* Two overlapping starts and two connections; tmux does what it is told.
SPECIFICATION FairSpec
CONSTANTS
    Users = {own, alice, ghost}
    OwnUser = own
    Unresolvable = {ghost}
    NoSession = NoSession
    Starters = {s1, s2}
    GameServers = {g1, g2}
    TmuxFaults = FALSE
INVARIANTS
    TypeOK
    StartingHasDeadline
    RunningIsAttended
    ShutdownIsWatched
    RemovalLeavesNothing
PROPERTIES
    LaunchesAsConfigured
    StartIsDecided
    LostServerIsNoticed
    KeepsContract
