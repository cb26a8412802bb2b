\* Two processes and one server.
SPECIFICATION FairSpec
CONSTANTS
    Clients = {c1, c2}
    None = None
INVARIANTS
    TypeOK
    StartIsAnswered
    StopIsAnswered
PROPERTY StartReturns
