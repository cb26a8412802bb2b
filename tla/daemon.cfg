\* One plugin, two databases, two signals on their way at most.
SPECIFICATION Spec
CONSTANTS
    Plugins = {demo}
    Databases = {morgoth_sqlite, other_sqlite}
    DefaultDatabase = morgoth_sqlite
    NoDatabase = NoDatabase
    Accounts = {alice}
    Absent = Absent
    Unreadable = Unreadable
    PipeSize = 2
INVARIANTS
    TypeOK
PROPERTIES
    RestartKeepsPlugins
    TermEnds
    ReloadTakesEffect
