\* Two names, a key with a default, and at most two rows of each name.
SPECIFICATION Spec
CONSTANTS
    Names = {red, blue}
    Keys = {launchArguments}
    Defaulted = {launchArguments}
    Values = {default, padded, number}
    Default = default
    Numerals = {padded}
    Number = number
    None = None
    MaxRows = 2
SYMMETRY Renamings
INVARIANTS
    TypeOK
    RestartKeepsServers
    OneRowPerServer
PROPERTIES
    KeepsStore
