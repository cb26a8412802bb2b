\* As persistor.cfg.
SPECIFICATION Spec
CONSTANTS
    Names = {red, blue}
    Keys = {launchArguments}
    Defaulted = {launchArguments}
    Values = {default, padded, number}
    Default = default
    Numerals = {padded}
    Number = number
    None = None
    MaxRows = 2
INVARIANT ConfigurationIsKept
