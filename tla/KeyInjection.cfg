SPECIFICATION KeysFairSpec
CONSTANTS
    Key = {a, stop}
    LShift = lshift
    RShift = rshift
    RawKey = {stop, lshift}
    Users = {{}, {"Pause", "Reset"}}
    MaxQueued = 4
    MaxResets = 2
    MaxUptime = 1
INVARIANTS
    ChangePending
PROPERTIES
    EveryChangeSeen
    TypedAsAsked
    ChangesArrive
