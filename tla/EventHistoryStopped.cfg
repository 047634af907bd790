SPECIFICATION Spec
CONSTANTS
    None = None
    Key = {"key"}
    Control = {}
    Modes = {"FILE_SAVE"}
    ClkMax = 20
    SubMin = 6
    FrameCycles = 2
    CyclesPerSecond = 2
    ResetClk = 1
    StartClks = {16}
    Lengths <- ShortAndLong
    Careful = TRUE
    Resets = TRUE
    MaxAge = 12
    MaxEvents = 2
    MaxActs = 6
PROPERTIES
    StoppedIsSilent
CHECK_DEADLOCK FALSE
