SPECIFICATION Spec
CONSTANTS
    None = None
    Key = {"key"}
    Control = {"image"}
    Modes = {"FILE_SAVE", "FILE_LOAD", "RESET", "PLAYBACK"}
    ClkMax = 18
    SubMin = 6
    FrameCycles = 2
    CyclesPerSecond = 2
    ResetClk = 5
    StartClks = {16}
    Lengths <- ShortAndLong
    Careful = TRUE
    Resets = TRUE
    MaxAge = 14
    MaxEvents = 2
    MaxActs = 5
CHECK_DEADLOCK FALSE
INVARIANTS
    RecordedIsPast
    ReplayedIsRecorded
