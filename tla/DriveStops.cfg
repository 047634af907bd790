SPECIFICATION Spec
CONSTANTS
    Modulus = 16
    SubMin = 2
    FrameCycles = 2
    MaxTick = 2
    MaxDriveTick = 2
    ResetClk = 1
    SkipLag = 4
    SkipClk = 1
    Unit = 3
    Factors = {2}
    IdlingMethods = {"NO_IDLE"}
    DriveResets = FALSE
INVARIANTS
    StopsAtStopClk
