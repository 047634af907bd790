SPECIFICATION FairSpec
CONSTANTS
    Modulus = 16
    SubMin = 2
    FrameCycles = 2
    MaxTick = 2
    MaxDriveTick = 2
    ResetClk = 1
    SkipLag = 4
    SkipClk = 1
    Unit = 2
    Factors = {1}
    IdlingMethods = {"TRAP_IDLE", "SKIP_CYCLES"}
    DriveResets = TRUE
INVARIANTS
    NoCycleLost
    InStep
PROPERTIES
    DriveGoesOn
