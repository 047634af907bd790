SPECIFICATION FairSpec
CONSTANTS
    SCALE = 2
    FrameTicks = 5
    Behind = 32
    MAX_SKIPPED_FRAMES = 3
    TickRange = 64
    RefreshRate = 0
    MaxFrames = 2
    MaxDrift = 24
    MaxLead = 20
    MaxUncounted = 4
    Hosts <- AllHosts
    Users <- Everybody
    CallTime <- SomeCalls
    IdleTime <- Idle
    Overshoot <- SometimesLate
INVARIANTS
    TimeNeverRunsBack
    NoSleepOwed
    WarpIsExact
PROPERTIES
    RunFramesReturnInTime
