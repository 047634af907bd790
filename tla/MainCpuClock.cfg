SPECIFICATION FairSpec
CONSTANTS
    Alarm = {vsync, fetch, keyboard}
    ChipAlarm = {vsync, fetch}
    NoAlarm = none
    VsyncAlarm = vsync
    FetchAlarm = fetch
    MaxPending = 3
    WarpsWhenEmpty = FALSE
    ClockMax = 44
    SubMin = 11
    ClkBase = 3
    FrameCycles = 3
    MaxTick = 2
    MaxDelta = 3
    ResetClk = 2
INVARIANTS
    NextIsPending
    NothingWraps
    FrameEndIsPending
PROPERTIES
    ImplementsQueue
    OverdueIsServed
