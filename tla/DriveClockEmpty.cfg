SPECIFICATION DriveSpec
CONSTANTS
    Alarm = {via1, via2}
    ChipAlarm = {via1, via2}
    NoAlarm = none
    VsyncAlarm = none
    FetchAlarm = none
    MaxPending = 2
    WarpsWhenEmpty = TRUE
    ClockMax = 56
    SubMin = 14
    ClkBase = 0
    FrameCycles = 4
    MaxTick = 2
    MaxDelta = 4
    ResetClk = 2
CHECK_DEADLOCK FALSE
INVARIANTS
    DispatchFindsAlarm
