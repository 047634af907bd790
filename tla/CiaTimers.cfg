SPECIFICATION Spec
CONSTANTS
    ByteSize = 2
    NewChip = FALSE
    MaxAge = 10
    Ticks = {3}
    AccessTicks = {4}
    Writes <- AllWrites
    MaxLag = 8
    GuardSub = 500
    Programs <- ThreePrograms
    WarpsFirst = FALSE
PROPERTIES
    ImplementsChip
VIEW ButWhatWasDone
