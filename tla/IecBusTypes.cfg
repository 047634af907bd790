SPECIFICATION Spec
CONSTANTS
    Units <- TwoUnits
    Types = {"NONE", "1541", "1581"}
    CpuStores <- AnyLines
    DriveStores <- AnyOutputs
    Selecting = {}
INVARIANTS
    EnabledIsOnBus
