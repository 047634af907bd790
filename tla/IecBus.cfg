SPECIFICATION Spec
CONSTANTS
    Units <- TwoUnits
    Types = {"NONE", "1541", "1581"}
    CpuStores <- AnyLines
    DriveStores <- AnyOutputs
    Selecting = {"8"}
INVARIANTS
    ReadsAreTrue
    AtnReachesAll
PROPERTIES
    StoreFindsNoneBehind
