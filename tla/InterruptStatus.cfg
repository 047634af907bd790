SPECIFICATION InterruptFairSpec
CONSTANTS
    Line = {cia, vic}
    Trap = {t1, t2}
    NoTrap = none
    Request = {"RESET"}
INVARIANTS
    LinesCounted
    NmiEntryKeepsNmi
    NmiIsEdge
    SlotIsPending
PROPERTIES
    NmiIsServed
