SPECIFICATION Spec

CONSTANTS
    Pc <- MCPc
    Data <- MCData
    Vectors <- MCVectors
    Broken <- MCBroken
    MaxOpcodes = 2
    MaxNested = 3
INVARIANTS
    MachineGoesOn
PROPERTIES
    BreakBeforeInstruction
    BreakIsThere
