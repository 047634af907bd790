SPECIFICATION VdriveSpec
CONSTANTS
    None = None
    Blocks = {b1, b2, b3}
    SlotCount = 2
    Names = {f, g}
    ChannelCount = 2
    BlockSize = 2
    Careful = TRUE
    TrueEmulation = TRUE
    Kills = TRUE
    MaxOpens = 3
    MaxBytes = 3
SYMMETRY AnyBlockOrName
INVARIANTS
    DiskIsSound
    NoBlockLost
PROPERTIES
    ImplementsFiles
