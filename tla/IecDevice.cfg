SPECIFICATION FairSpec
CONSTANTS
    Bits = 4
    NameLength = 2
    Names <- OneName
    Texts <- OneText
    Files <- OneFile
    Pre0 = 3
    Ready = 5
    Ack = 2
    Turn = 2
    Bit = 2
    Done = 10
    Err = 3
    EoiWait = 7
    AckWait = 10
    Nmi = 11
INVARIANTS
    SentIsTaken
    GotIsFile
PROPERTIES
    OperationsEnd
