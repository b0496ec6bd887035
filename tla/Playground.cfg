SPECIFICATION FairSpec
CONSTANTS
    MaxGen = 2
    MaxLetters = 2
    MaxMessages = 3
    MaxStored = 2
    Format <- Formats
    Script <- Scripts
INVARIANTS
    TypeOK
    NoStuckAnswer
    TextIsSent
    NoOrphanRequest
    BufferHasTimer
PROPERTY GenerationEnds
CHECK_DEADLOCK FALSE
