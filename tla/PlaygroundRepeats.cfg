SPECIFICATION Spec
CONSTANTS
    MaxGen = 2
    MaxLetters = 2
    MaxMessages = 3
    MaxStored = 2
    Format <- Formats
    Script <- RepeatedScripts
INVARIANT TextIsWhole
CHECK_DEADLOCK FALSE
