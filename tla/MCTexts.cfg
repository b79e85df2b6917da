SPECIFICATION MCSpec
CONSTANTS
    Marks = {"4", "5", "6", "7", "8"}
    c1 = c1
    c2 = c2
    MaxLength = 5
    ChunkSize = 2
    Junk = 8
    EndChar = 9
    MaxSignals = 2
    Receivers = {c1, c2}
    LastLine = 2
    MaxCopies = 2
    MAX_READ_SIZE = 2
INVARIANTS
    TextsAreRight
    TransfersAreRight
    ResultsAreRight
PROPERTIES
    ProgramsEnd
CHECK_DEADLOCK FALSE
