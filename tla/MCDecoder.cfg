CONSTANTS
    ByteCard = 16
    Alphabet <- SmallAlphabet
    NewLine = 1
    Comma = 2
    Colon = 6
    Semi = 7
    At = 8
    WordBytes = 2
    Word = 256
    Origins <- AssembledOrigins
    Deltas <- AssembledDeltas
    Dsts <- SomeDsts
    MaxInt = 255
    maxHarnessOutput = 32
SPECIFICATION Spec
INVARIANTS ExecFollowsPlan OutputFilledExactly DstUntouched RejectedBeforeWriting AcceptsWhatDeltaCAccepts RejectsWhatDeltaCRejects
PROPERTIES IterationsAdvance
CHECK_DEADLOCK FALSE
