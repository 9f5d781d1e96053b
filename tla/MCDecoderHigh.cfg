CONSTANTS
    ByteCard = 32
    Alphabet <- SmallAlphabet
    NewLine = 1
    Comma = 2
    Colon = 6
    Semi = 7
    At = 8
    WordBytes = 1
    Word = 32
    Origins <- ShortOrigins
    Deltas <- ShortDeltas
    Dsts <- OneDst
    MaxInt = 31
    maxHarnessOutput = 32
SPECIFICATION Spec
INVARIANTS ParsesAsAnywhereElse
CHECK_DEADLOCK FALSE
