CONSTANTS
    ByteCard = 32
    Alphabet <- SmallAlphabet
    NewLine = 1
    Comma = 2
    Colon = 6
    Semi = 7
    At = 8
    WordBytes = 4
    Word = 1048576
    Values <- BoundaryValues
    MaxNumbers = 2
    maxHarnessOutput = 32
SPECIFICATION Spec
INVARIANTS TypeOK ReadsBackWhatWasWritten PriceIsLengthWritten ChecksumIsLaneSum
CHECK_DEADLOCK FALSE
