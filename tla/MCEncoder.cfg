CONSTANTS
    ByteCard = 128
    Alphabet <- SmallAlphabet
    NewLine = 1
    Comma = 2
    Colon = 6
    Semi = 7
    At = 8
    WordBytes = 1
    Word = 128
    hashWindow = 2
    Half = 512
    phi = 10125
    Pairs <- SomePairs
    Leftover <- UsedTables
    maxCandidates = 2
    maxHarnessOutput = 127
SPECIFICATION FairSpec
INVARIANTS TypeOK RollingHashIsBlockHash CandidatesAreOwnBlocks CommandsRebuildTarget DeltaIsReadByC DeltaIsReadByJS NeverLongerThanLiteral
PROPERTIES ChainsDescend Returns
CHECK_DEADLOCK FALSE
