CONSTANTS
    ByteCard = 16
    Alphabet <- SmallAlphabet
    NewLine = 1
    Comma = 2
    Colon = 6
    Semi = 7
    At = 8
    WordBytes = 2
    Word = 256
    hashWindow = 2
    Half = 64
    phi = 2531
    Pairs <- SomePairs
    Leftover <- UsedTables
    maxCandidates = 3
    Dsts <- SomeDsts
    MaxInt = 255
    HeldFor <- Drifted
    maxHarnessOutput = 32
SPECIFICATION FairSpec
INVARIANTS OnlyTheSourceIsWrong
PROPERTIES ImplementsTransfer
CHECK_DEADLOCK FALSE
