CONSTANTS
    ByteCard = 16
    Alphabet <- SmallAlphabet
    NewLine = 1
    Comma = 2
    Colon = 6
    Semi = 7
    At = 8
    WordBytes = 2
    Word = 256
    Origins <- Int32Origins
    Deltas <- Int32Deltas
    Dsts <- LongDsts
    MaxInt <- HalfInt
    maxHarnessOutput = 32
SPECIFICATION Spec
INVARIANTS LengthFitsInt RejectedBeforeWriting
CHECK_DEADLOCK FALSE
