CONSTANTS
    Texts <- SomeTexts
    WordSize = 3
SPECIFICATION Spec
INVARIANTS TypeOK ReadsInBounds ResultIsCommonLength
CHECK_DEADLOCK FALSE
