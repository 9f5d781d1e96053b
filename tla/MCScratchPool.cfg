CONSTANTS
    Callers = {a, b}
    Scratches = {1, 2, 3}
    Sizes = {1, 2, 4}
    MaxBlocks = 2
    maxPooledHash = 2
SPECIFICATION Spec
INVARIANTS TypeOK TablesAreExclusive WalkFindsOwnBlocks TablesLongEnough PoolStaysSmall
SYMMETRY Goroutines
