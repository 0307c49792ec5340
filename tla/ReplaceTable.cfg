SPECIFICATION ReplaceSpec
CONSTANTS
    r1 = r1
    r2 = r2
    r3 = r3
    r4 = r4
    Runs = {r1, r2, r3, r4}
    Chunks <- MCChunks
    OldRows <- MCOldRows
INVARIANTS
    NeverEmptied
PROPERTY SuccessLeavesOwnRows
CHECK_DEADLOCK FALSE
