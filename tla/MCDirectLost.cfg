CONSTANTS
    N = 4
    Size <- MCSize
    SmallMax = 1
    Chunk = 2
    BatchMax = 3
    Lanes = 2
    Successes = 2
    Copies = 3
    MaxAttempts = 3
    MaxFaults = 2
SPECIFICATION Spec
INVARIANT Complete
