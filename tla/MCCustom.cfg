CONSTANTS
    f1 = f1
    f2 = f2
    g1 = g1
    p1 = p1
    p2 = p2
    None = None
    Folders = {f1, f2}
    Appended = {g1}
    Profiles = {p1, p2}
    NFiles = 2
    Size <- MCSize
    Bound <- MCBound
    Chunk = 2
    MaxTries = 3
    MaxFaults = 1
    MaxSwitches = 1
SPECIFICATION Spec
INVARIANTS OrderIsWhole 
PROPERTY TransferEnds
