CONSTANTS
    f1 = f1
    f2 = f2
    l1 = l1
    l2 = l2
    Folders = {f1}
    Identified = {f1}
    Loops = {l1, l2}
    NoLoop = NoLoop
    NoFolder = NoFolder
    MaxSignals = 2
    MaxStops = 1
SPECIFICATION FairSpec
INVARIANTS
    ClaimedNotRejected
PROPERTIES
    OnlyReadyAnnounces
    HandoffEnds
CHECK_DEADLOCK FALSE
