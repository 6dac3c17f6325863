CONSTANTS
    f1 = f1
    f2 = f2
    m1 = m1
    m2 = m2
    Folders = {f1, f2}
    Monitors = {m1}
    Routed = {}
    RetryTask = RetryTask
    Manifests = {"none", "ok", "bad"}
    ArchiveFails = TRUE
    MaxCrashes = 1
    MaxRetries = 0
    MaxSignals = 2
    MaxLingers = 1
    Accounts = {}
    NoAccount = NoAccount
    NoFolder = NoFolder
SPECIFICATION Spec
SYMMETRY Symmetry
INVARIANTS
    TypeOK
    QueuedIsClaimed
    NotifiedPerRequest
    ArchiveAgreesWithHistory
CHECK_DEADLOCK FALSE
