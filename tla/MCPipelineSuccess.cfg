CONSTANTS
    f1 = f1
    f2 = f2
    m1 = m1
    m2 = m2
    Folders = {f1}
    Monitors = {m1}
    Routed = {}
    RetryTask = RetryTask
    Manifests = {"ok"}
    ArchiveFails = FALSE
    MaxCrashes = 0
    MaxRetries = 0
    MaxSignals = 1
    MaxLingers = 0
    Accounts = {}
    NoAccount = NoAccount
    NoFolder = NoFolder
SPECIFICATION Spec
INVARIANTS SuccessReported
CHECK_DEADLOCK FALSE
