CONSTANTS
    f1 = f1
    f2 = f2
    m1 = m1
    m2 = m2
    Folders = {f1}
    Monitors = {m1}
    Routed = {f1}
    RetryTask = RetryTask
    Manifests = {"none", "ok"}
    ArchiveFails = TRUE
    MaxCrashes = 1
    MaxRetries = 2
    MaxSignals = 2
    MaxLingers = 1
    Accounts = {}
    NoAccount = NoAccount
    NoFolder = NoFolder
SPECIFICATION Spec
INVARIANTS NotifiedPerRequest
PROPERTIES ImplementsClients
CHECK_DEADLOCK FALSE

