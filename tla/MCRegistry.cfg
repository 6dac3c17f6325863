CONSTANTS
    f1 = f1
    f2 = f2
    f3 = f3
    m1 = m1
    m2 = m2
    a1 = a1
    Folders = {f1, f2, f3}
    Callers = {m1, m2}
    Accounts = {a1}
    NoAccount = NoAccount
    NoFolder = NoFolder
SPECIFICATION FairSpec
INVARIANTS
    TypeOK
    OneHolder
    NoLeakedReservation
    SnapshotIsTheWork
PROPERTIES
    ImplementsSlots
    QueueDrains
    ReservationsEnd
CHECK_DEADLOCK FALSE
