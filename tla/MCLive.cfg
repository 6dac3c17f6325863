CONSTANTS
    Folders = {d1}
    Number <- MCNumber
    Contact <- MCContact
    MaxSms = 2
    MaxActs = 2
    MaxFaults = 1
    MaxTime = 2
    JournalLimit = 1
SPECIFICATION LiveSpec
PROPERTIES
    ClaimedIsQueued
    EveryJobSettles
    StatusIsTold
    RoutingIsSound
CHECK_DEADLOCK FALSE
