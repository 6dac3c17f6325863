CONSTANTS
    Nobody = Nobody
    MaxFaults = 1
    MaxLapses = 2
    Roster <- MCRoster
    Words = {"Muster"}
    MaxTokens = 2
    Guests = {{"Andreas", "Muster"}, {"Muster"}, {"Tim"}}
    People = {"p1", "p2"}
    LastName <- MCLastName
    Folders = {"f1", "f2"}
    Guest <- MCGuest
    Today = {"f2"}
    Before <- MCBefore
    MaxActs = 3
    HistoryRows = {"r1"}
    Lookup <- MCLookup
    Callers = {"c1", "c2"}
    MaxVersion = 2
    MaxCalls = 3
    Hosts = {"h1", "unnamed"}
    Unnamed = "unnamed"
    Connected = 0
    Ttl = 1
    Retention = 1
    Recent = 1
    PruneEvery = 1
    Limit = 1
    MaxRaw = 3
    PageSize = 1
    MaxClock = 2
    MaxEvents = 4
    Jobs = {"c1"}
    MaxRuns = 2
    MaxPolls = 3
    Accounts = {"a1", "a2"}
    MaxProfiles = 2
    Flows = {"o1", "o2"}
    MaxCommands = 4
    Markers <- MCMarkers
    Payloads <- MCAnswers
    Watched = {"f1"}
    Waits = {0, 2}
    MaxTime = 5
    MaxWrites = 2
    Picks <- MCPicks
    MaxPicks = 3
    Appliers = {"a1", "a2"}
    Requests = {"q1"}
    Binds = {"b1", "b2"}
    Clouds = {"k1", "k2"}
    MaxSaves = 2
SPECIFICATION DeskSpec
CHECK_DEADLOCK FALSE
INVARIANTS
    ProposalFits
    PresenceIsTrue
    CompletedIsTrue
    FlagsAreSound
    StageIsSound
    BridgeIsSound
PROPERTIES
    CrewReadBack
    NeverHalfAssigned
    FlagsForward
    ProfilesAreSound
    StableIsQuiet
