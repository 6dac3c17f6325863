-------------------------------- MODULE Desk --------------------------------
(***************************************************************************)
(* Ten components that share no state, each by itself: what the operator   *)
(* does at the desk, what the bridge tells and remembers, and what the     *)
(* monitor waits for.  A behaviour is one of one component, named by part; *)
(* the variables it has no use for stay 0.  Where two components call a    *)
(* variable of their own alike (row, now, acts, phase, faults) they share  *)
(* the name, never the value.                                              *)
(***************************************************************************)
EXTENDS Naturals, Sequences, FiniteSets

CONSTANTS Roster, Words, Guests, MaxTokens,                      \* CrewNames
          People, LastName, Folders, Guest, Today, Before(_, _), MaxActs, \* FolderAssign
          HistoryRows, Lookup, Callers, MaxVersion, MaxCalls,    \* BookingFlags
          Hosts, Unnamed, Connected, Ttl, Retention, Recent, PruneEvery, \* AtsBridge
          Limit, MaxRaw, PageSize, MaxClock, MaxEvents,
          Jobs, MaxRuns, MaxPolls,                    \* JobStatus, Jobs of AtsBridge too
          Accounts, MaxProfiles, Flows, MaxCommands,             \* DropboxAccounts
          Markers, Payloads,                                     \* MediaFlags
          Watched, Waits, MaxTime, MaxWrites,                    \* FolderStability
          Picks, MaxPicks,                                       \* AppendStaging
          Appliers, Requests, Binds, Clouds, MaxSaves,           \* BridgeClients
          Nobody,
          MaxFaults, MaxLapses        \* bounds of faults: MaxLapses with the flags of a
                                      \* booking and the status of a job, MaxFaults elsewhere

VARIABLES part,
          tokens, guest, outside,
          cust, fold, op, history, acts,
          rows, api, lock, call, job, calls,
          now, lastPrune, hosts, activity, origin, announced,
          row, outbox, replacing, stage, runs, completed, poll, told, polls,
          up, migrated, made, creds, token, active, cur, access, flow, jobs, session,
          marker, service, tries, phase, answer, kunde,
          size, written, fertig, processing, manifest, pending, required, running,
          pass, walk, claim, blind,
          booked, paid, items, parsed, root, exists, lost,
          enabled, bind, base, key, instance, server, boundTo, inner, apply,
          request, saves,
          faults

Crew == INSTANCE CrewNames
Assign == INSTANCE FolderAssign
Flags == INSTANCE BookingFlags WITH Rows <- HistoryRows, MaxFaults <- MaxLapses
Presence == INSTANCE AtsBridge WITH MaxTime <- MaxClock
Status == INSTANCE JobStatus WITH MaxFaults <- MaxLapses
Dropbox == INSTANCE DropboxAccounts WITH None <- Nobody, MaxActs <- MaxCommands
Media == INSTANCE MediaFlags WITH Answers <- Payloads
Stability == INSTANCE FolderStability WITH Folders <- Watched
Staging == INSTANCE AppendStaging
Bridge == INSTANCE BridgeClients WITH None <- Nobody

-----------------------------------------------------------------------------
(* What the theorems ask of the constants.  No ASSUME: each theorem names  *)
(* the ones it needs, and MCDesk has TLC evaluate them on its instance.    *)

(* Who is in the roster is called like nobody else in it and by no token   *)
(* that the prediction passes over.                                        *)
RosterIsPlain ==
    /\ DOMAIN Roster \subseteq Nat
    /\ \A i \in DOMAIN Roster : ~Crew!Skipped(Roster[i].name)
    /\ \A i, j \in DOMAIN Roster :
          Crew!matches_token(Roster[i], Roster[j].name) => i = j

(* No guest is called TA.                                                  *)
GuestsArePlain == \A g \in Guests : IsFiniteSet(g) /\ "TA" \notin g

(* The lists of customers and of folders are sorted: any two members are   *)
(* comparable, and the order is transitive.                                *)
ListsAreSorted ==
    \A L \in {People, Folders} :
       /\ \A x, y \in L : x # y => Before(x, y) \/ Before(y, x)
       /\ \A x, y, z \in L : Before(x, y) /\ Before(y, z) => Before(x, z)

(* An account is none of the marks, and no profile is none.                *)
AccountsApart ==
    /\ MaxProfiles \in Nat /\ Nobody \notin Dropbox!Profiles
    /\ Accounts \cap {Nobody, Dropbox!Unbound, Dropbox!Absent} = {}

(* The type of a customer's product names one family or none.              *)
TypesNameOne ==
    \A a \in Payloads :
       LET typ == Media!Or(Media!At(a.customer, "typ"), Media!At(a.outer, "typ"))
       IN  typ.family = {} \/ \E f \in Media!Families : typ.family = {f}

(* What is picked: its name as a sequence, its product as a pair whose     *)
(* first part is not the directory of the previews.                        *)
PicksShape ==
    /\ MaxPicks \in Nat
    /\ \A p \in Picks :
         /\ p.name \in Seq(Nat) /\ p.preview \in BOOLEAN
         /\ p.cat = <<p.cat[1], p.cat[2]>> /\ p.cat[1] # "preview"

-----------------------------------------------------------------------------
(* The variables of one component only.                                    *)

crewOwn == <<tokens, guest, outside>>
assignOwn == <<cust, fold, op, history>>
flagsOwn == <<rows, api, lock, call, job, calls>>
presenceOwn == <<lastPrune, hosts, activity, origin, announced>>
statusOwn == <<outbox, replacing, stage, runs, completed, poll, told, polls>>
dropboxOwn == <<up, migrated, made, creds, token, active, cur, access, flow, jobs, session>>
mediaOwn == <<marker, service, tries, answer, kunde>>
stabilityOwn == <<size, written, fertig, processing, manifest, pending, required,
                  running, pass, walk, claim, blind>>
stagingOwn == <<booked, paid, items, parsed, root, exists, lost>>
bridgeOwn == <<enabled, bind, base, key, instance, server, boundTo, inner, apply,
               request, saves>>

all == <<part, crewOwn, assignOwn, flagsOwn, presenceOwn, statusOwn, dropboxOwn,
         mediaOwn, stabilityOwn, stagingOwn, bridgeOwn, row, now, acts, phase, faults>>

NoCrew == tokens = 0 /\ guest = 0 /\ outside = 0
NoAssign == cust = 0 /\ fold = 0 /\ op = 0 /\ history = 0
NoFlags == rows = 0 /\ api = 0 /\ lock = 0 /\ call = 0 /\ job = 0 /\ calls = 0
NoPresence == lastPrune = 0 /\ hosts = 0 /\ activity = 0 /\ origin = 0 /\ announced = 0
NoStatus == /\ outbox = 0 /\ replacing = 0 /\ stage = 0 /\ runs = 0 /\ completed = 0
            /\ poll = 0 /\ told = 0 /\ polls = 0
NoDropbox == /\ up = 0 /\ migrated = 0 /\ made = 0 /\ creds = 0 /\ token = 0 /\ active = 0
             /\ cur = 0 /\ access = 0 /\ flow = 0 /\ jobs = 0 /\ session = 0
NoMedia == marker = 0 /\ service = 0 /\ tries = 0 /\ answer = 0 /\ kunde = 0
NoStability == /\ size = 0 /\ written = 0 /\ fertig = 0 /\ processing = 0 /\ manifest = 0
               /\ pending = 0 /\ required = 0 /\ running = 0 /\ pass = 0 /\ walk = 0
               /\ claim = 0 /\ blind = 0
NoStaging == /\ booked = 0 /\ paid = 0 /\ items = 0 /\ parsed = 0 /\ root = 0
             /\ exists = 0 /\ lost = 0
NoBridge == /\ enabled = 0 /\ bind = 0 /\ base = 0 /\ key = 0 /\ instance = 0 /\ server = 0
            /\ boundTo = 0 /\ inner = 0 /\ apply = 0 /\ request = 0 /\ saves = 0

-----------------------------------------------------------------------------
(* The variables that the component p has no use for.                      *)

NoOthers(p) ==
    /\ part = p
    /\ p # "crew" => NoCrew
    /\ p # "assign" => NoAssign
    /\ p # "flags" => NoFlags
    /\ p # "presence" => NoPresence
    /\ p # "status" => NoStatus
    /\ p # "profiles" => NoDropbox
    /\ p # "media" => NoMedia
    /\ p # "stability" => NoStability
    /\ p # "staging" => NoStaging
    /\ p # "bridge" => NoBridge
    /\ p \notin {"status", "profiles"} => row = 0
    /\ p \notin {"presence", "stability"} => now = 0
    /\ p \notin {"assign", "profiles"} => acts = 0
    /\ p \notin {"media", "staging"} => phase = 0
    /\ p \in {"crew", "presence", "media", "bridge"} => faults = 0

-----------------------------------------------------------------------------
DeskInit ==
    \/ NoOthers("crew") /\ Crew!Init
    \/ NoOthers("assign") /\ Assign!Init
    \/ NoOthers("flags") /\ Flags!Init
    \/ NoOthers("presence") /\ Presence!Init
    \/ NoOthers("status") /\ Status!Init
    \/ NoOthers("profiles") /\ Dropbox!Init
    \/ NoOthers("media") /\ Media!Init
    \/ NoOthers("stability") /\ Stability!Init
    \/ NoOthers("staging") /\ Staging!Init
    \/ NoOthers("bridge") /\ Bridge!Init

DeskNext ==
    \/ part = "crew" /\ Crew!Next
       /\ UNCHANGED <<part, assignOwn, flagsOwn, presenceOwn, statusOwn,
                       dropboxOwn, mediaOwn, stabilityOwn, stagingOwn,
                       bridgeOwn, row, now, acts, phase, faults>>
    \/ part = "assign" /\ Assign!Next
       /\ UNCHANGED <<part, crewOwn, flagsOwn, presenceOwn, statusOwn,
                       dropboxOwn, mediaOwn, stabilityOwn, stagingOwn,
                       bridgeOwn, row, now, phase>>
    \/ part = "flags" /\ Flags!Next
       /\ UNCHANGED <<part, crewOwn, assignOwn, presenceOwn, statusOwn,
                       dropboxOwn, mediaOwn, stabilityOwn, stagingOwn,
                       bridgeOwn, row, now, acts, phase>>
    \/ part = "presence" /\ Presence!Next
       /\ UNCHANGED <<part, crewOwn, assignOwn, flagsOwn, statusOwn, dropboxOwn,
                       mediaOwn, stabilityOwn, stagingOwn, bridgeOwn, row, acts,
                       phase, faults>>
    \/ part = "status" /\ Status!Next
       /\ UNCHANGED <<part, crewOwn, assignOwn, flagsOwn, presenceOwn,
                       dropboxOwn, mediaOwn, stabilityOwn, stagingOwn,
                       bridgeOwn, now, acts, phase>>
    \/ part = "profiles" /\ Dropbox!Next
       /\ UNCHANGED <<part, crewOwn, assignOwn, flagsOwn, presenceOwn,
                       statusOwn, mediaOwn, stabilityOwn, stagingOwn, bridgeOwn,
                       now, phase>>
    \/ part = "media" /\ Media!Next
       /\ UNCHANGED <<part, crewOwn, assignOwn, flagsOwn, presenceOwn,
                       statusOwn, dropboxOwn, stabilityOwn, stagingOwn,
                       bridgeOwn, row, now, acts, faults>>
    \/ part = "stability" /\ Stability!Next
       /\ UNCHANGED <<part, crewOwn, assignOwn, flagsOwn, presenceOwn,
                       statusOwn, dropboxOwn, mediaOwn, stagingOwn, bridgeOwn,
                       row, acts, phase>>
    \/ part = "staging" /\ Staging!Next
       /\ UNCHANGED <<part, crewOwn, assignOwn, flagsOwn, presenceOwn,
                       statusOwn, dropboxOwn, mediaOwn, stabilityOwn, bridgeOwn,
                       row, now, acts>>
    \/ part = "bridge" /\ Bridge!Next
       /\ UNCHANGED <<part, crewOwn, assignOwn, flagsOwn, presenceOwn,
                       statusOwn, dropboxOwn, mediaOwn, stabilityOwn, stagingOwn,
                       row, now, acts, phase, faults>>

DeskSpec == DeskInit /\ [][DeskNext]_all

-----------------------------------------------------------------------------
(* Properties: those of the components.                                    *)

(* The batch dialog proposes one folder a customer and one customer a      *)
(* folder, and passes no better pair over (FolderAssign).                  *)
ProposalFits == part = "assign" => Assign!ProposalFits

(* An installation is shown to the operator with the jobs it announced and *)
(* all of its activity (AtsBridge).                                        *)
PresenceIsTrue == part = "presence" => Presence!PresenceIsTrue

(* ATS hears of no job that it is completed before it was (JobStatus).     *)
CompletedIsTrue == part = "status" => Status!CompletedIsTrue

(* Only booked products are paid, what the answer names is booked, and the *)
(* marker that needs no lookup gets none (MediaFlags).                     *)
FlagsAreSound == part = "media" => Media!FlagsAreSound

(* The directory that goes up with an append is whole, with its previews   *)
(* (AppendStaging).                                                        *)
StageIsSound == part = "staging" => Staging!StageIsSound

(* The bridge that is held is the one that listens, but for those about to *)
(* be held (BridgeClients).                                                *)
BridgeIsSound == part = "bridge" => Bridge!BridgeIsSound

(* A name the program has built is read back as it was meant (CrewNames).  *)
CrewReadBack == [][part = "crew" => Crew!CrewReadBack]_(Crew!vars)

(* The monitor claims no folder half way through an assignment             *)
(* (FolderAssign).                                                         *)
NeverHalfAssigned == [][part = "assign" => Assign!NeverHalfAssigned]_(Assign!vars)

(* A slow answer of the customer API is never written over a newer one     *)
(* (BookingFlags).                                                         *)
FlagsForward == [][part = "flags" => Flags!FlagsForward]_(Flags!vars)

(* A profile stands for one Dropbox account, and everyone agrees which     *)
(* profile is active (DropboxAccounts).                                    *)
ProfilesAreSound == [][part = "profiles" => Dropbox!ProfilesAreSound]_(Dropbox!vars)

(* A folder claimed after its wait was quiet for the set time              *)
(* (FolderStability).                                                      *)
StableIsQuiet == [][part = "stability" => Stability!StableIsQuiet]_(Stability!vars)
=============================================================================
