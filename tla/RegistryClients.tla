---------------------------- MODULE RegistryClients ----------------------------
(***************************************************************************)
(* Everyone who calls the upload queue registry, reduced to the calls:     *)
(*   - the reserving path of try_claim_and_enqueue (register, freeze the   *)
(*     Dropbox profile, enqueue(already_registered = true));               *)
(*   - the direct path of recover_stalled_folders and of the operator's    *)
(*     retry (is_registered, awaits, enqueue(already_registered = false)); *)
(*   - the upload worker (recv, mark_active, unregister);                  *)
(*   - the operator who deletes a Dropbox profile.                         *)
(* The marker files and the upload itself are in UploadPipeline.           *)
(***************************************************************************)
EXTENDS UploadRegistry

CONSTANTS
    Callers,    \* tasks that claim, recover or retry folders
    NoFolder    \* a caller or a worker without a folder

ASSUME NoFolderAssumption == NoFolder \notin Folders

VARIABLES
    caller,     \* what each caller is doing
    worker,     \* what the upload worker is doing
    profiles,   \* AMS Dropbox profiles in the account store
    deleting    \* profile whose deletion passed the guard, or NoAccount

vars == <<regVars, caller, worker, profiles, deleting>>

IdleCaller == [at |-> "idle", folder |-> NoFolder, account |-> NoAccount]
IdleWorker == [at |-> "idle", folder |-> NoFolder]

CallerState ==
    [at : {"idle", "reserved", "frozen", "checked", "bound"},
     folder : Folders \cup {NoFolder},
     account : Binding]

WorkerState ==
    [at : {"idle", "taken", "active", "dead"}, folder : Folders \cup {NoFolder}]

TypeOK ==
    /\ RegTypeOK
    /\ caller \in [Callers -> CallerState]
    /\ worker \in WorkerState
    /\ profiles \in SUBSET Accounts
    /\ deleting \in Binding

Init ==
    /\ RegInit
    /\ caller = [c \in Callers |-> IdleCaller]
    /\ worker = IdleWorker
    /\ profiles = Accounts
    /\ deleting = NoAccount

-----------------------------------------------------------------------------
\* Holding a folder in the reserving path.
Reserving(c) == caller[c].at \in {"reserved", "frozen"}

\* Mutant of JobOf: the fields of the job are swapped.
JobSwapped(c) == [folder |-> caller[c].account, account |-> caller[c].folder]

JobOf(c) == [folder |-> caller[c].folder, account |-> caller[c].account]

Idle(c) == caller' = [caller EXCEPT ![c] = IdleCaller]

\* freeze_active_binding: some existing profile, none when the pool is empty.
Freezable(a) == IF profiles = {} THEN a = NoAccount ELSE a \in profiles

Claim(c, f) ==
    /\ caller[c].at = "idle"
    /\ Register(f)
    /\ caller' = [caller EXCEPT ![c] = [at |-> "reserved", folder |-> f,
                                        account |-> NoAccount]]
    /\ UNCHANGED <<worker, profiles, deleting>>

Freeze(c) ==
    /\ caller[c].at \in {"reserved", "checked"}
    /\ \E a \in Binding :
          /\ Freezable(a)
          /\ caller' = [caller EXCEPT ![c] =
                           [at |-> IF @.at = "reserved" THEN "frozen" ELSE "bound",
                            folder |-> @.folder, account |-> a]]
    /\ UNCHANGED <<regVars, worker, profiles, deleting>>

\* Mutants of GiveUp: the claim returns without unregister(), or unregisters and goes on.
GiveUpReserved(c) ==
    /\ Reserving(c)
    /\ Idle(c)
    /\ UNCHANGED <<regVars, worker, profiles, deleting>>

GiveUpGoesOn(c) ==
    /\ Reserving(c)
    /\ Unregister(caller[c].folder)
    /\ UNCHANGED <<caller, worker, profiles, deleting>>

\* Every early return of the claim after register() gives the reservation back.
GiveUp(c) ==
    /\ Reserving(c)
    /\ Unregister(caller[c].folder)
    /\ Idle(c)
    /\ UNCHANGED <<worker, profiles, deleting>>

EnqueueReserved(c) ==
    /\ caller[c].at = "frozen"
    /\ EnqueueSent(JobOf(c), TRUE)
    /\ Idle(c)
    /\ UNCHANGED <<worker, profiles, deleting>>

\* enqueue() fails on the closed channel and the caller unregisters once more.
EnqueueReservedDropped(c) ==
    /\ caller[c].at = "frozen"
    /\ closed
    /\ Unregister(caller[c].folder)
    /\ Idle(c)
    /\ UNCHANGED <<worker, profiles, deleting>>

Look(c, f) ==
    /\ caller[c].at = "idle"
    /\ f \notin pending
    /\ caller' = [caller EXCEPT ![c] = [at |-> "checked", folder |-> f,
                                        account |-> NoAccount]]
    /\ UNCHANGED <<regVars, worker, profiles, deleting>>

\* Early returns of recovery and retry: nothing is reserved yet.
TurnAway(c) ==
    /\ caller[c].at = "checked"
    /\ Idle(c)
    /\ UNCHANGED <<regVars, worker, profiles, deleting>>

EnqueueDirect(c) ==
    /\ caller[c].at = "bound"
    /\ \/ EnqueueSent(JobOf(c), FALSE)
       \/ EnqueueRefused(JobOf(c), FALSE)
       \/ EnqueueDropped(JobOf(c), FALSE)
    /\ Idle(c)
    /\ UNCHANGED <<worker, profiles, deleting>>

-----------------------------------------------------------------------------
\* Mutant of WorkerReceive: the next job is taken while the last one still uploads.
ReceiveUnawaited ==
    /\ worker.at \in {"idle", "active"}
    /\ Receive
    /\ worker' = [at |-> "taken", folder |-> Head(jobs).folder]
    /\ UNCHANGED <<caller, profiles, deleting>>

WorkerReceive ==
    /\ worker.at = "idle"
    /\ Receive
    /\ worker' = [at |-> "taken", folder |-> Head(jobs).folder]
    /\ UNCHANGED <<caller, profiles, deleting>>

\* Mutant of WorkerUnresolved: the dropped job is not unregistered.
UnresolvedStaysRegistered ==
    /\ worker.at = "taken"
    /\ worker' = IdleWorker
    /\ UNCHANGED <<regVars, caller, profiles, deleting>>

\* resolve_job_cloud_client fails: the job is dropped.
WorkerUnresolved ==
    /\ worker.at = "taken"
    /\ Unregister(worker.folder)
    /\ worker' = IdleWorker
    /\ UNCHANGED <<caller, profiles, deleting>>

WorkerActivate ==
    /\ worker.at = "taken"
    /\ MarkActive(worker.folder)
    /\ worker' = [worker EXCEPT !.at = "active"]
    /\ UNCHANGED <<caller, profiles, deleting>>

WorkerFinish ==
    /\ worker.at = "active"
    /\ Unregister(worker.folder)
    /\ worker' = IdleWorker
    /\ UNCHANGED <<caller, profiles, deleting>>

WorkerDies ==
    /\ worker.at \in {"taken", "active"}
    /\ DropReceiver
    /\ worker' = [at |-> "dead", folder |-> NoFolder]
    /\ UNCHANGED <<caller, profiles, deleting>>

\* delete_dropbox_account: the guard, then the removal.  The command does not run on the
\* monitor's task, which may enqueue in between.
DeleteGuard(a) ==
    /\ deleting = NoAccount
    /\ a \in profiles
    /\ BoundRows(a) = {}
    /\ deleting' = a
    /\ UNCHANGED <<regVars, caller, worker, profiles>>

DeleteCommit ==
    /\ deleting # NoAccount
    /\ profiles' = profiles \ {deleting}
    /\ deleting' = NoAccount
    /\ UNCHANGED <<regVars, caller, worker>>

\* The program stops and starts again: of all this only the account store is a file.
Restart ==
    /\ RegRestart
    /\ caller' = [c \in Callers |-> IdleCaller]
    /\ worker' = IdleWorker
    /\ deleting' = NoAccount
    /\ UNCHANGED profiles

-----------------------------------------------------------------------------
CallerStep(c) ==
    \/ \E f \in Folders : Claim(c, f) \/ Look(c, f)
    \/ Freeze(c)
    \/ GiveUp(c)
    \/ EnqueueReserved(c)
    \/ EnqueueReservedDropped(c)
    \/ TurnAway(c)
    \/ EnqueueDirect(c)

WorkerStep == WorkerReceive \/ WorkerUnresolved \/ WorkerActivate \/ WorkerFinish

Operator == DeleteCommit \/ \E a \in Accounts : DeleteGuard(a)

Next == (\E c \in Callers : CallerStep(c)) \/ WorkerStep \/ WorkerDies \/ Operator \/ Restart

Spec == Init /\ [][Next]_vars

\* The tasks are scheduled: a caller that has started goes on (it need not start), the
\* worker keeps receiving and every upload ends.
Continue(c) == Freeze(c) \/ GiveUp(c) \/ EnqueueReserved(c) \/ EnqueueReservedDropped(c)
                 \/ TurnAway(c) \/ EnqueueDirect(c)

Fairness == WF_vars(WorkerStep) /\ \A c \in Callers : WF_vars(Continue(c))

FairSpec == Spec /\ Fairness

-----------------------------------------------------------------------------
WorkerFolder == IF worker.at \in {"taken", "active"} THEN {worker.folder} ELSE {}
ReservedFolders == {caller[c].folder : c \in {d \in Callers : Reserving(d)}}

\* A folder has one holder: it is in the channel once, and not also with the worker or
\* reserved by a caller, and two callers never hold the same reservation.  This is what
\* keeps a folder from being uploaded twice.
OneHolder ==
    /\ OneEach(jobs)
    /\ QueuedFolders \cap WorkerFolder = {}
    /\ ReservedFolders \cap (QueuedFolders \cup WorkerFolder) = {}
    /\ \A c, d \in Callers :
          Reserving(c) /\ Reserving(d) /\ caller[c].folder = caller[d].folder => c = d

\* No reservation leaks: a folder is pending exactly while a caller works on its claim or
\* it has a snapshot row, through every early return and the closed channel; otherwise the
\* monitor would skip the folder until the program restarts.
NoLeakedReservation ==
    /\ pending = ReservedFolders \cup EntryFolders
    /\ ReservedFolders \cap EntryFolders = {}

\* The snapshot the UI shows is the work that is left: while the worker lives there is one
\* row per job in the channel or with the worker, and the active row is the worker's.
SnapshotIsTheWork ==
    /\ OneEach(entries)
    /\ ~closed => EntryFolders = QueuedFolders \cup WorkerFolder
    /\ ~closed => \A i \in DOMAIN entries :
          entries[i].state = "active" <=> worker.at = "active" /\ entries[i].folder = worker.folder

ActiveFolders == {entries[i].folder : i \in {j \in DOMAIN entries : entries[j].state = "active"}}

\* The queue as its users may think of it.
SlotOf(f) ==
    IF f \in ActiveFolders THEN "active"
    ELSE IF f \in EntryFolders THEN "waiting"
    ELSE IF f \in pending THEN "reserved" ELSE "free"

Slots == INSTANCE FolderSlots WITH slot <- [f \in Folders |-> SlotOf(f)]

\* Every step of the registry's callers is a step of one folder's slot, or none.
ImplementsSlots == Slots!Spec

\* Every job that was queued leaves the queue, unless the worker died.
QueueDrains == \A f \in Folders : f \in EntryFolders ~> (f \notin EntryFolders \/ closed)

\* A reservation never outlives the claim that made it.
ReservationsEnd == \A f \in Folders : f \in ReservedFolders ~> f \notin ReservedFolders
=============================================================================
