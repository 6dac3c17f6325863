---------------------------- MODULE UploadRegistry ----------------------------
(***************************************************************************)
(* The upload queue registry (src-tauri/src/upload/registry.rs): a set of  *)
(* reserved folders and a list of snapshot rows behind one mutex, and the  *)
(* unbounded channel `jobs` to the single upload worker.  Every method     *)
(* takes the lock for its whole body (with_lock), so each is one action    *)
(* here; the modules that extend this one conjoin them with what the       *)
(* caller does.                                                            *)
(*                                                                         *)
(* A folder stands for folder_key(path).  A job carries the folder and the *)
(* Dropbox profile frozen on it; contact data and labels are left out.     *)
(***************************************************************************)
EXTENDS Naturals, Sequences, SequencesExt

CONSTANTS
    Folders,    \* job folders of the monitored share
    Accounts,   \* AMS Dropbox profiles
    NoAccount   \* a job without a frozen profile

ASSUME NoAccountAssumption == NoAccount \notin Accounts

VARIABLES
    pending,    \* Inner.pending: reserved folder keys
    entries,    \* Inner.entries: rows of the queue snapshot, oldest first
    jobs,       \* the channel to the worker, oldest first
    closed      \* TRUE when the receiver of the channel is gone

regVars == <<pending, entries, jobs, closed>>

Binding == Accounts \cup {NoAccount}
Job == [folder : Folders, account : Binding]
QueueEntry == [folder : Folders, account : Binding, state : {"waiting", "active"}]

RegTypeOK ==
    /\ pending \in SUBSET Folders
    /\ entries \in Seq(QueueEntry)
    /\ jobs \in Seq(Job)
    /\ closed \in BOOLEAN

RegInit ==
    /\ pending = {}
    /\ entries = <<>>
    /\ jobs = <<>>
    /\ closed = FALSE

-----------------------------------------------------------------------------
FoldersOf(s) == {s[i].folder : i \in DOMAIN s}
OneEach(s) == \A i, j \in DOMAIN s : s[i].folder = s[j].folder => i = j

EntryFolders == FoldersOf(entries)
QueuedFolders == FoldersOf(jobs)

Rows(f) == {i \in DOMAIN entries : entries[i].folder = f}

\* find_entry_index: position of the first row of the folder.
FirstRow(f) == CHOOSE i \in Rows(f) : \A j \in Rows(f) : i <= j

\* bound_job_count(ams_id): snapshot rows bound to the profile, as a set.
BoundRows(a) == {i \in DOMAIN entries : entries[i].account = a}

-----------------------------------------------------------------------------
\* register() = TRUE.
Register(f) ==
    /\ f \notin pending
    /\ pending' = pending \cup {f}
    /\ UNCHANGED <<entries, jobs, closed>>

\* Mutant of Unregister: the oldest row goes, whosever it is.
UnregisterOldestRow(f) ==
    /\ pending' = pending \ {f}
    /\ entries' = IF entries = <<>> THEN entries ELSE Tail(entries)
    /\ UNCHANGED <<jobs, closed>>

\* unregister(): drops the reservation and the first row of the folder.
Unregister(f) ==
    /\ pending' = pending \ {f}
    /\ entries' = IF Rows(f) = {} THEN entries ELSE RemoveAt(entries, FirstRow(f))
    /\ UNCHANGED <<jobs, closed>>

\* mark_active()
MarkActive(f) ==
    /\ entries' = IF Rows(f) = {} THEN entries
                  ELSE [entries EXCEPT ![FirstRow(f)].state = "active"]
    /\ UNCHANGED <<pending, jobs, closed>>

\* Mutant of EnqueueSent: enqueue() does not look at the reservations.
EnqueueUnchecked(job, reserved) ==
    /\ ~closed
    /\ pending' = pending \cup {job.folder}
    /\ jobs' = Append(jobs, job)
    /\ entries' = Append(entries, [folder |-> job.folder, account |-> job.account,
                                   state |-> "waiting"])
    /\ UNCHANGED closed

\* enqueue() = TRUE: reserved tells whether the caller registered the folder before.
EnqueueSent(job, reserved) ==
    /\ reserved <=> job.folder \in pending
    /\ ~closed
    /\ pending' = pending \cup {job.folder}
    /\ jobs' = Append(jobs, job)
    /\ entries' = Append(entries, [folder |-> job.folder, account |-> job.account,
                                   state |-> "waiting"])
    /\ UNCHANGED closed

\* enqueue() = FALSE because the reservation is not as the caller expects it.
EnqueueRefused(job, reserved) ==
    /\ ~(reserved <=> job.folder \in pending)
    /\ UNCHANGED regVars

\* enqueue() = FALSE because the worker is gone: the reservation is given back.
EnqueueDropped(job, reserved) ==
    /\ reserved <=> job.folder \in pending
    /\ closed
    /\ pending' = pending \ {job.folder}
    /\ UNCHANGED <<entries, jobs, closed>>

\* rx.recv() of the worker loop.
Receive ==
    /\ ~closed
    /\ jobs # <<>>
    /\ jobs' = Tail(jobs)
    /\ UNCHANGED <<pending, entries, closed>>

\* The worker task ends abnormally: the receiver is dropped with what it still holds,
\* the registry keeps its reservations and rows until the program restarts.
DropReceiver ==
    /\ ~closed
    /\ closed' = TRUE
    /\ jobs' = <<>>
    /\ UNCHANGED <<pending, entries>>

\* The program starts anew: registry and channel are in memory only.
RegRestart ==
    /\ pending' = {}
    /\ entries' = <<>>
    /\ jobs' = <<>>
    /\ closed' = FALSE
=============================================================================
