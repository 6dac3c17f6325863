----------------------------- MODULE UploadPipeline -----------------------------
(***************************************************************************)
(* The life of a job folder: the tandem studio (ATS) drops it on the share *)
(* and marks it `_fertig.txt`, a monitor loop claims it or recovers it     *)
(* (monitor/service.rs), the worker uploads it, notifies the customer and  *)
(* archives it (upload/worker.rs, util/archive.rs), the operator cancels   *)
(* it or puts it back from the archive (upload/retry.rs), and the program  *)
(* may stop between any two steps.  The steps of a task are cut where it   *)
(* awaits and where it has written something another task, the studio or   *)
(* a restart can see: marker files, status outbox, history, registry.      *)
(*                                                                         *)
(* A job routed to an earlier order ("Nachreichen") takes the worker's     *)
(* other way, process_append_job; how the order is chosen is the subject   *)
(* of AppendRouting.  The profile frozen on a job is left out: every job   *)
(* carries NoAccount.                                                      *)
(***************************************************************************)
EXTENDS UploadRegistry

CONSTANTS
    Monitors,       \* running monitor loops; one, or two after a stop that timed out
    RetryTask,      \* the operator's retry, as a caller of the registry
    Routed,         \* folders that may be appended to an earlier order
    Manifests,      \* manifests the studio delivers, of "none", "ok", "bad"
    ArchiveFails,   \* TRUE: the archive may be missing or unreachable
    MaxCrashes,     \* bound: program restarts
    MaxRetries,     \* bound: operator retries of a folder
    MaxSignals,     \* bound: times the studio marks a folder as finished
    MaxLingers,     \* bound: times markers cannot be removed, in all
    NoFolder        \* a task without a folder

ASSUME NoFolderAssumption == NoFolder \notin Folders
ASSUME RetryTaskAssumption == RetryTask \notin Monitors
ASSUME NoProfiles == Accounts = {}
ASSUME ManifestsAssumption == Manifests \subseteq {"none", "ok", "bad"}
ASSUME ArchiveAssumption == ArchiveFails \in BOOLEAN
ASSUME RoutedAssumption == Routed \subseteq Folders
ASSUME BoundsAssumption == {MaxCrashes, MaxRetries, MaxSignals, MaxLingers} \subseteq Nat

VARIABLES
    place,      \* per folder: where the directory is
    marks,      \* per folder: its marker files
    manifest,   \* per folder: _ams_manifest.v1.json
    outbox,     \* per folder: state in .ams-handoff/<correlation_id>.json
    history,    \* per folder: status column of its history row
    loop,       \* per monitor loop: the folder it works on
    worker,     \* the upload worker
    retry,      \* the operator's retry, one at a time
    cancel,     \* the cancel flag of UploadControl
    signals,    \* per folder: times marked as finished
    notified,   \* per folder: notifications sent
    retries,    \* per folder: retries begun
    lingers,    \* per folder: times a marker outlived its upload
    crashes     \* restarts so far

files == <<place, marks, manifest>>
reports == <<outbox, history>>
tasks == <<loop, worker, retry>>
counts == <<signals, notified, retries, lingers, crashes>>
vars == <<regVars, files, reports, tasks, cancel, counts>>

Archived == {"success", "cancelled", "error"}
Outcomes == {"success", "cancelled", "failed"}

LoopState == [at : {"idle", "gated", "registered", "read", "claimed", "queued", "stalled",
                    "bound", "failed"},
              folder : Folders \cup {NoFolder}]
WorkerState == [at : {"idle", "taken", "uploading", "linking", "notifying", "ended",
                      "recorded", "reported", "archived", "appending", "told"},
                folder : Folders \cup {NoFolder},
                outcome : Outcomes \cup {"open"}]
RetryState == [at : {"idle", "found", "moved", "marked", "bound", "queued"},
               folder : Folders \cup {NoFolder}]

Idle == [at |-> "idle", folder |-> NoFolder]
IdleWorker == [at |-> "idle", folder |-> NoFolder, outcome |-> "open"]

TypeOK ==
    /\ RegTypeOK
    /\ place \in [Folders -> Archived \cup {"absent", "share"}]
    /\ marks \in [Folders -> SUBSET {"fertig", "processing"}]
    /\ manifest \in [Folders -> {"none", "ok", "bad"}]
    /\ outbox \in [Folders -> {"none", "accepted", "rejected", "queued", "uploading",
                               "completed", "failed"}]
    /\ history \in [Folders -> Outcomes \cup {"none", "started"}]
    /\ loop \in [Monitors -> LoopState]
    /\ worker \in WorkerState
    /\ retry \in RetryState
    /\ cancel \in BOOLEAN
    /\ signals \in [Folders -> 0..MaxSignals]
    /\ notified \in [Folders -> Nat]
    /\ retries \in [Folders -> 0..MaxRetries]
    /\ lingers \in [Folders -> Nat]
    /\ crashes \in 0..MaxCrashes

Init ==
    /\ RegInit
    /\ place = [f \in Folders |-> "absent"]
    /\ marks = [f \in Folders |-> {}]
    /\ manifest = [f \in Folders |-> "none"]
    /\ outbox = [f \in Folders |-> "none"]
    /\ history = [f \in Folders |-> "none"]
    /\ loop = [m \in Monitors |-> Idle]
    /\ worker = IdleWorker
    /\ retry = Idle
    /\ cancel = FALSE
    /\ signals = [f \in Folders |-> 0]
    /\ notified = [f \in Folders |-> 0]
    /\ retries = [f \in Folders |-> 0]
    /\ lingers = [f \in Folders |-> 0]
    /\ crashes = 0

-----------------------------------------------------------------------------
\* What the tasks write.
JobOf(f) == [folder |-> f, account |-> NoAccount]

\* write_job_outbox: nothing without a correlation id, that is without a manifest.
WriteOutbox(f, state) ==
    outbox' = IF manifest[f] = "none" THEN outbox ELSE [outbox EXCEPT ![f] = state]

WriteHistory(f, status) == history' = [history EXCEPT ![f] = status]

\* emit_marker_history: names and flags; a row that is new starts as "Gestartet".  A job
\* routed to an earlier order is written to that order's row instead.
RecordMarker(f) ==
    \/ history' = [history EXCEPT ![f] = IF @ = "none" THEN "started" ELSE @]
    \/ f \in Routed /\ UNCHANGED history

Mark(f, s) == marks' = [marks EXCEPT ![f] = s]

Go(m, at) == loop' = [loop EXCEPT ![m].at = at]
GoIdle(m) == loop' = [loop EXCEPT ![m] = Idle]

Linger(f) == lingers' = [lingers EXCEPT ![f] = @ + 1]

\* remove_upload_markers: a file that cannot be removed is logged and stays.
RemoveMarkers(f) ==
    \/ Mark(f, {}) /\ UNCHANGED lingers
    \/ /\ \A g \in Folders : lingers[g] < MaxLingers
       /\ \E left \in SUBSET marks[f] : left # {} /\ Mark(f, left)
       /\ Linger(f)

\* archive_directory: moves the folder and removes its markers, or leaves both.
ArchiveDirectory(f, to) ==
    \/ /\ place[f] = "share"
       /\ place' = [place EXCEPT ![f] = to]
       /\ RemoveMarkers(f)
    \/ /\ place[f] # "share" \/ ArchiveFails
       /\ UNCHANGED <<place, marks, lingers>>

-----------------------------------------------------------------------------
\* The studio.  The manifest is written before the marker (HANDOFF.md).
Deliver(f) ==
    /\ place[f] = "absent"
    /\ signals[f] < MaxSignals
    /\ place' = [place EXCEPT ![f] = "share"]
    /\ Mark(f, {"fertig"})
    /\ \E k \in Manifests : manifest' = [manifest EXCEPT ![f] = k]
    /\ signals' = [signals EXCEPT ![f] = @ + 1]
    /\ UNCHANGED <<regVars, reports, tasks, cancel, notified, retries, lingers, crashes>>

RepairManifest(f) ==
    /\ place[f] = "share"
    /\ manifest[f] = "bad"
    /\ manifest' = [manifest EXCEPT ![f] = "ok"]
    /\ UNCHANGED <<regVars, place, marks, reports, tasks, cancel, counts>>

\* The studio marks a folder again that is still on the share.
Resignal(f) ==
    /\ place[f] = "share"
    /\ "fertig" \notin marks[f]
    /\ signals[f] < MaxSignals
    /\ Mark(f, marks[f] \cup {"fertig"})
    /\ signals' = [signals EXCEPT ![f] = @ + 1]
    /\ UNCHANGED <<regVars, place, manifest, reports, tasks, cancel, notified, retries,
                   lingers, crashes>>

-----------------------------------------------------------------------------
\* try_claim_and_enqueue, called for every marked folder by scan_once and for every
\* announced one by process_handoff_pending.
Claimable(f) == place[f] = "share" /\ marks[f] = {"fertig"}

\* A marker that cannot be removed stays, and the scan goes on: no step.
DiscardStale(m, f) ==
    /\ loop[m].at = "idle"
    /\ place[f] = "share"
    /\ marks[f] = {"fertig", "processing"}
    /\ Mark(f, {"processing"})
    /\ UNCHANGED <<regVars, place, manifest, reports, tasks, cancel, counts>>

\* The manifest is bad, or the order it names cannot be appended to.
GateRejects(m, f) ==
    /\ loop[m].at = "idle"
    /\ Claimable(f)
    /\ manifest[f] = "bad" \/ (manifest[f] = "ok" /\ f \in Routed)
    /\ WriteOutbox(f, "rejected")
    /\ UNCHANGED <<regVars, files, history, tasks, cancel, counts>>

GateAccepts(m, f) ==
    /\ loop[m].at = "idle"
    /\ Claimable(f)
    /\ manifest[f] # "bad"
    /\ WriteOutbox(f, "accepted")
    /\ loop' = [loop EXCEPT ![m] = [at |-> "gated", folder |-> f]]
    /\ UNCHANGED <<regVars, files, history, worker, retry, cancel, counts>>

ClaimRegister(m) ==
    /\ loop[m].at = "gated"
    /\ \/ Register(loop[m].folder) /\ Go(m, "registered")
       \/ loop[m].folder \in pending /\ GoIdle(m) /\ UNCHANGED regVars
    /\ UNCHANGED <<files, reports, worker, retry, cancel, counts>>

MarkedFinished(f) == place[f] = "share" /\ "fertig" \in marks[f]

\* read_marker_file: the marker may have gone since the gate.
ClaimRead(m) ==
    /\ loop[m].at = "registered"
    /\ \/ MarkedFinished(loop[m].folder) /\ Go(m, "read") /\ UNCHANGED regVars
       \/ ~MarkedFinished(loop[m].folder) /\ Unregister(loop[m].folder) /\ GoIdle(m)
    /\ UNCHANGED <<files, reports, worker, retry, cancel, counts>>

\* Mutant of ClaimGivesUp: the early return keeps the reservation.
GivesUpReserved(m) ==
    /\ loop[m].at = "read"
    /\ GoIdle(m)
    /\ UNCHANGED <<regVars, files, reports, worker, retry, cancel, counts>>

\* No Dropbox profile can be frozen.
ClaimGivesUp(m) ==
    /\ loop[m].at = "read"
    /\ Unregister(loop[m].folder)
    /\ GoIdle(m)
    /\ UNCHANGED <<files, reports, worker, retry, cancel, counts>>

\* The marker is invalid or the customer lookup failed; ArchiveFailed follows.
LookupFails(m) ==
    /\ loop[m].at = "read"
    /\ Unregister(loop[m].folder)
    /\ WriteOutbox(loop[m].folder, "failed")
    /\ WriteHistory(loop[m].folder, "failed")
    /\ Go(m, "failed")
    /\ UNCHANGED <<files, worker, retry, cancel, counts>>

\* An order with the same ids exists and is not finished.
ClaimRejected(m) ==
    /\ loop[m].at = "read"
    /\ Unregister(loop[m].folder)
    /\ WriteOutbox(loop[m].folder, "rejected")
    /\ GoIdle(m)
    /\ UNCHANGED <<files, history, worker, retry, cancel, counts>>

\* The history row is written, then claim_fertig_marker renames the marker, over an
\* existing one; it fails when `_fertig.txt` is gone.
ClaimRename(m) ==
    /\ loop[m].at = "read"
    /\ LET f == loop[m].folder IN
          \/ /\ MarkedFinished(f)
             /\ Mark(f, {"processing"})
             /\ Go(m, "claimed")
             /\ UNCHANGED regVars
          \/ /\ ~MarkedFinished(f)
             /\ Unregister(f)
             /\ GoIdle(m)
             /\ UNCHANGED marks
    /\ RecordMarker(loop[m].folder)
    /\ UNCHANGED <<place, manifest, outbox, worker, retry, cancel, counts>>

\* The worker lives in this module, so that the reserved enqueue succeeds.
ClaimEnqueue(m) ==
    /\ loop[m].at = "claimed"
    /\ EnqueueSent(JobOf(loop[m].folder), TRUE)
    /\ Go(m, "queued")
    /\ UNCHANGED <<files, reports, worker, retry, cancel, counts>>

ClaimReport(m) ==
    /\ loop[m].at = "queued"
    /\ WriteOutbox(loop[m].folder, "queued")
    /\ GoIdle(m)
    /\ UNCHANGED <<regVars, files, history, worker, retry, cancel, counts>>

-----------------------------------------------------------------------------
\* Mutant of RecoverLook: the registry is not asked.
RecoverUnasked(m, f) ==
    /\ loop[m].at = "idle"
    /\ place[f] = "share"
    /\ "processing" \in marks[f]
    /\ Mark(f, {"processing"})
    /\ loop' = [loop EXCEPT ![m] = [at |-> "stalled", folder |-> f]]
    /\ UNCHANGED <<regVars, place, manifest, reports, worker, retry, cancel, counts>>

\* recover_stalled_folders goes on when it cannot discard a stale `_fertig.txt`.
RecoverLook(m, f) ==
    /\ loop[m].at = "idle"
    /\ place[f] = "share"
    /\ f \notin pending
    /\ "processing" \in marks[f]
    /\ Mark(f, {"processing"}) \/ UNCHANGED marks
    /\ loop' = [loop EXCEPT ![m] = [at |-> "stalled", folder |-> f]]
    /\ UNCHANGED <<regVars, place, manifest, reports, worker, retry, cancel, counts>>

\* The marker cannot be read, or no profile can be resolved.
RecoverGivesUp(m) ==
    /\ loop[m].at = "stalled"
    /\ GoIdle(m)
    /\ UNCHANGED <<regVars, files, reports, worker, retry, cancel, counts>>

\* Mutant of RecoverFails: the folder is archived without a word in the history.
RecoverFailsUnrecorded(m) ==
    /\ loop[m].at = "stalled"
    /\ Go(m, "failed")
    /\ UNCHANGED <<regVars, files, reports, worker, retry, cancel, counts>>

\* No media, an invalid marker or a failed lookup: history, but no outbox; an order that
\* cannot be appended to: both.
RecoverFails(m) ==
    /\ loop[m].at = "stalled"
    /\ WriteHistory(loop[m].folder, "failed")
    /\ \/ UNCHANGED outbox
       \/ loop[m].folder \in Routed /\ WriteOutbox(loop[m].folder, "failed")
    /\ Go(m, "failed")
    /\ UNCHANGED <<regVars, files, worker, retry, cancel, counts>>

RecoverRejected(m) ==
    /\ loop[m].at = "stalled"
    /\ WriteOutbox(loop[m].folder, "rejected")
    /\ GoIdle(m)
    /\ UNCHANGED <<regVars, files, history, worker, retry, cancel, counts>>

\* resolve_recovery_binding succeeds.
RecoverBind(m) ==
    /\ loop[m].at = "stalled"
    /\ RecordMarker(loop[m].folder)
    /\ Go(m, "bound")
    /\ UNCHANGED <<regVars, files, outbox, worker, retry, cancel, counts>>

\* Mutant of RecoverEnqueue: recovery claims to have registered the folder.
RecoverEnqueueReserved(m) ==
    /\ loop[m].at = "bound"
    /\ \/ EnqueueSent(JobOf(loop[m].folder), TRUE)
       \/ EnqueueRefused(JobOf(loop[m].folder), TRUE)
    /\ GoIdle(m)
    /\ UNCHANGED <<files, reports, worker, retry, cancel, counts>>

RecoverEnqueue(m) ==
    /\ loop[m].at = "bound"
    /\ \/ EnqueueSent(JobOf(loop[m].folder), FALSE)
       \/ EnqueueRefused(JobOf(loop[m].folder), FALSE)
    /\ GoIdle(m)
    /\ UNCHANGED <<files, reports, worker, retry, cancel, counts>>

\* handle_marker_failure, after its history update.
ArchiveFailed(m) ==
    /\ loop[m].at = "failed"
    /\ ArchiveDirectory(loop[m].folder, "error")
    /\ GoIdle(m)
    /\ UNCHANGED <<regVars, manifest, reports, worker, retry, cancel, signals, notified,
                   retries, crashes>>

-----------------------------------------------------------------------------
\* The worker: run_loop, process_job, run_single_job, process_append_job.
At(at) == worker' = [worker EXCEPT !.at = at]
EndWith(outcome) == worker' = [worker EXCEPT !.at = "ended", !.outcome = outcome]

WorkerTake ==
    /\ worker.at = "idle"
    /\ Receive
    /\ worker' = [at |-> "taken", folder |-> Head(jobs).folder, outcome |-> "open"]
    /\ UNCHANGED <<files, reports, loop, retry, cancel, counts>>

\* Mutant of WorkerUnresolved: the dropped job stays registered.
UnresolvedStaysRegistered ==
    /\ worker.at = "taken"
    /\ WriteHistory(worker.folder, "failed")
    /\ worker' = IdleWorker
    /\ UNCHANGED <<regVars, files, outbox, loop, retry, cancel, counts>>

\* No client for the job's profile: the markers stay, the outbox is not written.
WorkerUnresolved ==
    /\ worker.at = "taken"
    /\ WriteHistory(worker.folder, "failed")
    /\ Unregister(worker.folder)
    /\ worker' = IdleWorker
    /\ UNCHANGED <<files, outbox, loop, retry, cancel, counts>>

WorkerStart ==
    /\ worker.at = "taken"
    /\ MarkActive(worker.folder)
    /\ WriteOutbox(worker.folder, "uploading")
    /\ cancel' = FALSE
    /\ WriteHistory(worker.folder, "started")
    /\ At("uploading")
    /\ UNCHANGED <<files, loop, retry, counts>>

\* Mutant of Uploaded: the markers stay until the archive.
UploadedKeepsMarkers ==
    /\ worker.at = "uploading"
    /\ At("linking")
    /\ UNCHANGED <<regVars, files, reports, loop, retry, cancel, counts>>

\* upload_with_retries succeeds and remove_upload_markers runs, whatever it leaves.  A
\* folder that is gone has no markers left; its upload can still succeed with the brochure
\* alone.
Uploaded ==
    /\ worker.at = "uploading"
    /\ RemoveMarkers(worker.folder)
    /\ At("linking")
    /\ UNCHANGED <<regVars, place, manifest, reports, loop, retry, cancel, signals, notified,
                   retries, crashes>>

UploadEnds ==
    /\ worker.at = "uploading"
    /\ \/ EndWith("failed")
       \/ cancel /\ EndWith("cancelled")
    /\ UNCHANGED <<regVars, files, reports, loop, retry, cancel, counts>>

\* fetch_share_link looks at the cancel flag before each attempt.
WorkerLink ==
    /\ worker.at = "linking"
    /\ \/ cancel /\ EndWith("cancelled")
       \/ ~cancel /\ At("notifying")
    /\ UNCHANGED <<regVars, files, reports, loop, retry, cancel, counts>>

WorkerNotify ==
    /\ worker.at = "notifying"
    /\ notified' = [notified EXCEPT ![worker.folder] = @ + 1]
    /\ EndWith("success")
    /\ UNCHANGED <<regVars, files, reports, loop, retry, cancel, signals, retries, lingers,
                   crashes>>

\* The job is appended to an earlier order; the row written is that order's.
AppendStart ==
    /\ worker.at = "taken"
    /\ worker.folder \in Routed
    /\ MarkActive(worker.folder)
    /\ WriteOutbox(worker.folder, "uploading")
    /\ cancel' = FALSE
    /\ At("appending")
    /\ UNCHANGED <<files, history, loop, retry, counts>>

\* An order found by its ids: the message goes out before the markers are removed.
AppendTell ==
    /\ worker.at = "appending"
    /\ notified' = [notified EXCEPT ![worker.folder] = @ + 1]
    /\ At("told")
    /\ UNCHANGED <<regVars, files, reports, loop, retry, cancel, signals, retries, lingers,
                   crashes>>

\* An order the studio named ("kind": "append") is appended to without a message.
AppendUnmark ==
    /\ worker.at \in {"appending", "told"}
    /\ RemoveMarkers(worker.folder)
    /\ worker' = [worker EXCEPT !.at = "recorded", !.outcome = "success"]
    /\ UNCHANGED <<regVars, place, manifest, reports, loop, retry, cancel, signals, notified,
                   retries, crashes>>

AppendEnds ==
    /\ worker.at = "appending"
    /\ \E o \in {"failed", "cancelled"} :
          /\ o = "cancelled" => cancel
          /\ worker' = [worker EXCEPT !.at = "recorded", !.outcome = o]
    /\ UNCHANGED <<regVars, files, reports, loop, retry, cancel, counts>>

WorkerRecord ==
    /\ worker.at = "ended"
    /\ WriteHistory(worker.folder, worker.outcome)
    /\ At("recorded")
    /\ UNCHANGED <<regVars, files, outbox, loop, retry, cancel, counts>>

WorkerReport ==
    /\ worker.at = "recorded"
    /\ WriteOutbox(worker.folder, IF worker.outcome = "success" THEN "completed" ELSE "failed")
    /\ At("reported")
    /\ UNCHANGED <<regVars, files, history, loop, retry, cancel, counts>>

\* Mutant of WorkerArchive: the outcome taken for the archive's name.
ArchiveByOutcome ==
    /\ worker.at = "reported"
    /\ ArchiveDirectory(worker.folder, worker.outcome)
    /\ At("archived")
    /\ UNCHANGED <<regVars, manifest, reports, loop, retry, cancel, signals, notified, retries,
                   crashes>>

WorkerArchive ==
    /\ worker.at = "reported"
    /\ ArchiveDirectory(worker.folder,
                        IF worker.outcome = "failed" THEN "error" ELSE worker.outcome)
    /\ At("archived")
    /\ UNCHANGED <<regVars, manifest, reports, loop, retry, cancel, signals, notified, retries,
                   crashes>>

WorkerDone ==
    /\ worker.at = "archived"
    /\ Unregister(worker.folder)
    /\ worker' = IdleWorker
    /\ UNCHANGED <<files, reports, loop, retry, cancel, counts>>

-----------------------------------------------------------------------------
\* The operator.
OperatorCancel ==
    /\ ~cancel
    /\ cancel' = TRUE
    /\ UNCHANGED <<regVars, files, reports, tasks, counts>>

\* retry_upload_from_history, up to the customer lookup it awaits.
RetryBegin(f) ==
    /\ retry.at = "idle"
    /\ retries[f] < MaxRetries
    /\ history[f] \in {"failed", "cancelled"}
    /\ place[f] \in {"error", "cancelled"}
    /\ f \notin pending
    /\ retry' = [at |-> "found", folder |-> f]
    /\ retries' = [retries EXCEPT ![f] = @ + 1]
    /\ UNCHANGED <<regVars, files, reports, loop, worker, cancel, signals, notified, lingers,
                   crashes>>

\* The lookup, the move, the marker or the profile fails: the folder stays where it is.
RetryGivesUp ==
    /\ retry.at \in {"found", "moved", "marked"}
    /\ retry' = Idle
    /\ UNCHANGED <<regVars, files, reports, loop, worker, cancel, counts>>

RetryMove ==
    /\ retry.at = "found"
    /\ place' = [place EXCEPT ![retry.folder] = "share"]
    /\ retry' = [retry EXCEPT !.at = "moved"]
    /\ UNCHANGED <<regVars, marks, manifest, reports, loop, worker, cancel, counts>>

\* write_processing_marker, unless the history row has no marker text; it fails when the
\* folder has gone.
RetryMark ==
    /\ retry.at = "moved"
    /\ \/ /\ place[retry.folder] = "share"
          /\ Mark(retry.folder, marks[retry.folder] \cup {"processing"})
       \/ UNCHANGED marks
    /\ retry' = [retry EXCEPT !.at = "marked"]
    /\ UNCHANGED <<regVars, place, manifest, reports, loop, worker, cancel, counts>>

\* resolve_retry_binding succeeds.
RetryBind ==
    /\ retry.at = "marked"
    /\ retry' = [retry EXCEPT !.at = "bound"]
    /\ UNCHANGED <<regVars, files, reports, loop, worker, cancel, counts>>

RetryEnqueue ==
    /\ retry.at = "bound"
    /\ \/ EnqueueSent(JobOf(retry.folder), FALSE) /\ retry' = [retry EXCEPT !.at = "queued"]
       \/ EnqueueRefused(JobOf(retry.folder), FALSE) /\ retry' = Idle
    /\ UNCHANGED <<files, reports, loop, worker, cancel, counts>>

RetryRecord ==
    /\ retry.at = "queued"
    /\ WriteHistory(retry.folder, "started")
    /\ retry' = Idle
    /\ UNCHANGED <<regVars, files, outbox, loop, worker, cancel, counts>>

\* The program stops and starts again: what is not in a file or in the history is lost.
\* Between an appended folder's message and the removal of its markers, they stay.
Crash ==
    /\ crashes < MaxCrashes
    /\ crashes' = crashes + 1
    /\ IF worker.at = "told" /\ marks[worker.folder] # {} THEN Linger(worker.folder)
       ELSE UNCHANGED lingers
    /\ RegRestart
    /\ loop' = [m \in Monitors |-> Idle]
    /\ worker' = IdleWorker
    /\ retry' = Idle
    /\ cancel' = FALSE
    /\ UNCHANGED <<files, reports, signals, notified, retries>>

-----------------------------------------------------------------------------
Studio == \E f \in Folders : Deliver(f) \/ RepairManifest(f) \/ Resignal(f)

ScanFolder(m, f) ==
    DiscardStale(m, f) \/ GateRejects(m, f) \/ GateAccepts(m, f) \/ RecoverLook(m, f)

ClaimStep(m) ==
    \/ ClaimRegister(m) \/ ClaimRead(m) \/ ClaimGivesUp(m) \/ LookupFails(m) \/ ClaimRejected(m)
    \/ ClaimRename(m) \/ ClaimEnqueue(m) \/ ClaimReport(m)

RecoverStep(m) ==
    \/ RecoverGivesUp(m) \/ RecoverFails(m) \/ RecoverRejected(m)
    \/ RecoverBind(m) \/ RecoverEnqueue(m)

LoopStep(m) == ClaimStep(m) \/ RecoverStep(m) \/ ArchiveFailed(m)

WorkerStep ==
    \/ WorkerTake \/ WorkerUnresolved \/ WorkerStart \/ Uploaded \/ UploadEnds
    \/ WorkerLink \/ WorkerNotify \/ WorkerRecord \/ WorkerReport \/ WorkerArchive
    \/ WorkerDone \/ AppendStart \/ AppendTell \/ AppendUnmark \/ AppendEnds

RetryStep ==
    \/ RetryGivesUp \/ RetryMove \/ RetryMark \/ RetryBind \/ RetryEnqueue \/ RetryRecord

Operator == OperatorCancel \/ RetryStep \/ \E f \in Folders : RetryBegin(f)

Next ==
    \/ Studio
    \/ \E m \in Monitors : LoopStep(m) \/ \E f \in Folders : ScanFolder(m, f)
    \/ WorkerStep
    \/ Operator
    \/ Crash

Spec == Init /\ [][Next]_vars

\* The loops keep scanning every folder, the worker keeps working, and what depends on
\* the outside (the lookup, the order with the same ids, the profile) does not fail for
\* ever: a folder that is looked at again and again is accepted some time.
Fairness ==
    /\ \A m \in Monitors : WF_vars(LoopStep(m))
    /\ \A m \in Monitors, f \in Folders :
          /\ SF_vars(GateAccepts(m, f))
          /\ SF_vars(RecoverLook(m, f))
          /\ SF_vars(DiscardStale(m, f))
          /\ SF_vars(loop[m].folder = f /\ ClaimRename(m))
          /\ SF_vars(loop[m].folder = f /\ RecoverBind(m))
    /\ WF_vars(WorkerStep)
    /\ \A f \in Folders : SF_vars(worker.folder = f /\ WorkerStart)

FairSpec == Spec /\ Fairness

-----------------------------------------------------------------------------
\* The loops, the retry and the worker as the registry sees them.
Caller(at, f) == [at |-> at, folder |-> f, account |-> NoAccount]

CallerOf(task) ==
    IF task.at \in {"registered", "read"} THEN Caller("reserved", task.folder)
    ELSE IF task.at = "claimed" THEN Caller("frozen", task.folder)
    ELSE IF task.at \in {"stalled", "found", "moved", "marked"}
         THEN Caller("checked", task.folder)
    ELSE IF task.at = "bound" THEN Caller("bound", task.folder)
    ELSE Caller("idle", NoFolder)

CallerMap ==
    [c \in Monitors \cup {RetryTask} |-> CallerOf(IF c = RetryTask THEN retry ELSE loop[c])]

WorkerMap ==
    IF worker.at \in {"idle", "taken"} THEN [at |-> worker.at, folder |-> worker.folder]
    ELSE [at |-> "active", folder |-> worker.folder]

Clients == INSTANCE RegistryClients
    WITH Callers <- Monitors \cup {RetryTask}, caller <- CallerMap, worker <- WorkerMap,
         profiles <- Accounts, deleting <- NoAccount

\* Monitor loops, retry and worker use the registry as RegistryClients describes, so that
\* what holds of its callers holds of them: one holder per folder, no leaked reservation.
ImplementsClients == Clients!Spec

-----------------------------------------------------------------------------
InHand == QueuedFolders \cup
    (IF worker.at \in {"taken", "uploading", "appending"} THEN {worker.folder} ELSE {})

\* service.rs: "Active / queued uploads still have a processing marker".  A folder in the
\* queue, or with the worker until it is uploaded, is on the share under its processing
\* marker, through every restart, so that what a restart interrupts is found again.
QueuedIsClaimed == \A f \in InHand : place[f] = "share" /\ "processing" \in marks[f]

\* The archive the folder was moved to agrees with its history status.  A folder appended
\* to an earlier order is reported in that order's row.
ArchiveAgreesWithHistory ==
    \A f \in Folders \ Routed :
        /\ place[f] = "success" => history[f] = "success"
        /\ place[f] = "cancelled" => history[f] = "cancelled"
        /\ place[f] = "error" => history[f] = "failed"

\* Restarts, recoveries and re-signals send the customer no second message, and neither
\* does a retry racing with recovery for the marker it writes: every message is owed to
\* one signal of the studio, to one retry, or to one marker that outlived its upload.
\* The code knows no other guard than the marker: a marker that cannot be removed
\* (remove_upload_markers logs it and goes on), or that a stop leaves between the message
\* about an appended folder and its removal, has the folder uploaded and the customer
\* written to again.
NotifiedPerRequest ==
    \A f \in Folders : notified[f] <= signals[f] + retries[f] + lingers[f]

\* A claimed folder is queued, or leaves the share, even when the program was restarted
\* in between.
ClaimedIsQueued ==
    \A f \in Folders :
        place[f] = "share" /\ "processing" \in marks[f]
            ~> f \in pending \/ place[f] # "share" \/ marks[f] = {}

\* A finished folder with a usable manifest ends in the archive or has at least been
\* uploaded.
EveryJobSettles ==
    \A f \in Folders :
        place[f] = "share" /\ marks[f] # {} /\ manifest[f] # "bad"
            ~> place[f] \in Archived \/ marks[f] = {}

\* HANDOFF.md: "Finalen Status vor Archiv-Move des Job-Ordners setzen; Outbox-Datei bleibt
\* liegen."  A folder with a manifest in the success archive is reported completed.
SuccessReported ==
    \A f \in Folders : place[f] = "success" /\ manifest[f] # "none" => outbox[f] = "completed"
=============================================================================
