# AeroMediaService: TLA+ specifications and proofs

AeroMediaService (AMS) takes the photo and video folders a tandem studio (ATS) drops on a
share, uploads them to Dropbox or to a custom API, tells the customer, and files the folder
in an archive. This directory models the parts of it where several actors meet or a stop
hurts: the queue of upload jobs, pause and cancel, the folders a studio announces, the life
of a job folder from the studio's marker to the archive, the uploads themselves with their
checkpoints, the messages to the customer, and the desk's and the bridge's bookkeeping
around them. Source paths are relative to `src/src-tauri/src/`
unless they start with `src/` or `docs/` (`src/docs/`).

Contents: [components](#1-the-system), [plan](#2-plan), [modules](#3-modules-and-code),
[runs](#4-runs), [fairness](#5-fairness), [proofs](#6-proofs),
[findings](#7-findings), [what is left out](#8-not-modelled).

## 1. The system

### Data flow

    ATS ── folder, _ams_manifest.v1.json, then _fertig.txt ──▶ share
    share ── scan loop / handoff ─▶ monitor/service.rs ── _fertig → _in_verarbeitung
    monitor, recovery, retry ── enqueue() ─▶ upload/registry.rs ── channel ─▶ upload/worker.rs
    worker ── upload (chunks poll upload/control.rs) ── share link ── notify
    worker ── history row ── .ams-handoff/<correlation_id>.json ── archive move

There are four kinds of threads of control: the monitor loop (a tokio task), the upload
worker (one tokio task, one job at a time, whose transfers run in parallel), the commands
of the UI (synchronous ones one after the other on the UI thread, asynchronous ones beside
everything else), and the bridge's HTTP handlers. They share the registry (a mutex), the
control flags (three atomics), the files on the share and the history database.

### Components

| Component | State | Operations | Talks to | What makes it correct |
|---|---|---|---|---|
| Registry `upload/registry.rs` | reserved folder keys, snapshot rows, channel | register, unregister, enqueue, mark_active, is_registered, bound_job_count | monitor, retry, append, worker, account commands | one holder per folder; no leaked reservation; snapshot = work left |
| Control `upload/control.rs` | atomics pause, holding, cancel | request_pause/resume/cancel, reset_for_new_job, wait_if_paused, check_cancelled | UI, worker, append | cancel wins over pause; "holding" is somebody's |
| Worker `upload/worker.rs` | job in hand, cloud client | run_loop, process_job, process_append_job | registry, control, cloud, notify, history, outbox, archive | every job leaves the queue; a message is owed to a signal, a retry or a marker left behind; final reports before the archive |
| Monitor `monitor/service.rs` | running flag, loop task, announced handoffs, wake flag | start, stop, scan_once, try_claim_and_enqueue, recover_stalled_folders, process_handoff_pending | share, registry, customers, outbox, history | claims each finished folder once; finds interrupted ones again |
| Markers `model/marker.rs` | `_fertig.txt`, `_in_verarbeitung.txt` | claim, write, remove, discard stale | monitor, worker, retry | a folder in hand is marked |
| Archive `util/archive.rs` | three archive directories | archive_directory, move_directory, find_archived_folder | monitor, worker, retry | archive agrees with history |
| Retry `upload/retry.rs` | none | retry_upload_from_history | archive, markers, registry, history | does not enqueue beside recovery |
| Gate and outbox `model/handoff.rs` | status file per correlation id | evaluate_manifest_gate, write_status_outbox, read, merge with history | monitor, worker, bridge | final status survives; no torn file |
| History `storage/history.rs` | rows in SQLite | add_or_update, queries | everyone | status never contradicts the archive |
| Append `upload/append.rs` | none | append_media_from_history, append routing | registry, control, worker, history | alone in the cloud; counted once |
| Profiles `cloud/guards.rs`, `cloud/binding.rs`, `commands/cloud.rs`, `storage/dropbox_accounts.rs` | Dropbox profiles, active one | freeze binding, delete, activate | registry, monitor | no profile disappears under a queued job |
| Stability `monitor/stability.rs` | fingerprints and clocks per folder | observe_at | monitor | what is found stable was quiet |
| Bridge `bridge/` | pending handoffs, the listening server, instance id | ready, cancel, job status, client token, apply_from_config | monitor, outbox, history | announced work is claimed or rejected; answers are true; what listens is held |
| ATS presence `storage/ats_presence.rs` | hosts, activity, job origins | record_event, two paged views, prune, remove | bridge, UI | a studio is shown with its jobs and all its activity |
| Dropbox upload `cloud/dropbox*.rs`, `upload/checkpoint.rs` | sessions, batches, lanes, limiter, checkpoint | upload_files_hybrid, resume | worker, control | resume uploads what is missing, whole |
| Custom API upload `cloud/custom_api/` | last link, session, order; checkpoint | sessions, finalize, orders | worker, append, profile slot | the customer's own link; no second order of one in sight; the bound profile |
| Notifications `notify/`, status `model/*_status.rs` | status columns of a row, the provider's journal | notify, resend, compare, manual status | worker, UI, timer | a row's status is true and settles |
| Booking flags `upload/booking_flags.rs`, media flags `model/marker.rs` | flags and their stamp | resolve under the row's lock | dialog, retry, append, worker | newest answer stays; paid implies booked |
| Customers, ID assignment `storage/customers.rs`, `model/id_assign.rs`, `model/folder_rename.rs` | customers, folders at the desk | intake, assign (rearranges, renames, marks) | monitor, UI | no folder is claimed half assigned |
| Updater, SMB sessions, configuration, frontend | small, local | | UI | |

`PROJECT.json` lists them with their files and with what is modelled of each.

### What is hard

* *Interleaving.* The registry's callers look, await and then enqueue; recovery and retry
  race for the same processing marker; a stop that times out leaves a second loop; the
  operator's append shares the control flags with the worker.
* *Order.* The claim writes the `queued` status after it has sent the job.
* *Restarts.* Queue and reservations are in memory; only markers, outbox, history and the
  archive survive, each written in a step of its own.
* *Partial failure.* An archive that cannot be reached, a marker that cannot be removed, a
  profile that is gone, a lookup that fails after the reservation, an order whose answer is
  lost or cannot be saved.
* *Resumption.* An upload resumes from a checkpoint that lanes write out of order, that is
  throttled, and that lags behind what the cloud has accepted.
* *Stale copies.* The SMS comparison, the booking flags and the announced handoffs are read,
  awaited upon and written back whole.
* *Liveness.* One worker and one loop: what they leave behind blocks a folder.

`PROJECT.json` lists these at their lines under `hazards`, with the property that would
catch each.

## 2. Plan

| Step | Modules | State |
|---|---|---|
| 1 | `UploadRegistry`, `RegistryClients`, abstract `FolderSlots` | done, proved |
| 2 | `UploadControl` | done, proved |
| 3 | `UploadPipeline`, refining `RegistryClients` | done, proved |
| 4 | `HandoffPending`: announced folders, wake, timeout, cancel, start and stop | done, proved |
| 5 | `DirectUpload`, `CustomApi`: what a transfer does, with its checkpoints | done, proved |
| 6 | `AppendRouting`, `AppendStaging`, `Messages`, `BookingFlags`, `MediaFlags` | done; routing, staging and the flags proved |
| 7 | `FolderStability`, `FolderAssign`, `CrewNames`, `DropboxAccounts` | done, proved |
| 8 | `JobStatus`, `AtsBridge`, `BridgeClients` | done, proved |
| 9 | proofs about what is computed from data: `AtsBridge`, the proposal of `FolderAssign`, `MediaFlags`, `CrewNames` | done |

Composition: `UploadRegistry` holds the registry's methods as actions without a caller.
`RegistryClients` and `UploadPipeline` both extend it and conjoin what the caller does;
the second implements the first, the first implements `FolderSlots`, so that each step is
about one question. `UploadControl` is separate because the flags never decide who
holds a folder; the pipeline keeps only `cancel`. `HandoffPending` is separate because its
question is the list of announced folders and the loop itself; a claim has there only its
outcomes, whose steps are the pipeline's. The modules of steps 5 to 8 each take one
component with everybody who touches its state, and stand for the rest by its outcome.

Abstract specifications: `FolderSlots` (what the queue promises per folder) and
`RegistryClients` (how a well-behaved caller uses the registry), which the pipeline implements.

Every safety property a run checks is a theorem. What remains is liveness, which stays with TLC.

## 3. Modules and code

**`UploadRegistry`.** `pending`, `entries` and `jobs` are `Inner.pending`,
`Inner.entries` and the channel. A method runs under the mutex, so it is one action. The
three outcomes of `enqueue()` are `EnqueueSent`, `EnqueueRefused` and `EnqueueDropped`.
`closed` says that the receiver is gone. Labels and contact data are left out.

**`RegistryClients`.** Every caller, reduced to its calls: the reserving path of the claim
(`Claim`, `Freeze`, `GiveUp`, `EnqueueReserved`), the direct path of recovery and retry
(`Look`, `Freeze`, `TurnAway`, `EnqueueDirect`), the worker (`WorkerReceive`,
`WorkerActivate`, `WorkerUnresolved`, `WorkerFinish`, `WorkerDies`), the deletion of a
profile in its two steps, and a restart.

**`FolderSlots`.** A folder is free, reserved, waiting or active; one is active at a time.
`RegistryClients` maps a folder to its slot by its row and its reservation.

**`UploadControl`.** The three atomics as `flags`. An operation is a list of stores and
each store is a step. `wait_if_paused` is a small program per transfer, each load or store
a step of its own, with the local `announced`. The sleep between two polls is any delay.
The append is a second user of the same flags. `rows` is the number of snapshot rows, which
is all the append looks at; it looks once, before it awaits the customer lookup.

**`UploadPipeline`.** Per folder: where it is (`place`), its marker files (`marks`), its
manifest, its outbox state and its history status. Per task: a program counter and the folder. A task's
code is cut at every await and after every write somebody else or a restart can see:

| Actions | Code |
|---|---|
| `Deliver`, `RepairManifest`, `Resignal` | the studio (external) |
| `DiscardStale`, `GateRejects`, `GateAccepts`, `ClaimRegister`, `ClaimRead`, `ClaimGivesUp`, `LookupFails`, `ClaimRejected`, `ClaimRename`, `ClaimEnqueue`, `ClaimReport` | `try_claim_and_enqueue` |
| `RecoverLook`, `RecoverGivesUp`, `RecoverFails`, `RecoverRejected`, `RecoverBind`, `RecoverEnqueue` | `recover_stalled_folders` |
| `ArchiveFailed` | `handle_marker_failure` |
| `WorkerTake` … `WorkerDone` | `run_loop`, `run_single_job`, `process_job` |
| `AppendStart`, `AppendTell`, `AppendUnmark`, `AppendEnds` | `process_append_job` |
| `RetryBegin` … `RetryRecord` | `retry_upload_from_history` |
| `OperatorCancel` | `request_cancel`, as the worker sees it |
| `Crash` | the program stops and starts |

Abstractions: a folder is a model value; a manifest is absent, usable or unusable; the
archive move is atomic, and may fail where `ArchiveFails`; the uploads themselves are one
step that succeeds, fails or sees the cancel. What the environment decides (customer lookup, profile, network) is
a choice. Removing the markers is best effort, as in `remove_upload_markers` and
`archive_directory`: whatever subset cannot be removed stays (`RemoveMarkers`). A folder of
`Routed` may go to an earlier order; found by its ids, its customer is told before the
markers are removed, named by the studio it has no message. Counters (`signals`, `retries`,
`lingers`, `crashes`) exist to bound a behaviour and to state properties about it; the code
has no such counters. `lingers` counts the times a marker outlives its upload, because it
could not be removed or because the program stopped between message and removal.

**`HandoffPending`.** `entry` is `handoff_pending`: per folder no entry, an open one (by
what its clock has passed: nothing, the claim timeout, the time after which a missing
folder is dropped), or one whose rejection was written. Each loop has a position, the copy
its pass works on, the folders left to look at, and the claim it is in. `running`,
`requested` and `handle` are the fields of `MonitorState`; `reserved` is what the upload
registry holds.

| Actions | Code |
|---|---|
| `Copy`, `Finish` | the studio (external) |
| `Ready`, `Cancel` | `handoff_ready`, `handoff_cancel` with `note_handoff_entry` and `remove_handoff_entries` |
| `Age` | time passes |
| `Start`, `Stop`, `StopTakesHandle`, `StopReturns` | `MonitorState::start`, `stop` |
| `BeginPass` … `NotReady`, `EndPass` | `process_handoff_pending` |
| `Accept`, `Reject`, `Register`, `Queued`, `LookupFailed`, `Refused` | `try_claim_and_enqueue`, called by the pass or by the scan |
| `ScanSkips`, `EndScan` | `scan_once`, `prune_handoff_entries` |
| `ShareMissing`, `Decide`, `Sleep`, `SleepEnds`, `LoopEnds`, `LoopClears` | `run_loop`, `wait_interruptible` |
| `WorkerEnds` | the worker, in one step |

A loop is not disturbed between two awaits, except between the gate and `register()`.
Whether `scan_once` waits for a folder to become stable is a choice (`ScanSkips`). The
sleep may end at any time (the interval), so the model asks nothing of a wake that could
not also be had by waiting. One stop command runs at a time. The program does not restart
here, so recovery has nothing to take up.

**`DirectUpload`.** One folder on its way to Dropbox, tried again after failures, cancels and
crashes until an attempt reports success. `NextSlice` is the head of the loop of
`upload_files_hybrid`: a slice of one file goes serially (`SerialChunk`, `SerialDone`,
`SerialRejected`), a larger one through lanes (`SmallDone`, `LargeChunk`, `LargeDone`), one
commit (`BatchCommitted`) and `GroupDone`. `held` and `remote` are what Dropbox has; a request may
take effect and its answer be lost (`Landing`). `ck` is the checkpoint file, `pend` and
`saved` the throttled saver, `limit` the write limiter; `current_workers` is its second
floor, the lane a refill always may open. `kind` says whose rules for the
checkpoint apply, the native client's or the Custom API client's. Bytes are counted in
chunks.

**`CustomApi`.** The one client of the process and the slot of the Dropbox profile. A
transfer of the worker or of the append is a program counter with its folder, file and offset;
`prev` is the client the pin gives back and `db` the one its upload has taken from the slot.
Proxied: `BeginProxied`, `FileChunk`, `FileLast`, `FilesDone`, `Finalize`. Direct:
`BeginDirect` (which refuses a checkpoint of another profile), `Open`, `Put`, `PutsDone`,
`SubmitKnown` or `SubmitNew`, `Accepted`. `ShareableLink` hands out the link. `orders`
counts the API's orders of a folder, but for those the code has lost sight of: an order whose
answer is lost (`RequestFails`), names no id (`Unnamed`) or cannot be saved (`SaveFails`) is
never counted, and one that was in the checkpoint no longer (`LosesSight`) when its poll fails or
the program stops after the poll (`Forgets`), or when a failed write leaves no checkpoint.

**`Messages`.** A history row's status columns, the SMS provider's journal, and four
writers: the worker's notification, the operator's resend and manual status, and two
comparisons (the 90 s timer and the operator's) that read all rows, await the journal and
write whole rows back. The status functions are translated one by one, the one included that
takes an SMS without a report for delivered after 72 hours: time passes in units of that
length (`TimePasses`). A message is found in the journal by its id or by its number and time,
"the same time" being the same unit; the journal returns the last `JournalLimit` messages. A
comparison that learns a price only writes its whole row back, too.

**`AppendRouting`.** Which order a folder belongs to, decided at the claim and again in
recovery from the history: a parent named by the manifest, or a successful row with the same
numbers, or none. A row that is not successful yet makes the folder wait.

**`AppendStaging`.** The operator's picked files, copied one by one into a staging directory
under unique names, previews beside them, any copy failing.

**`BookingFlags`**, **`MediaFlags`.** The first: who writes a row's flags when, with the row's
lock, answers out of order, and the worker that takes no lock. The second: what an answer
of the customer API means, as the JSON shapes the code looks for; a state is one marker and
its lookup.

**`FolderStability`.** `scan_once` and the observer: a pass lists the folders that wait, a walk is a
step that may miss a part, the clock is read before it, and the studio writes at any time.
A folder found stable is not claimed yet: `claim` holds it while its marker is read and its
customer looked up, and `claim_fertig_marker` or `NotClaimed` is a later step.

**`FolderAssign`**, **`CrewNames`.** The first: the steps of both assignments (layout,
rename, manifest, marker, gate, customers table), each of which may fail or be the last before a
stop, beside a monitor that claims what is marked; and the batch proposal as a function. The
second: prediction, confirmation and building of a folder's name over sequences of tokens,
applied again to its own result.

**`DropboxAccounts`.** Rows, namespaced and legacy keys, active id in settings and in memory,
and the commands on them. Sign-in and connect are cut at their awaits.

**`JobStatus`**, **`AtsBridge`**, **`BridgeClients`.** The bridge's answer to a job's status
from outbox and history while both change; what it remembers of installations and shows in
pages; the listening servers of overlapping `apply_from_config` calls, and a token request
that reads two settings one after the other and answers with whatever address the cloud's
response names.

**`Desk`** puts the ten components that promise no end side by side, each with constants of
its own where two need different values, and states their properties together. **MC modules**
declare the model values. `MCLive` and `Desk` check several components
in one run: a behaviour is one of one component, named by `part`, and the others stay in
their initial states (`MCLive`) or at 0 (`Desk`). Nothing passes between
the parts of such a run; it is a union, not a composition. Definitions
commented "Mutant of …" are altered forms of the definition that follows them; no
specification uses them, and each breaks the property it is listed with in `PROJECT.json`,
which shows that the property depends on that code.

## 4. Runs

| Run | Instance | Shows |
|---|---|---|
| `registry` | 3 folders, 2 callers, 1 profile | types; `OneHolder`; `NoLeakedReservation`; `SnapshotIsTheWork`; implements `FolderSlots`; the queue drains and reservations end |
| `control` | 2 transfers and an append, 3 commands, 1 job | `CancelWins`; `HoldingIsSomeones`; `CancelReleases` |
| `pipeline_crash` | 2 folders, 1 loop, 1 restart, 2 signals each, failing archive, 1 marker that stays | types; `QueuedIsClaimed`; `NotifiedPerRequest`; `ArchiveAgreesWithHistory` |
| `pipeline_retry` | 1 folder that may be appended, 1 loop, 2 retries, 1 restart, 2 signals, failing archive, 1 marker that stays | `NotifiedPerRequest`; implements `RegistryClients` |
| `live` | pipeline: 1 folder, 1 restart; messages: 1 row, 2 SMS, 2 operations, 72 hours passing once, a journal of 1 message; routing: 3 folders of one booking | `ClaimedIsQueued`; `EveryJobSettles`; `StatusIsTold`; `RoutingIsSound` |
| `handoff` | 1 folder, 2 loops, 2 announcements, 1 stop | `ClaimedNotRejected`; `OnlyReadyAnnounces`; `HandoffEnds` |
| `direct` | 4 files in a group of 3 and one alone, 2 lanes, 3 attempts, 2 faults | `UploadIsWhole`; `AppendKeepsOlder`; `AttemptEnds` |
| `custom` | 2 folders and an append, 2 files, 2 profiles, 3 attempts, 1 fault, 1 switch | `OrderIsWhole`; `OneOrderInSight`; `TransferEnds` |
| `desk` | ten components, see `MCDesk.cfg` | one property of each, and two of `FolderAssign` |
| `direct_lost`, `pipeline_success`, `custom_bound` | as the passing run, or smaller | violated: see [findings](#7-findings) |

Why these bounds are enough. *Registry*: a conflict is between two callers about one
folder, or a caller and the worker, while another job is in the channel: two callers and
three folders have every such combination, and the queue is never bounded. The theorems
of section 6 remove the bound for the safety properties. *Control*: a race needs
two transfers in `wait_if_paused` and two commands (pause and cancel, or resume and
pause); a third repeats one of them, and the append adds a second reset. *Pipeline*: one
restart is placed between any two steps; a second one starts from a state the first has
made reachable, and the proofs of the custody properties hold for any number. Two signals are a
folder marked again while it is in any state. One marker that stays is one message more, and
the next would start where the first has left the folder. Two folders share the worker and the channel.
The liveness run has one folder: folders compete only for the worker, which the fairness
lets go on. *Handoff*: entries of different folders meet only in the order of a pass, and
what may happen to one while another is awaited may also happen during its own claim, so
one folder is enough; the second announcement is the one that reaches a loop in the middle
of a pass or after the archive; one stop is what leaves two loops. *Direct*: the group has a small file
between two large ones and as many lanes as leave one file waiting; the last file is larger
than two chunks, so that a serial session has a first, a middle and a last request; two
faults and three attempts are a resume of a resume. *Custom*: a second folder is the
customer after, the append the second user of slot and client, a third attempt the one that
follows a failed one while the other folder is done. *Messages*: two SMS to one number are what a comparison may
confuse, a journal of one is what does not show the older; time passes once because a row
only knows whether its SMS is older than 72 hours. *Routing*: two first uploads of a booking and one that names its parent, with four
announcements, so that one comes back. *Desk*: two customers with one last name and two
folders; two callers of a lock and three calls; two runs of a job and three polls; two
overlapping sign-ins and two profiles; two applies and two saved settings; two writes to a
folder and a clock of five ticks with a wait of two; three picked files; all names of two
tokens over a roster with an alias and a guest called like the crew.

Deadlock is checked in `direct` and `custom`, where a `Rest` step marks the proper end. Elsewhere it is
not (`CHECK_DEADLOCK FALSE`): the program is quiet when nothing is
delivered and the bounds are used up.

A property of `desk` that speaks of steps is a formula over two states in its module
("Of every step."), put in a box by `Desk`.

## 5. Fairness

* `RegistryClients`: weak fairness of the worker (the tokio task is never starved and an
  upload ends: every transfer has a timeout and a bounded number of retries) and of a
  caller that has begun (it runs to its return). No fairness for starting a claim, for the
  worker's death or for the operator.
* `UploadControl`: weak fairness of stores (an operation that has begun is finished) and of
  the polls in `wait_if_paused` (a loop with a sleep). A transfer is not assumed to end.
* `UploadPipeline`: weak fairness of the loops and of the worker. Strong fairness, per
  folder, of the steps that look at it (`scan_once` visits every folder in each round, but
  a folder may be looked at in a moment at which it is not ready), and of the successful
  branches that depend on the outside: the lookup, the binding and the cloud client are
  not assumed to succeed, only not to fail for ever. Without this assumption
  `EveryJobSettles` is false: a folder whose profile never returns is recovered and
  dropped for ever, which is what the code does.

* `HandoffPending`: weak fairness of each loop's steps and of time, and strong fairness of
  `BeginPass`: the share may be missing again and again, but not for ever. None for the
  studio, for start and stop, or for the worker. `HandoffEnds` asks nothing where two
  loops run: each may write its copy over the other's answer for ever.

* `DirectUpload`, `CustomApi`: weak fairness of the attempt's own steps (a transfer that is
  not answered ends in a timeout). None for faults, cancels, the operator or a new attempt.
* `Messages`: weak fairness of the timer's comparison (the 90 s ticker); none for the
  provider's reports, the operator's comparison or the worker.
* `AppendRouting`: weak fairness of the monitor for each folder and of the worker.
* The ten modules of `desk` promise nothing to end, and have no fairness.

## 6. Proofs

Eight modules hold theorems, all checked by TLAPS to the last leaf. A module's constants are
those of the component, with its `ASSUME`s: marks like `None`, `NoFolder` or `NoAccount` are no
members of the sets they stand beside, bounds are natural numbers, sizes are positive or
natural as the code has them, `RetryTask` is no loop, an append is staged in a folder of its own.
What a theorem assumes beyond that stands in its statement and below. Every inductive
invariant was model-checked on a small instance before it was proved.

| Theorem | Statement |
|---|---|
| `RegistryProofs!TypeCorrect` | `Spec => []TypeOK` |
| `HeldOnce`, `NothingLeaks`, `SnapshotCorrect` | `[]OneHolder`, `[]NoLeakedReservation`, `[]SnapshotIsTheWork` |
| `QueueImplementsSlots` | `Spec => ImplementsSlots` |
| `ControlProofs!CancelAlwaysWins`, `HoldingIsAlwaysSomeones` | `[]CancelWins`, `[]HoldingIsSomeones` |
| `PipelineProofs!PipelineImplementsClients` | `Spec => ImplementsClients` |
| `PipelineTypes` | `Spec => [](TypeOK /\ WorkerTypes)` |
| `CustodyProofs!QueuedIsClaimedAlways` | `[]QueuedIsClaimed`, one loop, no retry |
| `ArchiveAlwaysAgrees` | `[]ArchiveAgreesWithHistory`, one loop, no retry |
| `NotifiedOncePerRequest` | `[]NotifiedPerRequest`, one loop |
| `HandoffProofs!QueuedIsNotRejected`, `OnlyReadyMakesEntries` | `[]ClaimedNotRejected`, `OnlyReadyAnnounces` |
| `DirectProofs!UploadIsAlwaysWhole`, `OlderMediaAreKept` | `[]UploadIsWhole`, `AppendKeepsOlder` |
| `CustomProofs!OrderIsAlwaysWhole`, `OrdersAreAccounted` | `[]OrderIsWhole`, `[]OneOrderInSight` |
| `DeskProofs!DeskTellsNoFalseCompletion` | `DeskSpec => []CompletedIsTrue` |
| `DeskHoldsItsBridge` | `DeskSpec => []BridgeIsSound`; `Nobody` is no call |
| `DeskFlagsGoForward` | `DeskSpec => FlagsForward`; `Nobody` is no caller |
| `DeskClaimsQuietFolders` | `DeskSpec => StableIsQuiet`; waits are natural numbers |
| `DeskClaimsWholeAssignments` | `DeskSpec => NeverHalfAssigned` |
| `DeskKeepsProfiles` | `DeskSpec => ProfilesAreSound`; accounts are none of the marks |
| `DeskStagesAll` | `DeskSpec => []StageIsSound`; a product is no `preview` |
| `DeskShowsPresence` | `DeskSpec => []PresenceIsTrue`; `Nobody` is no host, jobs are finite, limits are not zero |
| `DeskProposesFairly` | `DeskSpec => []ProposalFits`; customers and folders are finite and their lists sorted |
| `DeskReadsFlags` | `DeskSpec => []FlagsAreSound`; a product type names one family or none |
| `DeskReadsItsNames` | `DeskSpec => CrewReadBack`; the roster is plain, no guest is called TA |
| `OneOrderAlways` | `[]OneOrderPerBooking` of `AppendRouting`, the safety part of `RoutingIsSound`; parents are folders |

What the theorems of `DeskProofs` ask of the constants is stated in `Desk` (`RosterIsPlain`,
`GuestsArePlain`, `ListsAreSorted`, `AccountsApart`, `TypesNameOne`, `PicksShape`), and the desk
run evaluates it on its instance.

One loop (`OneLoop`) is what a running monitor has unless it was stopped and started while a
claim was under way; no retry (`NoRetries`) is a bound of zero. With two loops, or where the
operator retries what recovery takes up, two actors have one folder in hand, and what these
theorems say of its holder is not claimed: TLC finds both `QueuedIsClaimed` and
`ArchiveAgreesWithHistory` violated once either hypothesis is dropped.

*The registry.* None of the three invariants is inductive alone. That a folder is in the
channel once needs that every folder in the channel is pending (so that `enqueue`
refuses it), which needs that nobody's `unregister` removes another one's reservation,
which needs that a folder with a row is not reserved by a caller, which is
`NoLeakedReservation`; and that the rows are one per folder (so that `unregister` removes
the right one) is `SnapshotIsTheWork`. The inductive invariant is their conjunction with
`TypeOK` and what the closed channel leaves behind. The lemmas below it say what
`RemoveAt`, `Append` and `Tail` do to the folders of a list.

*The refinement to `FolderSlots`* goes through the facts above: one row per folder makes
the slot of a folder a function of its row, and the active row is the worker's, so that at
most one slot is active.

*The pipeline* maps each loop and the retry to a caller of `RegistryClients`, by the
position in its code, and the worker to the worker; the theorem shows every step maps to
a step or a stutter. The instance of `RegistryProofs` then gives the registry's theorems
for the pipeline (`QueueFacts`), without a second proof.

*Pause and cancel.* `CancelWins` says of a transfer that it does not go on; `owed` is the
history of who was waiting when cancel was stored. Inductive with: whoever is owed it waits
still or has failed, and the flag is set while anybody is (`OwedAreLeaving`), since a reset
clears it; and the transfers are out unless their job uploads (`OthersAreOut`), since
only then a reset may not come. An operation is a list of stores, so the proof has one
lemma about a store and none about an operation.

*Custody.* `QueuedIsClaimed` needs that a folder on its way into the queue is claimed
already and that the folder recovery looks at is in nobody's hands (`OnTheWay`); both fail
with two loops or with a retry. `ArchiveAgreesWithHistory` needs that what a loop or the worker
is about to archive is on the share and that its history says so already (`LoopSettles`,
`WorkerSettles`). The messages are a ticket argument: the messages sent for a folder, plus those
still due, do not exceed its signals, its retries and the markers that outlived an upload of
it (`lingers`). Due are one for an upload that is over and not
yet notified, one for a marker or a job, two where a loop holds a folder that is also
loaded, one for a folder in the archive that the operator may put back, and what a retry
on its way may lead to: two once it has moved the folder, for the marker it is about to write
and for its own job (`Due`). Where the markers are removed before the message is sent, a
restart cannot send it twice: the upload's debt then stands in the worker only. Where a marker
stays, or the order was found by ids and the message goes first (`Told`), it can, and
`lingers` pays for it.

*Handoff.* Two loops hold copies of the entries and write them back, so nothing can be said of
an entry by itself. What holds is about the claim: the folder a loop has registered is
reserved and not yet claimed on the share (`ClaimIsHeld`), `register()` lets one in
(`OneClaimant`), and a rejection is written only by a loop that saw it unreserved.

*Direct upload.* Nothing is torn because of what a lane has sent (`LanesFit`,
`SerialFile`) and where a saved cursor may stand (`CursorsFit`, for the checkpoint and for the
one the throttle holds back). Nothing is left out because each file of the slice is queued, in a
lane, closed and waiting for the commit, or done (`SliceCovered`). Older media are kept because the
names are chosen free and the checkpoints carry them (`NamesFree`).

*Custom API.* The checkpoint of a folder is never ahead of its session (`CheckpointIsTrue`), the
worker goes on from what it says (`WorkerFollows`). An order in sight is in the checkpoint, or
its transfer is polling, linking or over (`OrdersInSight`); no folder in work is over, and while
its media go up its checkpoint names no order (`BeforeOrder`), so that `orders/create` is sent
only where none is in sight. The worker and the append have folders of their own, which is why
neither disturbs the other's.

*The desk.* Most components have a theorem over their own specification (`CompletedIsAlwaysTrue`,
`BridgeIsAlwaysSound`, `FlagsNeverGoBack`, `ClaimedIsQuiet`, `NoHalfAssignmentClaimed`,
`ProfilesAreAlwaysSound`, `StageIsAlwaysSound`); `PartInit` and `PartNext` say that `Desk`
begins and steps as the component its `part` names, which carries the invariants over. `StatusInv`: whatever an answer can be made of (row, outbox, states waiting for
their rename, the row a poll has read) says completed only of a job that was. `BridgeIsSound` is
inductive with the types and with `Starts`: a server that is about to be held listens, and what
is held was put there by a call that is done. `FlagsInv`: who asks or emits holds the row's lock, no row has a
stamp newer than the API's, and an answer that is to be written is not older than the row's
stamp. `StabilityInv`: a remembered size is not above the folder's, where it is the folder's
the last write is at most one tick after the wait began, and a walk takes at
most one tick; `ClaimInv`: a folder found stable was quiet then (`ClaimQuiet`), and while its
claim is awaited the pass stands still. `AssignInv`: a marker with ids stands only on a folder whose layout, name
and manifest are its customer's, and the steps of an assignment find what the earlier ones
have left and no marker. `AccountInv`: no two rows share an account, the active profile is a
row whenever there is one, and clients agree with the settings while the program runs.
`StageInv`: a file has at most one copy in a directory; there are one more numbers
than files, so one is free (the pigeonhole of `NameIsFree`), and each file up to `parsed` has all
its copies. `OriginIsAnnouncer`: the origin of an announced job is its announcement, which no other
request changes; the rest of `PresenceIsTrue` is about every value of a log. Pages of jobs are a
quotient (`JobPages`). Pages of a log are recursive functions, and what they reach
is shown without induction: of the places that fail, take the least (`FirstStop`,
`PagesReach`); that the functions exist at all is `StopExists` and `PagesExist`. The batch proposal is a
recursion over the subsets of the candidates and is shown in the same way, from a smallest
subset that fails (`SmallestFailing`, `TakenFits`): `Better` orders the candidates totally
(`CandidatesSorted`), so that each choice has a best one (`BestExists`). `RoutingInv`: at most
one folder of a booking has a row at all, and a job is of a folder that has one or goes to a
parent that has. `MediaInv`: the flags of a known job are what the code computes from the one
answer it has. That computation is three loops over five objects, each unrolled into its steps
(`CodeLoop`, `FamilyLoop`, `ExplicitLoop`); the codes and the families add what is
booked before anything is paid (`AnswerRead`), and the last loop changes nothing where no object
has one of the eight values. `TypesNameOne`, which `family_from_typ` justifies: a type names one
family or none. Crew names need no invariant but the shape of a name: the built
name has one TA, behind the guest, and behind it nothing but the crew, V and the dropzone
(`NameIsWritten`), so the hits in it are one or two (`WrittenIsRead`); what is written is of
the roster, since a hit that is picked is there (`PickedIsHit`). `RosterIsPlain`: no member is
called, by name or alias, like another, or by a token the prediction passes over; it is so of
`default_crew_list`, and an operator who edits the list against it, or a guest called Ta, is where
the property ends.

Checked by TLC only: all liveness (`QueueDrains`, `ReservationsEnd`, `CancelReleases`, `HandoffEnds`,
`AttemptEnds`, `TransferEnds`, `ClaimedIsQueued`, `EveryJobSettles`, `StatusIsTold`, the second part
of `RoutingIsSound`), for which the provers have no rule here.

## 7. Findings

| Run | The code | It says |
|---|---|---|
| `direct_lost` | `cloud/dropbox_batch.rs:532`: a lane that finishes saves the index after its file as the place to resume while an earlier file is still on its way; after a failure that file is skipped and success reported | `:60` "Drive hybrid upload from `start_idx` through the end of `files`." |
| `pipeline_success` | `monitor/service.rs:1045` sends the job, `:1049` writes `queued` over whatever the worker has written | `docs/HANDOFF.md:237` "Finalen Status **vor** Archiv-Move … setzen; Outbox-Datei bleibt liegen." |
| `custom_bound` | `cloud/state.rs:159` writes the slot a job has pinned its profile in; the upload asks the slot again after connecting (`cloud/custom_api/upload.rs:846`) | `docs/IMPLEMENTATION_PLAN.md:867` "Queue mit Job A; Active → B; Job A resumed weiter mit A." |

Seen to fail while modelling, without a run of its own (each is reachable in the module named):

* `RegistryClients`: `commands/cloud.rs:685` looks at the queue and `:687` deletes the
  profile; a job bound to it may be queued in between, against `cloud/guards.rs:5`.
* `UploadControl`: `upload/append.rs:903` looks at the queue before the await at `:926` and
  not after; the append then runs beside a job.
* `UploadPipeline` with two loops (after `monitor/service.rs:425` gave up waiting): a
  queued folder loses its processing marker, against the comment at `:1084`.
* `Messages`: the comparison writes a whole row it read before its await
  (`notify/sms_sync.rs:216`), `last_updated` of a newer write included, against
  `storage/history.rs:490`; the action "Versendet" is refused for a row that was skipped
  (`model/manual_status.rs:227`); nothing but the operator takes `sms_status_locked` off; a lost answer of the SMS
  provider makes the resend send twice.
* `DropboxAccounts`: a refused sign-in deletes the refresh token (`cloud/guards.rs:113`), the
  access token in memory stays usable, against `docs/IMPLEMENTATION_PLAN.md:828`; the
  legacy keys synchronised on activation (`storage/dropbox_accounts.rs:459`) may be those of the
  profile before; the same step undoes a disconnect of the active profile.
* `BookingFlags`: "auto" asks the API whatever the age (`upload/booking_flags.rs:350`),
  against the comment at `:5`; the worker and an append write the flags of their claim under a newer stamp.

Also seen, without a document that says otherwise: a job cancelled by the
operator whose archive move fails is resumed by recovery; a retry that fails after the move (or
a restart there) leaves the folder on the share without a marker, where nothing looks for it;
an announcement repeated after the folder was archived times out as missing, and `rejected`
is written over the final status (`monitor/service.rs:677`); one that arrives in a pass
which rejects the folder is overwritten by the pass's copy (`:690`); `start` aborts a loop
whose handle it finds at its await, and a folder that loop had registered stays reserved
until the program restarts (`:393`); a folder that fails in recovery is archived without an
outbox status (`:1119`); a cancel between `recv` and the worker's reset is lost
(`upload/worker.rs:542`); `stop_monitoring` writes its preference after its wait
(`commands/monitor.rs:56`). In an upload to Dropbox, a session append whose answer was lost is
rejected on every later attempt; `on_group_done` (`cloud/dropbox.rs:1489`) and
`finish_direct_manifest` (`cloud/custom_api/upload.rs:1055`) drop an append's names, so that a
resume uploads files again under new ones; a probe that fails counts as "no such file"
(`cloud/dropbox.rs:242`). In direct mode the last link is never reset
(`cloud/custom_api/orders.rs:242`), so that a customer whose order answers without a link is sent the one before;
a folder gets a second order, against the comment at `:399`, where `orders/create` is not answered
or its answer has no id (the client's last one is then saved), where the checkpoint with the id
cannot be written (`:437`), where the poll of a known order fails, since `:390` writes the
checkpoint without the id before, and where the program stops after the poll. After a row was deleted, two folders of one booking may wait for each other
(`upload/append.rs:588`). A stop between marker and `mark_assigned` (`storage/customers.rs:711`) leaves a
customer who can be assigned twice. Overlapping `apply_from_config` calls (`bridge/mod.rs:80`)
may start the bridge after it was disabled; base and key of the cloud are read one after the
other (`cloud/custom_api/ats_client_token.rs:339`), so that the key of one may be sent to the other, and
what the studio is given is the address the answer names (`:401`); a server that is started but
not held yet is not seen by another call. A marker that cannot be removed is only logged
(`model/marker.rs:162`), and an order found by its ids is told of before its markers are removed
(`upload/worker.rs:416`, `:423`): with a failed archive or a stop the folder is uploaded and its
customer told again. Between the stable verdict (`monitor/service.rs:744`) and the claim (`:1028`)
the customer is looked up (`:895`), and what is written meanwhile is not noticed, against
`monitor/stability.rs:1` "Waits for unchanged folder content before a job is claimed". The time of
an old resend (`last_sms_resent_at`) stays when a folder is uploaded anew, so that its new SMS
may count as delivered at once. Recovery may write `rejected` for a folder that
is claimed (`monitor/service.rs:1196`). `media` without a type is dropped and an
answer's `outside` object read as the type's family too (`model/marker.rs:750`). Two crew members
who are tandem masters only give no review (`model/folder_rename.rs:53`).

## 8. Not modelled

* The updater, SMB sessions, configuration, secrets, logging, migration and the frontend:
  calls to the operating system or files of one actor.
* The text of markers, manifests, templates and messages; name collisions in the archive;
  moves across volumes; the pictures of previews; discovery on the LAN; diagnostics.
* A folder called `…_nachreichung_NN` without `kind: append`, which skips the match by ids
  (`upload/append.rs:622`); history lookups that fail at the claim, which ends as if it had not
  begun.
* Recovery's own `rejected` write (`monitor/service.rs:1196`) in `HandoffPending`: it takes a
  restart with a folder in hand, which is `UploadPipeline`'s subject.
* Checkpoint writes that fail elsewhere than at the submission of an order; the checkpoint that
  is discarded because the folder changed.
* The window of 24 hours in which a message of the journal counts as a row's, and prices, but for
  the writing back.
* Counters and events an append leaves in its parent's row (`upload/append.rs:746`, `:986`).
* The polling of a batch commit, which neither the limiter nor a pause reaches
  (`cloud/dropbox_batch.rs:915`), and single HTTP retries: a request succeeds, fails for good,
  or takes effect without an answer.
* A stop in the middle of a command of `DropboxAccounts` (for one, between
  `commands/cloud.rs:687` and `:694`).
* `WorkerDies` (a panic of the worker) is in `RegistryClients` but not in the pipeline,
  where the worker runs until a restart.
* The interplay of the components of steps 5 to 8 with each other: each sees the others only
  by their outcomes.
