---------------------------- MODULE HandoffPending ----------------------------
(***************************************************************************)
(* Folders the studio announces over the bridge, and the monitor loop that *)
(* looks at them (monitor/service.rs; bridge/server.rs: handoff/ready and  *)
(* handoff/cancel).  A pass of the loop works on a copy of the announced   *)
(* entries, awaits the claim of each folder that is ready, and writes the  *)
(* copy back; it then scans the share, prunes the entries and sleeps       *)
(* unless it was asked for another pass.  Monitoring is stopped and        *)
(* started by commands, beside the loop and beside each other.             *)
(*                                                                         *)
(* What a claim and the worker do in detail is in UploadPipeline: here a   *)
(* claim is the gate, the registration and one outcome, the worker one     *)
(* step.  A loop is taken to run undisturbed from one await to the next,   *)
(* but for the gate and the registration, which two loops may interleave.  *)
(* Of an entry's phase, which the UI shows, only "rejected" is kept.  The  *)
(* program is not restarted, so that no claimed folder is without its      *)
(* reservation: the recovery, which writes rejected for such a folder when *)
(* an order with its ids is not finished, finds none.                      *)
(***************************************************************************)
EXTENDS Naturals, FiniteSets

CONSTANTS
    Folders,        \* folders the studio works on
    Identified,     \* those it announces with a correlation id
    Loops,          \* tasks that may run run_loop
    NoLoop, NoFolder,
    MaxSignals,     \* bound: announcements of a folder
    MaxStops        \* bound: times monitoring is stopped

ASSUME IdentifiedAssumption == Identified \subseteq Folders
ASSUME NoneAssumption == NoLoop \notin Loops /\ NoFolder \notin Folders
ASSUME BoundsAssumption == MaxSignals \in Nat /\ MaxStops \in Nat

VARIABLES
    share,      \* per folder: what is on the share
    reserved,   \* folders the upload registry holds
    outbox,     \* per folder: .ams-handoff/<correlation_id>.json
    entry,      \* handoff_pending: the announced folders
    requested,  \* scan_requested
    running,    \* the flag `running`, shared by all loops
    loop,       \* the tasks that run run_loop
    handle,     \* MonitorState.task
    stopping,   \* the stop command: "idle", "flagged", or the loop it waits for
    signals,    \* per folder: announcements so far
    stops       \* stop commands so far

studio == <<share, signals>>
control == <<running, handle, stopping, stops>>
vars == <<studio, reserved, outbox, entry, requested, loop, control>>

\* An entry, by what its clock has passed: HANDOFF_CLAIM_TIMEOUT ("late"), then
\* HANDOFF_MISSING_FOLDER_TTL ("lost"); once outbox_written, HANDOFF_REJECTED_UI_TTL.
Open == {"open", "late", "lost"}
Written == {"rejected", "expired"}

\* A loop: where it is, the pass's copy of the entries, the folders left to look at, the
\* one that was accepted and not yet registered (gated), the one that is registered while
\* the customer lookup is awaited (claims).
Blank == [f \in Folders |-> "none"]
LoopWith(at, copy, visit) ==
    [at |-> at, copy |-> copy, visit |-> visit, gated |-> NoFolder, claims |-> NoFolder]
LoopAt(at) == LoopWith(at, Blank, {})

Init ==
    /\ share = [f \in Folders |-> "absent"]
    /\ reserved = {}
    /\ outbox = Blank
    /\ entry = Blank
    /\ requested = FALSE
    /\ running = FALSE
    /\ loop = [l \in Loops |-> LoopAt("none")]
    /\ handle = NoLoop
    /\ stopping = "idle"
    /\ signals = [f \in Folders |-> 0]
    /\ stops = 0

-----------------------------------------------------------------------------
SetEntry(f, to) == entry' = [entry EXCEPT ![f] = to]
Report(f, state) == outbox' = IF f \in Identified THEN [outbox EXCEPT ![f] = state] ELSE outbox
SetShare(f, to) == share' = [share EXCEPT ![f] = to]

\* Whoever sleeps in wait_interruptible goes on.
Awake(l) == IF loop[l].at = "asleep" THEN LoopAt("top") ELSE loop[l]
NotifyWaiters == loop' = [l \in Loops |-> Awake(l)]

Present(f) == share[f] \notin {"absent", "archived"}
HasProcessing(f) == share[f] = "claimed"

-----------------------------------------------------------------------------
\* The studio copies a folder and marks it as finished.
Copy(f) ==
    /\ share[f] = "absent"
    /\ SetShare(f, "copying")
    /\ UNCHANGED <<signals, reserved, outbox, entry, requested, loop, control>>

Finish(f) ==
    /\ share[f] = "copying"
    /\ SetShare(f, "ready")
    /\ UNCHANGED <<signals, reserved, outbox, entry, requested, loop, control>>

\* handoff_ready: a new entry, or the old one with a new clock; a rejected one is reopened.
Ready(f) ==
    /\ signals[f] < MaxSignals
    /\ signals' = [signals EXCEPT ![f] = @ + 1]
    /\ SetEntry(f, "open")
    /\ requested' = TRUE
    /\ NotifyWaiters
    /\ UNCHANGED <<share, reserved, outbox, control>>

\* handoff_cancel: the entry goes, the outbox says failed with code cancelled.
Cancel(f) ==
    /\ f \in Identified
    /\ signals[f] > 0
    /\ SetEntry(f, "none")
    /\ requested' = TRUE
    /\ NotifyWaiters
    /\ Report(f, "failed")
    /\ UNCHANGED <<studio, reserved, control>>

\* Time passes.
Age(f) ==
    /\ entry[f] \in {"open", "late", "rejected"}
    /\ SetEntry(f, CASE entry[f] = "open" -> "late" [] entry[f] = "late" -> "lost"
                     [] entry[f] = "rejected" -> "expired")
    /\ UNCHANGED <<studio, reserved, outbox, requested, loop, control>>

\* The worker, after the upload: final status, archive, unregister().
WorkerEnds(f) ==
    /\ share[f] = "claimed"
    /\ SetShare(f, "archived")
    /\ \E state \in {"completed", "failed"} : Report(f, state)
    /\ reserved' = reserved \ {f}
    /\ UNCHANGED <<signals, entry, requested, loop, control>>

-----------------------------------------------------------------------------
\* start() and stop().  start() runs on the UI thread, stop() beside it; start() aborts the
\* loop whose handle it finds, at an await, and what that loop had registered stays so.
Arm(e) == IF e \in Open THEN "open" ELSE e

Start ==
    /\ ~running
    /\ handle # NoLoop => loop[handle].gated = NoFolder
    /\ \E l \in Loops :
          /\ loop[l].at = "none"
          /\ loop' = [k \in Loops |-> IF k = l THEN LoopAt("top")
                                      ELSE IF k = handle THEN LoopAt("none") ELSE loop[k]]
          /\ handle' = l
    /\ entry' = [f \in Folders |-> Arm(entry[f])]
    /\ running' = TRUE
    /\ UNCHANGED <<studio, reserved, outbox, requested, stopping, stops>>

Stop ==
    /\ stopping = "idle"
    /\ stops < MaxStops
    /\ stops' = stops + 1
    /\ running' = FALSE
    /\ stopping' = "flagged"
    /\ NotifyWaiters
    /\ UNCHANGED <<studio, reserved, outbox, entry, requested, handle>>

StopTakesHandle ==
    /\ stopping = "flagged"
    /\ stopping' = handle
    /\ handle' = NoLoop
    /\ UNCHANGED <<studio, reserved, outbox, entry, requested, loop, running, stops>>

\* The loop has ended, or five seconds have passed.
StopReturns ==
    /\ stopping \in Loops \cup {NoLoop}
    /\ stopping' = "idle"
    /\ entry' = Blank
    /\ UNCHANGED <<studio, reserved, outbox, requested, loop, running, handle, stops>>

-----------------------------------------------------------------------------
\* run_loop
Go(l, at) == loop' = [loop EXCEPT ![l] = LoopAt(at)]

ShareMissing(l) ==
    /\ loop[l].at = "top"
    /\ running
    /\ Go(l, "arm")
    /\ UNCHANGED <<studio, reserved, outbox, entry, requested, control>>

BeginPass(l) ==
    /\ loop[l].at = "top"
    /\ running
    /\ loop' = [loop EXCEPT ![l] = LoopWith("pass", entry, {f \in Folders : entry[f] \in Open})]
    /\ UNCHANGED <<studio, reserved, outbox, entry, requested, control>>

LoopEnds(l) ==
    /\ loop[l].at = "top"
    /\ ~running
    /\ Go(l, "ending")
    /\ UNCHANGED <<studio, reserved, outbox, entry, requested, control>>

LoopClears(l) ==
    /\ loop[l].at = "ending"
    /\ entry' = Blank
    /\ Go(l, "none")
    /\ UNCHANGED <<studio, reserved, outbox, requested, control>>

\* The next folder, whose entry in the copy becomes e.
Looked(l, f, e) ==
    loop' = [loop EXCEPT ![l].visit = @ \ {f}, ![l].copy[f] = e]

Claiming(l) == {loop[l].gated, loop[l].claims} # {NoFolder}
Looking(l, f, at) == loop[l].at = at /\ f \in loop[l].visit /\ ~Claiming(l)

SkipProcessing(l, f) ==
    /\ Looking(l, f, "pass")
    /\ HasProcessing(f)
    /\ Looked(l, f, loop[l].copy[f])
    /\ UNCHANGED <<studio, reserved, outbox, entry, requested, control>>

\* Mutant of NotReady: the processing marker is not looked at.
NotReadyUnmarked(l, f) ==
    /\ Looking(l, f, "pass")
    /\ share[f] # "ready"
    /\ \/ /\ loop[l].copy[f] = "open" \/ f \notin Identified
          /\ Looked(l, f, loop[l].copy[f])
          /\ UNCHANGED outbox
       \/ /\ loop[l].copy[f] \in {"late", "lost"} /\ f \in Identified
          /\ Report(f, "rejected")
          /\ Looked(l, f, "rejected")
    /\ UNCHANGED <<studio, reserved, entry, requested, control>>

\* Mutant of NotReady: there is no claim timeout.
NotReadyWaits(l, f) ==
    /\ Looking(l, f, "pass")
    /\ share[f] # "ready" /\ ~HasProcessing(f)
    /\ Looked(l, f, loop[l].copy[f])
    /\ UNCHANGED <<studio, reserved, outbox, entry, requested, control>>

\* No folder, no marker or no media: rejected once the claim timeout has passed.
NotReady(l, f) ==
    /\ Looking(l, f, "pass")
    /\ share[f] # "ready" /\ ~HasProcessing(f)
    /\ \/ /\ loop[l].copy[f] = "open" \/ f \notin Identified
          /\ Looked(l, f, loop[l].copy[f])
          /\ UNCHANGED outbox
       \/ /\ loop[l].copy[f] \in {"late", "lost"} /\ f \in Identified
          /\ Report(f, "rejected")
          /\ Looked(l, f, "rejected")
    /\ UNCHANGED <<studio, reserved, entry, requested, control>>

\* try_claim_and_enqueue of a folder that is ready: the gate accepts it, or rejects it.
Accept(l, f) ==
    /\ Looking(l, f, "pass") \/ Looking(l, f, "scan")
    /\ share[f] = "ready"
    /\ Report(f, "accepted")
    /\ loop' = [loop EXCEPT ![l].gated = f]
    /\ UNCHANGED <<studio, reserved, entry, requested, control>>

\* The outcome of a claim is noted in the copy by the pass, and dropped by the scan.
Outcome(l, e) == IF loop[l].at = "pass" THEN e ELSE "none"

Reject(l, f) ==
    /\ Looking(l, f, "pass") \/ Looking(l, f, "scan")
    /\ share[f] = "ready"
    /\ Report(f, "rejected")
    /\ Looked(l, f, Outcome(l, "rejected"))
    /\ UNCHANGED <<studio, reserved, entry, requested, control>>

\* The claim returns.
Return(l, f, e) ==
    loop' = [loop EXCEPT ![l] = LoopWith(@.at, [@.copy EXCEPT ![f] = e], @.visit \ {f})]

\* register(); another loop may hold the folder, or have taken it away.
Free(f) == share[f] = "ready" /\ f \notin reserved

Register(l) ==
    /\ loop[l].gated # NoFolder
    /\ LET f == loop[l].gated IN
          \/ /\ Free(f)
             /\ reserved' = reserved \cup {f}
             /\ loop' = [loop EXCEPT ![l].claims = f, ![l].gated = NoFolder]
          \/ /\ ~Free(f)
             /\ Return(l, f, loop[l].copy[f])
             /\ UNCHANGED reserved
    /\ UNCHANGED <<studio, outbox, entry, requested, control>>

Queued(l) ==
    /\ loop[l].claims # NoFolder
    /\ SetShare(loop[l].claims, "claimed")
    /\ Report(loop[l].claims, "queued")
    /\ Return(l, loop[l].claims, loop[l].copy[loop[l].claims])
    /\ UNCHANGED <<signals, reserved, entry, requested, control>>

\* The customer lookup fails: the folder is archived as failed.
LookupFailed(l) ==
    /\ loop[l].claims # NoFolder
    /\ SetShare(loop[l].claims, "archived")
    /\ Report(loop[l].claims, "failed")
    /\ reserved' = reserved \ {loop[l].claims}
    /\ Return(l, loop[l].claims, Outcome(l, "rejected"))
    /\ UNCHANGED <<signals, entry, requested, control>>

\* No profile, an unreadable marker, or an order with the same ids that is not finished.
Refused(l) ==
    /\ loop[l].claims # NoFolder
    /\ Report(loop[l].claims, "rejected") \/ UNCHANGED outbox
    /\ reserved' = reserved \ {loop[l].claims}
    /\ Return(l, loop[l].claims, Outcome(l, "rejected"))
    /\ UNCHANGED <<studio, entry, requested, control>>

\* Mutant of EndPass: the copy replaces the store.
WriteAllBack(l) ==
    /\ loop[l].at = "pass"
    /\ loop[l].visit = {}
    /\ entry' = loop[l].copy
    /\ loop' = [loop EXCEPT ![l] = LoopWith("scan", Blank, {f \in Folders : Present(f)})]
    /\ UNCHANGED <<studio, reserved, outbox, requested, control>>

\* The copy overwrites every entry that is still there.  One that is open in both keeps
\* the older clock: it is the store's unless the folder was announced again meanwhile.
Older(e, d) ==
    IF "lost" \in {e, d} THEN "lost" ELSE IF "late" \in {e, d} THEN "late" ELSE "open"

WriteBack(store, copy) ==
    IF store = "none" \/ copy = "none" THEN store
    ELSE IF copy \in Open /\ store \in Open THEN Older(store, copy)
    ELSE IF copy = "rejected" /\ store = "expired" THEN store
    ELSE copy

EndPass(l) ==
    /\ loop[l].at = "pass"
    /\ loop[l].visit = {}
    /\ entry' = [f \in Folders |-> WriteBack(entry[f], loop[l].copy[f])]
    /\ loop' = [loop EXCEPT ![l] = LoopWith("scan", Blank, {f \in Folders : Present(f)})]
    /\ UNCHANGED <<studio, reserved, outbox, requested, control>>

\* scan_once: not marked, in work, or not stable yet.
ScanSkips(l, f) ==
    /\ Looking(l, f, "scan")
    /\ Looked(l, f, "none")
    /\ UNCHANGED <<studio, reserved, outbox, entry, requested, control>>

Pruned(f) ==
    IF HasProcessing(f) \/ f \in reserved \/ entry[f] = "expired" THEN "none"
    ELSE IF ~Present(f) /\ entry[f] = "lost" THEN "none" ELSE entry[f]

\* The scan ends and prune_handoff_entries follows.
EndScan(l) ==
    /\ loop[l].at = "scan"
    /\ loop[l].visit = {}
    /\ entry' = [f \in Folders |-> Pruned(f)]
    /\ Go(l, "decide")
    /\ UNCHANGED <<studio, reserved, outbox, requested, control>>

\* running.load() and, if TRUE, scan_requested.swap(false).
Decide(l) ==
    /\ loop[l].at = "decide"
    /\ Go(l, IF running /\ ~requested THEN "arm" ELSE "top")
    /\ requested' = (requested /\ ~running)
    /\ UNCHANGED <<studio, reserved, outbox, entry, control>>

\* wake.notified(): what was notified before is not seen.
Sleep(l) ==
    /\ loop[l].at = "arm"
    /\ Go(l, "asleep")
    /\ UNCHANGED <<studio, reserved, outbox, entry, requested, control>>

\* The scan interval is over, or wait_until_stopped saw the flag.
SleepEnds(l) ==
    /\ loop[l].at = "asleep"
    /\ Go(l, "top")
    /\ UNCHANGED <<studio, reserved, outbox, entry, requested, control>>

-----------------------------------------------------------------------------
Visit(l) ==
    \E f \in Folders :
        \/ SkipProcessing(l, f) \/ NotReady(l, f) \/ ScanSkips(l, f)
        \/ Accept(l, f) \/ Reject(l, f)

Claim(l) == Register(l) \/ Queued(l) \/ LookupFailed(l) \/ Refused(l)

LoopStep(l) ==
    \/ ShareMissing(l) \/ BeginPass(l) \/ LoopEnds(l) \/ LoopClears(l)
    \/ Visit(l) \/ Claim(l) \/ EndPass(l) \/ EndScan(l)
    \/ Decide(l) \/ Sleep(l) \/ SleepEnds(l)

Next ==
    \/ \E f \in Folders :
          \/ Copy(f) \/ Finish(f) \/ Ready(f) \/ Cancel(f) \/ Age(f)
          \/ WorkerEnds(f)
    \/ Start \/ Stop \/ StopTakesHandle \/ StopReturns
    \/ \E l \in Loops : LoopStep(l)

Spec == Init /\ [][Next]_vars

\* The loops run, the share is not missing for ever, clocks advance.
Fairness ==
    /\ \A l \in Loops : WF_vars(LoopStep(l)) /\ SF_vars(BeginPass(l))
    /\ \A f \in Folders : WF_vars(Age(f))

FairSpec == Spec /\ Fairness

-----------------------------------------------------------------------------
\* A pass that copied the entries before the studio cancelled a handoff, or before the
\* monitor was stopped, does not bring the entry back: only a new announcement does.
OnlyReadyAnnounces ==
    [][\A f \in Folders : entry[f] = "none" /\ entry'[f] # "none" => Ready(f)]_vars

\* "Upload won": a folder that a loop has queued is not told that its handoff was rejected,
\* whatever its clock says and although the pass works on a copy of the entries.  (A restart
\* takes it out of the queue; the recovery may then tell so.)
ClaimedNotRejected == \A f \in Folders : share[f] = "claimed" => outbox[f] # "rejected"

Running == {l \in Loops : loop[l].at # "none"}

\* Every handoff with a correlation id is answered while one loop runs: it is claimed,
\* rejected, cancelled or no longer announced.  (Two loops may write their copies over each
\* other's answers.)
HandoffEnds ==
    \A f \in Identified :
        entry[f] \in Open ~> entry[f] \notin Open \/ ~running \/ Cardinality(Running) > 1
===============================================================================
