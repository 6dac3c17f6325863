----------------------------- MODULE AppendRouting -----------------------------
(* Which order a folder's media belong to.  A folder of the monitored share   *)
(* is the first of its booking, or it is appended (Nachreichen) to an order   *)
(* the history knows: the parent its manifest names, or the successful row    *)
(* with the same customer and booking numbers (upload/append.rs,              *)
(* storage/history.rs, monitor/service.rs, upload/worker.rs).  Registration,  *)
(* outbox and archive are those of UploadPipeline and left out, and so are    *)
(* the events and counters a parent's row collects.  A folder that is named   *)
(* ..._nachreichung_NN is taken to have kind=append, as the staging gives it; *)
(* without it the code would look for no parent at all.                       *)
EXTENDS Naturals, Sequences, FiniteSets

CONSTANTS Folders, Booking,   \* folders; the customer and booking of each
          Explicit, Parent,   \* those with kind=append; the parent each of them
                              \* names, another of the folders
          None,
          MaxSignals, MaxFaults, MaxDeletes  \* bounds: announcements, crashes
                                             \* and failures, deleted rows

VARIABLES marker,   \* of the folder on the share: "fertig", "processing", "gone"
          status,   \* of the folder's history row, or "none"
          queue,    \* jobs: folder and the parent it goes to, or None
          work,     \* the worker's job: [d, p, pc]
          op,       \* parent the operator's append uploads to
          signals, faults, deletes

vars == <<marker, status, queue, work, op, signals, faults, deletes>>

Idle == [d |-> None, p |-> None, pc |-> "idle"]
Registered(d) == work.d = d \/ \E i \in DOMAIN queue : queue[i].d = d

-----------------------------------------------------------------------------
(* Where a folder goes: a set with its parent, {None} for a first upload, or  *)
(* {} when it is refused for now.                                             *)

can_append_media(p) == status[p] = "Erfolgreich"

find_by_customer_booking(d, which) ==
    {p \in Folders \ {d} : status[p] \in which /\ Booking[p] = Booking[d]}

(* resolve_claimed_append_target.                                             *)
ManifestTarget(d) == {p \in {Parent[d]} : can_append_media(p)}

(* resolve_id_match_append_for_claim; the newest of several is left open.     *)
IdTarget(d) ==
    LET ready == find_by_customer_booking(d, {"Erfolgreich"})
        known == find_by_customer_booking(d, {"Gestartet", "Fehler", "Abgebrochen"})
    IN  IF ready # {} THEN ready ELSE IF known # {} THEN {} ELSE {None}

(* Mutant of the next: the folder's own row counts as a parent not ready.     *)
RouteSeesItself(d) ==
    IF d \in Explicit THEN ManifestTarget(d)
    ELSE IF status[d] \in {"Gestartet", "Fehler", "Abgebrochen"} THEN {}
    ELSE IdTarget(d)

Route(d) == IF d \in Explicit THEN ManifestTarget(d) ELSE IdTarget(d)

(* build_append_parent_history_update: a row deleted meanwhile comes back.    *)
ParentUpdated(p, state) ==
    status' = [status EXCEPT ![p] =
        IF state = "completed" THEN "Erfolgreich"
        ELSE IF @ = "none" THEN "Gestartet" ELSE @]

(* emit_marker_history: a new row starts as "Gestartet", an old one keeps its *)
(* status.                                                                    *)
MarkerHistory(d) ==
    status' = [status EXCEPT ![d] = IF @ = "none" THEN "Gestartet" ELSE @]

Enqueue(d, p) ==
    /\ IF p = None THEN MarkerHistory(d) ELSE ParentUpdated(p, "queued")
    /\ queue' = Append(queue, [d |-> d, p |-> p])

-----------------------------------------------------------------------------
(* The monitor.  A refused folder stays for a later scan, and so does one     *)
(* whose order could not be looked up: no step here.                          *)

Signal(d) ==
    /\ marker[d] = "gone" /\ signals < MaxSignals /\ signals' = signals + 1
    /\ marker' = [marker EXCEPT ![d] = "fertig"]
    /\ UNCHANGED <<status, queue, work, op, faults, deletes>>

Claim(d) ==
    /\ marker[d] = "fertig" /\ ~Registered(d)
    /\ \E p \in Route(d) : Enqueue(d, p)
    /\ marker' = [marker EXCEPT ![d] = "processing"]
    /\ UNCHANGED <<work, op, signals, faults, deletes>>

Recover(d) ==
    /\ marker[d] = "processing" /\ ~Registered(d)
    /\ \E p \in Route(d) : Enqueue(d, p)
    /\ UNCHANGED <<marker, work, op, signals, faults, deletes>>

(* Recovery archives a folder whose named parent is not ready, or when the    *)
(* history could not be read.                                                 *)
RecoverRejects(d) ==
    /\ d \in Explicit /\ marker[d] = "processing" /\ ~Registered(d)
    /\ \/ ManifestTarget(d) = {} /\ UNCHANGED faults
       \/ faults < MaxFaults /\ faults' = faults + 1
    /\ marker' = [marker EXCEPT ![d] = "gone"]
    /\ UNCHANGED <<status, queue, work, op, signals, deletes>>

-----------------------------------------------------------------------------
(* The worker.                                                                *)

Take ==
    /\ work = Idle /\ queue # <<>>
    /\ work' = [d |-> Head(queue).d, p |-> Head(queue).p, pc |-> "upload"]
    /\ queue' = Tail(queue)
    /\ LET job == Head(queue)
       IN  IF job.p = None THEN status' = [status EXCEPT ![job.d] = "Gestartet"]
           ELSE ParentUpdated(job.p, "uploading")
    /\ UNCHANGED <<marker, op, signals, faults, deletes>>

(* The upload is through: the markers go before the history is written.       *)
Uploaded ==
    /\ work.pc = "upload"
    /\ marker' = [marker EXCEPT ![work.d] = "gone"]
    /\ work' = [work EXCEPT !.pc = "record"]
    /\ UNCHANGED <<status, queue, op, signals, faults, deletes>>

Recorded ==
    /\ work.pc = "record" /\ work' = Idle
    /\ IF work.p = None THEN status' = [status EXCEPT ![work.d] = "Erfolgreich"]
       ELSE ParentUpdated(work.p, "completed")
    /\ UNCHANGED <<marker, queue, op, signals, faults, deletes>>

(* Cancelled or failed: recorded and archived; an append leaves its parent's  *)
(* status alone.                                                              *)
UploadFails ==
    /\ work.pc = "upload" /\ work' = Idle
    /\ faults < MaxFaults /\ faults' = faults + 1
    /\ marker' = [marker EXCEPT ![work.d] = "gone"]
    /\ \E s \in {"Fehler", "Abgebrochen"} :
         IF work.p = None THEN status' = [status EXCEPT ![work.d] = s]
         ELSE ParentUpdated(work.p, "failed")
    /\ UNCHANGED <<queue, op, signals, deletes>>

-----------------------------------------------------------------------------
(* The operator appends to a row, looking at the queue first, or deletes one. *)

AppendBegins(p) ==
    /\ op = None /\ can_append_media(p) /\ queue = <<>> /\ work = Idle
    /\ op' = p
    /\ UNCHANGED <<marker, status, queue, work, signals, faults, deletes>>

AppendEnds ==
    /\ op # None /\ op' = None
    /\ \/ status' = [status EXCEPT ![op] = "Erfolgreich"]
       \/ UNCHANGED status
    /\ UNCHANGED <<marker, queue, work, signals, faults, deletes>>

DeleteRow(d) ==
    /\ status[d] # "none" /\ deletes < MaxDeletes /\ deletes' = deletes + 1
    /\ status' = [status EXCEPT ![d] = "none"]
    /\ UNCHANGED <<marker, queue, work, op, signals, faults>>

Crash ==
    /\ faults < MaxFaults /\ faults' = faults + 1
    /\ queue' = <<>> /\ work' = Idle /\ op' = None
    /\ UNCHANGED <<marker, status, signals, deletes>>

Init ==
    /\ marker = [d \in Folders |-> "gone"] /\ status = [d \in Folders |-> "none"]
    /\ queue = <<>> /\ work = Idle /\ op = None
    /\ signals = 0 /\ faults = 0 /\ deletes = 0

Monitors(d) == Claim(d) \/ Recover(d) \/ RecoverRejects(d)
Works == Take \/ Uploaded \/ Recorded

Next ==
    \/ \E d \in Folders : Signal(d) \/ Monitors(d) \/ AppendBegins(d) \/ DeleteRow(d)
    \/ Works \/ UploadFails \/ AppendEnds \/ Crash

Spec == Init /\ [][Next]_vars

-----------------------------------------------------------------------------
(* Properties.                                                                *)

(* As long as no row is deleted, the folders of a booking make one order: of  *)
(* those without an explicit parent at most one is ever the first upload that *)
(* succeeded, whatever is announced again, fails, stops or is recovered       *)
(* (try_resolve_id_match_append_for_claim in the claim and in the recovery).  *)
OneOrderPerBooking ==
    deletes = 0 => \A d, e \in Folders :
        /\ d # e /\ Booking[d] = Booking[e]
        => ~(status[d] = "Erfolgreich" /\ status[e] = "Erfolgreich")

(* The order a folder waits for has come to its end without success: one with *)
(* the same numbers, or the parent named, which may wait in its turn.         *)
Ended(p) == status[p] # "Erfolgreich" /\ marker[p] = "gone" /\ work.d # p
Waits(d) == \E p \in Folders \ {d} :
    Booking[p] = Booking[d] /\ status[p] # "none" /\ Ended(p)
StuckBehind(d) ==
    IF d \notin Explicit THEN Waits(d)
    ELSE \/ Ended(Parent[d])
         \/ marker[Parent[d]] # "gone" /\ Waits(Parent[d])

(* A folder on the share is uploaded or archived in the end, unless an order  *)
(* it must wait for came to its own end without success: neither a restart    *)
(* nor its own unfinished row keeps it there (the exclude_dir_name of         *)
(* find_latest_by_customer_booking).  Once a row was deleted two folders of a *)
(* booking may wait for each other.                                           *)
BlockedOnlyByFailure ==
    \A d \in Folders :
        marker[d] # "gone" ~> (marker[d] = "gone" \/ StuckBehind(d) \/ deletes > 0)

(* Where a folder's media go: both of the above, of one run.                  *)
RoutingIsSound == []OneOrderPerBooking /\ BlockedOnlyByFailure
=============================================================================
