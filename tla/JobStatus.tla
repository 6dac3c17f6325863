------------------------------- MODULE JobStatus -------------------------------
(* What the bridge tells an ATS installation of its job: the status outbox on  *)
(* the share, the row of the history, and the two of them while the upload     *)
(* writes them (bridge/server.rs, model/handoff.rs, upload/worker.rs).  The    *)
(* trace a request leaves is in AtsBridge.                                     *)
EXTENDS Naturals

CONSTANTS Jobs,
          MaxRuns, MaxPolls, MaxFaults  \* bounds; a fault: a cancel or a restart

VARIABLES row,        \* the job's history row: [status, cid], cid once it is set
          outbox,     \* the state in its status outbox, "none" without the file
          replacing,  \* states that wait for the rename onto the outbox
          stage,      \* where the upload job is
          runs, completed,  \* runs of the job; whether one ever succeeded
          poll,       \* a request for the job's status: [on, row]
          told,       \* the last answer on the job
          polls, faults

vars == <<row, outbox, replacing, stage, runs, completed, poll, told, polls, faults>>

NoPoll == [on |-> FALSE]
NoRow == [status |-> "none", cid |-> FALSE]
Ends == {"Erfolgreich", "Fehler", "Abgebrochen"}

(* The outbox is removed, if it is there, and the new one renamed to its place. *)
write_status_outbox(c, state) ==
    /\ outbox' = [outbox EXCEPT ![c] = "none"]
    /\ replacing' = [replacing EXCEPT ![c] = @ \cup {state}]

Renamed(c) ==
    /\ \E state \in replacing[c] :
         /\ outbox' = [outbox EXCEPT ![c] = state]
         /\ replacing' = [replacing EXCEPT ![c] = @ \ {state}]
    /\ UNCHANGED <<row, stage, runs, completed, poll, told, polls, faults>>

(* The pending announcement is dropped, whatever the job's state.              *)
handoff_cancel(c) ==
    /\ faults < MaxFaults /\ faults' = faults + 1
    /\ write_status_outbox(c, "cancelled")
    /\ UNCHANGED <<row, stage, runs, completed, poll, told, polls>>

(* The row is looked up first, by the job's correlation id.                    *)
PollBegins(c) ==
    /\ ~poll[c].on /\ polls < MaxPolls /\ polls' = polls + 1
    /\ poll' = [poll EXCEPT ![c] = [on |-> TRUE, row |-> row[c]]]
    /\ UNCHANGED <<row, outbox, replacing, stage, runs, completed, told, faults>>

(* A row without the id is not found and overrides nothing.                    *)
merge_history_cancel_override(state, r) ==
    IF r.cid /\ r.status = "Abgebrochen" THEN "cancelled" ELSE state

(* Without an outbox the row answers: completed, whatever it says but that it  *)
(* was cancelled.                                                              *)
status_outbox_from_history(r) ==
    IF r.cid THEN merge_history_cancel_override("completed", r) ELSE "unknown"

(* An outbox that says completed is corrected.                                 *)
job_status(c) ==
    LET answer == IF outbox[c] = "none" THEN status_outbox_from_history(poll[c].row)
                  ELSE merge_history_cancel_override(outbox[c], poll[c].row)
    IN  /\ poll[c].on /\ poll' = [poll EXCEPT ![c] = NoPoll]
        /\ told' = [told EXCEPT ![c] = answer]
        /\ IF outbox[c] = "completed" /\ answer = "cancelled"
           THEN write_status_outbox(c, "cancelled") ELSE UNCHANGED <<outbox, replacing>>
        /\ UNCHANGED <<row, stage, runs, completed, polls, faults>>

------------------------------------------------------------------------------
(* The upload job, as far as the answers depend on it.                         *)

JobAt(c, from, to) ==
    /\ stage[c] = from /\ stage' = [stage EXCEPT ![c] = to]
    /\ UNCHANGED <<poll, told, polls, faults>>

(* A folder may be signalled again with the same manifest.                     *)
Taken(c) ==
    /\ runs[c] < MaxRuns /\ runs' = [runs EXCEPT ![c] = @ + 1]
    /\ JobAt(c, "idle", "taken") /\ write_status_outbox(c, "uploading")
    /\ UNCHANGED <<row, completed>>

(* Mutant of the next: the row knows its correlation id from the start.        *)
StartedWithId(c) ==
    /\ JobAt(c, "taken", "started")
    /\ row' = [row EXCEPT ![c] = [status |-> "Gestartet", cid |-> TRUE]]
    /\ UNCHANGED <<outbox, replacing, runs, completed>>

Started(c) ==
    /\ JobAt(c, "taken", "started") /\ row' = [row EXCEPT ![c].status = "Gestartet"]
    /\ UNCHANGED <<outbox, replacing, runs, completed>>

(* Only the row of a success gets the correlation id, by which a poll finds it. *)
success_history(c) ==
    /\ row' = [row EXCEPT ![c] = [status |-> "Erfolgreich", cid |-> TRUE]]
    /\ completed' = completed \cup {c}

Ended(c, status) ==
    /\ JobAt(c, "started", status)
    /\ IF status = "Erfolgreich" THEN success_history(c)
       ELSE row' = [row EXCEPT ![c].status = status] /\ UNCHANGED completed
    /\ UNCHANGED <<outbox, replacing, runs>>

FinalState(status) ==
    CASE status = "Erfolgreich" -> "completed" [] status = "Fehler" -> "failed"
      [] status = "Abgebrochen" -> "cancelled"

Reported(c) ==
    /\ \E status \in Ends : JobAt(c, status, "idle")
                           /\ write_status_outbox(c, FinalState(status))
    /\ UNCHANGED <<row, runs, completed>>

(* The operator deletes the row.                                               *)
DeleteRow(c) ==
    /\ row[c] # NoRow /\ row' = [row EXCEPT ![c] = NoRow]
    /\ UNCHANGED <<outbox, replacing, stage, runs, completed, poll, told, polls, faults>>

Restart ==
    /\ faults < MaxFaults /\ faults' = faults + 1
    /\ poll' = [c \in Jobs |-> NoPoll] /\ replacing' = [c \in Jobs |-> {}]
    /\ stage' = [c \in Jobs |-> "idle"]
    /\ UNCHANGED <<row, outbox, runs, completed, told, polls>>

Init ==
    /\ row = [c \in Jobs |-> NoRow] /\ outbox = [c \in Jobs |-> "none"]
    /\ replacing = [c \in Jobs |-> {}] /\ stage = [c \in Jobs |-> "idle"]
    /\ runs = [c \in Jobs |-> 0] /\ completed = {} /\ polls = 0 /\ faults = 0
    /\ poll = [c \in Jobs |-> NoPoll] /\ told = [c \in Jobs |-> "none"]

Next ==
    \/ \E c \in Jobs :
         \/ handoff_cancel(c) \/ PollBegins(c) \/ job_status(c) \/ Renamed(c)
         \/ Taken(c) \/ Started(c) \/ Reported(c) \/ DeleteRow(c)
         \/ \E status \in Ends : Ended(c, status)
    \/ Restart

Spec == Init /\ [][Next]_vars

(* ATS is not told that a job is completed before it was: not even while its   *)
(* outbox is being replaced and the row answers, which says completed of a     *)
(* running job too (status_outbox_from_history): only success_history lets a   *)
(* poll find the row.                                                          *)
CompletedIsTrue == \A c \in Jobs : told[c] = "completed" => c \in completed
=============================================================================
