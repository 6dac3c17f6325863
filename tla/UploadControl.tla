----------------------------- MODULE UploadControl -----------------------------
(***************************************************************************)
(* Pause, resume and cancel (src-tauri/src/upload/control.rs): three       *)
(* atomic flags shared by the UI's commands, the upload worker and the     *)
(* operator's "Nachreichen" (append_media_from_history).  An operation of  *)
(* several stores is not atomic: each actor works off a list of stores,    *)
(* one per step.  The parallel file transfers of a job are Tasks; between  *)
(* two chunks each calls wait_if_paused, whose loads and stores are one    *)
(* step each, the 150 ms poll being any delay.                             *)
(***************************************************************************)
EXTENDS Naturals, Sequences

CONSTANTS
    JobTasks,       \* parallel transfers of the worker's job
    AppendTasks,    \* transfers of the operator's append, {} to leave it out
    MaxRequests,    \* bound: UI commands in a behaviour
    MaxJobs         \* bound: jobs the monitor enqueues

ASSUME TasksAssumption == JobTasks \cap AppendTasks = {}
ASSUME BoundsAssumption == MaxRequests \in Nat /\ MaxJobs \in Nat

VARIABLES
    flags,      \* the atomics pause, holding and cancel
    todo,       \* per actor: the stores left of the operation it is in
    task,       \* per transfer: position and the local `announced`
    worker,     \* the upload worker
    append,     \* the operator's append
    rows,       \* rows of the queue snapshot, the active one included
    requests,   \* UI commands issued so far
    owed        \* history: waiting transfers when the cancel in force was stored

vars == <<flags, todo, task, worker, append, rows, requests, owed>>

Tasks == JobTasks \cup AppendTasks
Actors == {"ui", "worker", "append"}
Flags == {"pause", "holding", "cancel"}
On(f) == [flag |-> f, to |-> TRUE]
Off(f) == [flag |-> f, to |-> FALSE]

reset_for_new_job == <<Off("pause"), Off("holding"), Off("cancel")>>
request_pause == <<On("pause")>>
request_resume == <<Off("pause"), Off("holding")>>
request_cancel == <<On("cancel"), Off("pause"), Off("holding")>>

\* A transfer is "out" (there is none), at "work" on a chunk, "done" or "cancelled", or in
\* wait_if_paused: about to load pause ("loop"), to load cancel as pause was set ("paused"),
\* to store holding ("announce"), to clear it and fail as cancel was set ("withdraw"), to
\* clear it as pause was clear ("clear"), or to look at cancel once more ("check").
Out == [at |-> "out", announced |-> FALSE]

Init ==
    /\ flags = [f \in Flags |-> FALSE]
    /\ todo = [a \in Actors |-> <<>>]
    /\ task = [t \in Tasks |-> Out]
    /\ worker = "idle"
    /\ append = "idle"
    /\ rows = 0
    /\ requests = 0
    /\ owed = {}

-----------------------------------------------------------------------------
Waiting(t) == task[t].at \in {"loop", "paused", "announce", "withdraw", "clear", "check"}

SetFlag(f, to) == flags' = [flags EXCEPT ![f] = to]

\* One store of the operation the actor is in.
DoStore(a) ==
    /\ todo[a] # <<>>
    /\ LET s == Head(todo[a]) IN
          /\ SetFlag(s.flag, s.to)
          /\ owed' = IF s = On("cancel") THEN owed \cup {t \in Tasks : Waiting(t)}
                     ELSE IF s = Off("cancel") THEN {} ELSE owed
    /\ todo' = [todo EXCEPT ![a] = Tail(@)]
    /\ UNCHANGED <<task, worker, append, rows, requests>>

\* pause_upload, resume_upload and cancel_upload, one at a time on the UI thread.
Command(stores) ==
    /\ todo["ui"] = <<>>
    /\ requests < MaxRequests
    /\ requests' = requests + 1
    /\ todo' = [todo EXCEPT !["ui"] = stores]
    /\ UNCHANGED <<flags, task, worker, append, rows, owed>>

Enqueue ==
    /\ rows < MaxJobs
    /\ rows' = rows + 1
    /\ UNCHANGED <<flags, todo, task, worker, append, requests, owed>>

\* run_single_job and process_append_job clear the flags of the job before.
StartJob ==
    /\ worker = "idle"
    /\ rows > 0
    /\ worker' = "resetting"
    /\ todo' = [todo EXCEPT !["worker"] = reset_for_new_job]
    /\ UNCHANGED <<flags, task, append, rows, requests, owed>>

Launch(ts) == task' = [t \in Tasks |-> IF t \in ts THEN [at |-> "work", announced |-> FALSE]
                                                   ELSE task[t]]

Collect(ts) ==
    /\ \A t \in ts : task[t].at \in {"done", "cancelled"}
    /\ task' = [t \in Tasks |-> IF t \in ts THEN Out ELSE task[t]]
    /\ owed' = owed \ ts

JobTransfers ==
    /\ worker = "resetting"
    /\ todo["worker"] = <<>>
    /\ worker' = "uploading"
    /\ Launch(JobTasks)
    /\ UNCHANGED <<flags, todo, append, rows, requests, owed>>

\* The job ends, whatever its outcome, and its row is removed.
EndJob ==
    /\ worker = "uploading"
    /\ Collect(JobTasks)
    /\ worker' = "idle"
    /\ rows' = rows - 1
    /\ UNCHANGED <<flags, todo, append, requests>>

\* append_media_from_history: the queue is looked at before the customer lookup is awaited.
BeginAppend ==
    /\ AppendTasks # {}
    /\ append = "idle"
    /\ rows = 0
    /\ append' = "resolving"
    /\ UNCHANGED <<flags, todo, task, worker, rows, requests, owed>>

ResetForAppend ==
    /\ append = "resolving"
    /\ append' = "resetting"
    /\ todo' = [todo EXCEPT !["append"] = reset_for_new_job]
    /\ UNCHANGED <<flags, task, worker, rows, requests, owed>>

AppendTransfers ==
    /\ append = "resetting"
    /\ todo["append"] = <<>>
    /\ append' = "uploading"
    /\ Launch(AppendTasks)
    /\ UNCHANGED <<flags, todo, worker, rows, requests, owed>>

EndAppend ==
    /\ append = "uploading"
    /\ Collect(AppendTasks)
    /\ append' = "idle"
    /\ UNCHANGED <<flags, todo, worker, rows, requests>>

-----------------------------------------------------------------------------
Goto(t, at) == task' = [task EXCEPT ![t].at = at]

OnlyTask == UNCHANGED <<todo, worker, append, rows, requests, owed>>

\* A transfer goes on to its next chunk through wait_if_paused, or ends.
CallWait(t) ==
    /\ task[t].at = "work"
    /\ task' = [task EXCEPT ![t] = [at |-> "loop", announced |-> FALSE]]
    /\ UNCHANGED flags
    /\ OnlyTask

EndTransfer(t) ==
    /\ task[t].at = "work"
    /\ Goto(t, "done")
    /\ UNCHANGED flags
    /\ OnlyTask

LoadPause(t) ==
    /\ task[t].at = "loop"
    /\ \/ flags["pause"] /\ Goto(t, "paused")
       \/ ~flags["pause"] /\ Goto(t, IF task[t].announced THEN "clear" ELSE "check")
    /\ UNCHANGED flags
    /\ OnlyTask

\* Mutant of LoadCancel: cancel is not looked at while paused.
PausedIgnoresCancel(t) ==
    /\ task[t].at = "paused"
    /\ Goto(t, IF task[t].announced THEN "loop" ELSE "announce")
    /\ UNCHANGED flags
    /\ OnlyTask

LoadCancel(t) ==
    /\ task[t].at = "paused"
    /\ \/ flags["cancel"] /\ Goto(t, IF task[t].announced THEN "withdraw" ELSE "cancelled")
       \/ ~flags["cancel"] /\ Goto(t, IF task[t].announced THEN "loop" ELSE "announce")
    /\ UNCHANGED flags
    /\ OnlyTask

Announce(t) ==
    /\ task[t].at = "announce"
    /\ SetFlag("holding", TRUE)
    /\ task' = [task EXCEPT ![t] = [at |-> "loop", announced |-> TRUE]]
    /\ OnlyTask

\* Mutant of Withdraw: the transfer fails without clearing holding.
WithdrawSilently(t) ==
    /\ task[t].at = "withdraw"
    /\ Goto(t, "cancelled")
    /\ UNCHANGED flags
    /\ OnlyTask

Withdraw(t) ==
    /\ task[t].at = "withdraw"
    /\ SetFlag("holding", FALSE)
    /\ Goto(t, "cancelled")
    /\ OnlyTask

ClearHolding(t) ==
    /\ task[t].at = "clear"
    /\ SetFlag("holding", FALSE)
    /\ Goto(t, "check")
    /\ OnlyTask

\* Mutant of check_cancelled: no check after the wait.
WorkUnchecked(t) ==
    /\ task[t].at = "check"
    /\ Goto(t, "work")
    /\ UNCHANGED flags
    /\ OnlyTask

check_cancelled(t) ==
    /\ task[t].at = "check"
    /\ Goto(t, IF flags["cancel"] THEN "cancelled" ELSE "work")
    /\ UNCHANGED flags
    /\ OnlyTask

InWait(t) ==
    \/ LoadPause(t) \/ LoadCancel(t) \/ Announce(t)
    \/ Withdraw(t) \/ ClearHolding(t) \/ check_cancelled(t)

UI == \E stores \in {request_pause, request_resume, request_cancel} : Command(stores)

WorkerStep == StartJob \/ JobTransfers \/ EndJob

AppendStep == BeginAppend \/ ResetForAppend \/ AppendTransfers \/ EndAppend

Next ==
    \/ UI
    \/ \E a \in Actors : DoStore(a)
    \/ Enqueue
    \/ WorkerStep
    \/ AppendStep
    \/ \E t \in Tasks : CallWait(t) \/ EndTransfer(t) \/ InWait(t)

Spec == Init /\ [][Next]_vars

\* A command that was issued is carried out and a task that polls keeps polling; no
\* transfer is assumed to end.
Fairness ==
    /\ \A a \in Actors : WF_vars(DoStore(a))
    /\ \A t \in Tasks : WF_vars(InWait(t))

FairSpec == Spec /\ Fairness

-----------------------------------------------------------------------------
\* The UI shows "Pausiert" only while some transfer is on its way through the pause: the
\* one that announced it clears it before it leaves, cancelled or not, and no job starts
\* with the mark of the one before.
HoldingIsSomeones ==
    flags["holding"] => \E t \in Tasks :
        task[t].announced /\ task[t].at \in {"loop", "paused", "withdraw", "clear"}

\* control.rs: "Block while paused; cancel still wins".  A transfer that was waiting when
\* cancel was requested does not go on with its next chunk, unless the operator's append
\* has reset the flags since (append.rs:958), which takes the cancel back.
CancelWins == \A t \in owed : task[t].at # "work"

\* A transfer does not wait for ever once the operator has cancelled, even when pause is
\* requested again before the transfer polls: it stops waiting, or the append's reset
\* takes the cancel back.
CancelReleases ==
    \A t \in Tasks : (flags["cancel"] /\ Waiting(t)) ~> (~Waiting(t) \/ ~flags["cancel"])
=============================================================================
