----------------------------- MODULE BookingFlags -----------------------------
(* The booked and paid media of a history row and their refresh from the      *)
(* customer API.  The dialog of a row, a retry and an append all resolve them *)
(* under one lock for the row; the worker writes the flags its job was made   *)
(* with and asks for no lock (upload/booking_flags.rs, commands/operator.rs,  *)
(* upload/retry.rs, upload/append.rs).                                        *)
(*                                                                            *)
(* Flags are the number of the API's state they show; the stamp               *)
(* booking_flags_updated_at is the number of the answer it was set for.       *)
EXTENDS Naturals

CONSTANTS Rows, Lookup,   \* rows; what can be asked for: {}, {"id"},
                          \* {"hash"} or {"hash", "id"}
          Callers, Nobody,
          MaxVersion, MaxCalls, MaxFaults  \* bounds: states of the API, calls,
                                           \* failed lookups and deletions
VARIABLES rows,    \* [known, flags, stamp]
          api,     \* the booking as the API has it
          lock,    \* INFLIGHT: who holds the row's lock
          call,    \* the resolve of each caller
          job,     \* flags of the row's upload job
          calls, faults

vars == <<rows, api, lock, call, job, calls, faults>>

Idle == [pc |-> "idle"]
Policies == {"cache", "auto", "force"}

can_refresh_booking_flags(r) == Lookup[r] # {}

(* "auto" asks the API whenever it can.                                       *)
UsesNetwork(c) == call[c].policy # "cache" /\ can_refresh_booking_flags(call[c].r)

(* The command of the dialog reads the row once it has the lock; a retry and  *)
(* an append, always "auto", bring the row they were begun with.              *)
Begins(c, r, kind, policy) ==
    /\ call[c] = Idle /\ calls < MaxCalls /\ calls' = calls + 1
    /\ rows[r].known /\ (kind # "dialog" => policy = "auto")
    /\ call' = [call EXCEPT ![c] = [pc |-> "wait", r |-> r, kind |-> kind,
                                    policy |-> policy, flags |-> rows[r].flags]]
    /\ UNCHANGED <<rows, api, lock, job, faults>>

(* Mutant of the next: the row is resolved whoever else does.                 *)
LockedOrNot(c) ==
    /\ call[c].pc = "wait"
    /\ call' = [call EXCEPT ![c].pc = IF UsesNetwork(c) THEN "ask" ELSE "end"]
    /\ UNCHANGED <<rows, api, lock, job, calls, faults>>

with_inflight(c) ==
    /\ call[c].pc = "wait" /\ lock[call[c].r] = Nobody
    /\ lock' = [lock EXCEPT ![call[c].r] = c]
    /\ LET r == call[c].r
           entry == IF call[c].kind = "dialog" THEN rows[r].flags ELSE call[c].flags
           gone == call[c].kind = "dialog" /\ ~rows[r].known
       IN  call' = [call EXCEPT ![c] = [@ EXCEPT
               !.pc = IF UsesNetwork(c) /\ ~gone THEN "ask" ELSE "end", !.flags = entry]]
    /\ UNCHANGED <<rows, api, job, calls, faults>>

(* The lookup by hash, and by id if that fails and the numbers differ.        *)
fetch_api_kunde(c) ==
    /\ call[c].pc \in {"ask", "fallback"}
    /\ call' = [call EXCEPT ![c] = [@ EXCEPT !.pc = "emit", !.flags = api[call[c].r]]]
    /\ UNCHANGED <<rows, api, lock, job, calls, faults>>

(* What was cached is used then, unless the refresh was forced: an error.     *)
LookupFails(c) ==
    /\ call[c].pc \in {"ask", "fallback"} /\ faults < MaxFaults
    /\ faults' = faults + 1
    /\ call' = [call EXCEPT ![c].pc =
           IF @ = "ask" /\ Lookup[call[c].r] = {"hash", "id"} THEN "fallback" ELSE "end"]
    /\ UNCHANGED <<rows, api, lock, job, calls>>

(* The event writes the row at once, also one deleted meanwhile; the dialog   *)
(* writes the same again.                                                     *)
Written(c) ==
    rows' = [rows EXCEPT ![call[c].r] =
                 [known |-> TRUE, flags |-> call[c].flags, stamp |-> call[c].flags]]

persist_history_media_flags(c) ==
    /\ call[c].pc = "emit" /\ Written(c)
    /\ call' = [call EXCEPT ![c].pc = IF @ = "emit" /\ call[c].kind = "dialog"
                                      THEN "again" ELSE "end"]
    /\ UNCHANGED <<api, lock, job, calls, faults>>

DialogWrites(c) ==
    /\ call[c].pc = "again" /\ Written(c)
    /\ call' = [call EXCEPT ![c].pc = "end"]
    /\ UNCHANGED <<api, lock, job, calls, faults>>

(* A retry makes a job with the flags it was given.                           *)
Ends(c) ==
    /\ call[c].pc = "end" /\ call' = [call EXCEPT ![c] = Idle]
    /\ lock' = [lock EXCEPT ![call[c].r] = IF @ = c THEN Nobody ELSE @]
    /\ job' = IF call[c].kind = "retry" THEN [job EXCEPT ![call[c].r] = {call[c].flags}]
              ELSE job
    /\ UNCHANGED <<rows, api, calls, faults>>

(* The worker's row: the flags of the job, the stamp as it is.                *)
JobWrites(r) ==
    /\ \E flags \in job[r] :
         rows' = [rows EXCEPT ![r] = [known |-> TRUE, flags |-> flags, stamp |-> @.stamp]]
    /\ \E done \in BOOLEAN : job' = IF done THEN [job EXCEPT ![r] = {}] ELSE job
    /\ UNCHANGED <<api, lock, call, calls, faults>>

Delete(r) ==
    /\ rows[r].known /\ faults < MaxFaults /\ faults' = faults + 1
    /\ rows' = [rows EXCEPT ![r] = [known |-> FALSE, flags |-> 0, stamp |-> 0]]
    /\ UNCHANGED <<api, lock, call, job, calls>>

BookingChanges(r) ==
    /\ api[r] < MaxVersion /\ api' = [api EXCEPT ![r] = @ + 1]
    /\ UNCHANGED <<rows, lock, call, job, calls, faults>>

Init ==
    /\ rows = [r \in Rows |-> [known |-> TRUE, flags |-> 0, stamp |-> 0]]
    /\ api = [r \in Rows |-> 0] /\ lock = [r \in Rows |-> Nobody]
    /\ call = [c \in Callers |-> Idle] /\ job = [r \in Rows |-> {0}]
    /\ calls = 0 /\ faults = 0

Resolves(c) ==
    \/ with_inflight(c) \/ fetch_api_kunde(c) \/ LookupFails(c)
    \/ persist_history_media_flags(c) \/ DialogWrites(c) \/ Ends(c)

Next ==
    \/ \E c \in Callers : Resolves(c)
    \/ \E c \in Callers, r \in Rows, k \in {"dialog", "retry", "append"}, p \in Policies :
         Begins(c, r, k, p)
    \/ \E r \in Rows : JobWrites(r) \/ Delete(r) \/ BookingChanges(r)

Spec == Init /\ [][Next]_vars

(* The stamp of a row never goes back to an older answer of the API: a slow   *)
(* answer is not written over a newer one, whichever of dialog, retry and     *)
(* append asked for it ("so a waiting Force/Auto reloads after the previous   *)
(* persist" of with_booking_flags_lock).  Of every step.                      *)
FlagsForward ==
    \A r \in Rows : rows[r].known /\ rows'[r].known => rows'[r].stamp >= rows[r].stamp
=============================================================================
