------------------------------ MODULE FolderAssign ------------------------------
(* Customers taken down at the desk and the media folders they are given to:  *)
(* a folder without a marker is rearranged, renamed, described by a manifest  *)
(* and marked "_fertig.txt" for one customer, while the monitor, which knows  *)
(* nothing of the desk's lock, claims what is marked (storage/customers.rs,   *)
(* model/id_assign.rs, storage/folder_match.rs, commands/customers.rs,        *)
(* model/customer_intake.rs, model/handoff.rs).                               *)
(*                                                                            *)
(* A folder keeps whose marker it carries and for whom layout, name and       *)
(* manifest were made.  Names are compared by who is meant; spelling, the     *)
(* media kinds and the names built (CrewNames) are left out.                  *)
EXTENDS Naturals, FiniteSets

CONSTANTS People, LastName,   \* customers and their last names
          Folders, Guest,     \* folders; the customer, or only last name, in
                              \* the first name of a folder
          Today,              \* folders whose name has the date of today
          Nobody,
          Before(_, _),       \* order of the lists of customers and of folders
          MaxActs, MaxFaults  \* bounds: commands; changed files and crashes

VARIABLES cust,    \* the customers table: [known, ids, processed]
          fold,    \* the folders of the share
          op,      \* the assignment that holds the lock of CustomerState
          history, \* assignment_history as a set
          acts, faults

vars == <<cust, fold, op, history, acts, faults>>

NoMark == [p |-> Nobody, ids |-> FALSE]
Idle == [pc |-> "idle", p |-> Nobody, f |-> Nobody]
Begins == op = Idle /\ acts < MaxActs /\ acts' = acts + 1
Faulty == faults < MaxFaults /\ faults' = faults + 1
Present(f) == ~fold[f].gone

is_folder_busy(f) == fold[f].busy
Occupied(f) == fold[f].fertig # NoMark \/ fold[f].processing # NoMark

(* FolderState: busy before occupied before ready.                            *)
inspect_media_folder(f) ==
    IF is_folder_busy(f) THEN "busy" ELSE IF Occupied(f) THEN "occupied" ELSE "ready"

list_media_folders == {f \in Folders : Present(f)}

-----------------------------------------------------------------------------
(* Which folder suits whom.                                                   *)

guest_segment(f) == IF fold[f].name # Nobody THEN fold[f].name ELSE Guest[f]

nachname_hits(p, g) == LastName[p] = (IF g \in People THEN LastName[g] ELSE g)
vorname_hits(p, g) == g = p

score_folder_name(p, f, assignable) ==
    LET g == guest_segment(f)
    IN  IF ~nachname_hits(p, g) THEN 0
        ELSE 100 + (IF vorname_hits(p, g) THEN 80 ELSE 0)
                 + (IF f \in Today THEN 20 ELSE 0) + (IF assignable THEN 10 ELSE 0)

is_recommended(score, assignable, best, lastNameHits) ==
    /\ assignable /\ score >= 100 /\ score + 40 >= best
    /\ score >= 180 \/ lastNameHits = 1

(* The folders among the ready ones that are recommended to a customer.       *)
Recommended(p, ready) ==
    LET score(f) == score_folder_name(p, f, TRUE)
        hits == {f \in ready : score(f) >= 100}
    IN  {f \in ready : \A g \in ready :
            is_recommended(score(f), TRUE, score(g), Cardinality(hits))}

(* The best candidate: by score, then customer, then folder.                  *)
Better(c, d) ==
    \/ c.score > d.score
    \/ c.score = d.score /\ Before(c.p, d.p)
    \/ c.score = d.score /\ c.p = d.p /\ Before(c.f, d.f)

(* Mutant of the next: a folder that is taken is proposed again.              *)
Conflicts(c, d) == c.p = d.p

Clash(c, d) == c.p = d.p \/ c.f = d.f

propose_unique_assignments(candidates) ==
    LET taken[C \in SUBSET candidates] ==
            IF C = {} THEN {}
            ELSE LET best == CHOOSE c \in C : \A d \in C \ {c} : Better(c, d)
                 IN  {best} \cup taken[{c \in C : ~Clash(c, best)}]
    IN  taken[candidates]

Ready == {f \in list_media_folders : inspect_media_folder(f) = "ready"}
Open == {p \in People : cust[p].known /\ ~cust[p].processed}

Candidates ==
    {[p |-> x[1], f |-> x[2], score |-> score_folder_name(x[1], x[2], TRUE)] :
        x \in {y \in Open \X Ready : y[2] \in Recommended(y[1], Ready)}}

propose_batch_assignments == propose_unique_assignments(Candidates)

-----------------------------------------------------------------------------
(* The customers table.  With both ids the customer is looked up first.       *)

(* The answers for Handcam and Outside: "flags", "contact", "missing" or      *)
(* "error".  Two with flags are offered as a choice and are never merged.     *)
lookup_customer_intake(h, o) ==
    CASE "flags" \in {h, o} -> {k \in {"Handcam", "Outside"} :
                                  (IF k = "Handcam" THEN h ELSE o) = "flags"}
      [] "flags" \notin {h, o} /\ o = "contact" -> {"Outside"}
      [] "flags" \notin {h, o} /\ o # "contact" /\ h = "contact" -> {"Handcam"}
      [] OTHER -> {}

Answers == {"flags", "contact", "missing", "error"}

Save(p, ids) ==
    /\ Begins /\ ~cust[p].known
    /\ ids => \E h, o \in Answers : lookup_customer_intake(h, o) # {}
    /\ cust' = [cust EXCEPT ![p] = [known |-> TRUE, ids |-> ids, processed |-> FALSE]]
    /\ UNCHANGED <<fold, op, history, faults>>

Update(p, ids) ==
    /\ Begins /\ cust[p].known /\ cust' = [cust EXCEPT ![p].ids = ids]
    /\ UNCHANGED <<fold, op, history, faults>>

Delete(p) ==
    /\ Begins /\ cust[p].known
    /\ cust' = [cust EXCEPT ![p] = [known |-> FALSE, ids |-> FALSE, processed |-> FALSE]]
    /\ UNCHANGED <<fold, op, history, faults>>

set_processed(p, processed) ==
    /\ Begins /\ cust[p].known /\ cust' = [cust EXCEPT ![p].processed = processed]
    /\ UNCHANGED <<fold, op, history, faults>>

-----------------------------------------------------------------------------
(* An assignment, one item of a batch or a single one, by whatever list the   *)
(* operator still sees.                                                       *)

Step(pc) == op' = [op EXCEPT !.pc = pc]

(* folder_block_reason looks for the one marker and then for the other.       *)
AssignBegins(p, f) ==
    /\ Begins /\ Present(f) /\ fold[f].processing = NoMark
    /\ op' = [pc |-> "second", p |-> p, f |-> f]
    /\ UNCHANGED <<cust, fold, history, faults>>

(* A folder still being copied to is refused to a customer with ids only.     *)
folder_block_reason ==
    /\ op.pc = "second"
    /\ IF \/ fold[op.f].fertig # NoMark \/ ~cust[op.p].known
          \/ cust[op.p].ids /\ is_folder_busy(op.f)
       THEN op' = Idle
       ELSE Step(IF cust[op.p].ids THEN "layout" ELSE "mark")
    /\ UNCHANGED <<cust, fold, history, acts, faults>>

(* Mutant of the next: the marker is written before the manifest.             *)
AfterMarkerFirst(pc) ==
    CASE pc = "layout" -> "name" [] pc = "name" -> "mark" [] pc = "mark" -> "manifest"
      [] pc = "manifest" -> "gate" [] OTHER -> "save"

(* The order of run_id_assign_pipeline.                                       *)
After(pc) ==
    CASE pc = "layout" -> "name" [] pc = "name" -> "manifest" [] pc = "manifest" -> "mark"
      [] pc = "mark" -> IF cust[op.p].ids THEN "gate" ELSE "save" [] OTHER -> "save"

(* A step that finds the folder gone or a file that cannot be moved ends it.  *)
Works(pc) == op.pc = pc /\ Present(op.f) /\ Step(After(pc))

StepFails ==
    /\ op.pc \in {"layout", "name", "manifest", "mark"}
    /\ IF Present(op.f) THEN Faulty ELSE UNCHANGED faults
    /\ op' = Idle
    /\ UNCHANGED <<cust, fold, history, acts>>

rearrange_media_layout ==
    /\ Works("layout") /\ fold' = [fold EXCEPT ![op.f].layout = op.p]
    /\ UNCHANGED <<cust, history, acts, faults>>

rename_job_folder ==
    /\ Works("name") /\ fold' = [fold EXCEPT ![op.f].name = op.p]
    /\ UNCHANGED <<cust, history, acts, faults>>

write_ams_assign_manifest ==
    /\ Works("manifest")
    /\ fold' = [fold EXCEPT ![op.f].manifest = op.p, ![op.f].fits = TRUE]
    /\ UNCHANGED <<cust, history, acts, faults>>

write_fertig_marker ==
    /\ Works("mark")
    /\ fold' = [fold EXCEPT ![op.f].fertig = [p |-> op.p, ids |-> cust[op.p].ids]]
    /\ UNCHANGED <<cust, history, acts, faults>>

(* No manifest is let through as an older producer's.                         *)
GateOpen(f) == fold[f].manifest = Nobody \/ fold[f].fits

(* Not ready: the marker is taken away, if the monitor has left it there.     *)
evaluate_manifest_gate ==
    /\ op.pc = "gate"
    /\ IF GateOpen(op.f) /\ Present(op.f)
       THEN Step("save") /\ UNCHANGED fold
       ELSE op' = Idle /\ fold' = [fold EXCEPT ![op.f].fertig = NoMark]
    /\ UNCHANGED <<cust, history, acts, faults>>

mark_assigned ==
    /\ op.pc = "save" /\ op' = Idle
    /\ cust' = [cust EXCEPT ![op.p].processed = TRUE]
    /\ history' = history \cup {<<op.p, op.f>>}
    /\ UNCHANGED <<fold, acts, faults>>

-----------------------------------------------------------------------------
(* The monitor and worker, the producer's copying, and a stop.                *)

Claim(f) ==
    /\ Present(f) /\ fold[f].fertig # NoMark /\ GateOpen(f)
    /\ fold' = [fold EXCEPT ![f].processing = fold[f].fertig, ![f].fertig = NoMark]
    /\ UNCHANGED <<cust, op, history, acts, faults>>

Archived(f) ==
    /\ Present(f) /\ fold[f].processing # NoMark
    /\ fold' = [fold EXCEPT ![f].gone = TRUE]
    /\ UNCHANGED <<cust, op, history, acts, faults>>

(* A file of the folder grows; ten quiet seconds later it is not busy.        *)
Grows(f) ==
    /\ Present(f) /\ Faulty
    /\ fold' = [fold EXCEPT ![f].busy = TRUE, ![f].fits = FALSE]
    /\ UNCHANGED <<cust, op, history, acts>>

Quiet(f) ==
    /\ fold[f].busy /\ fold' = [fold EXCEPT ![f].busy = FALSE]
    /\ UNCHANGED <<cust, op, history, acts, faults>>

Crash ==
    /\ op # Idle /\ Faulty /\ op' = Idle
    /\ UNCHANGED <<cust, fold, history, acts>>

Init ==
    /\ cust \in [People -> {[known |-> TRUE, ids |-> i, processed |-> FALSE] : i \in BOOLEAN}]
    /\ fold = [f \in Folders |->
         [fertig |-> NoMark, processing |-> NoMark, layout |-> Nobody, name |-> Nobody,
          manifest |-> Nobody, fits |-> FALSE, busy |-> FALSE, gone |-> FALSE]]
    /\ op = Idle /\ history = {} /\ acts = 0 /\ faults = 0

Assigns ==
    \/ folder_block_reason \/ rearrange_media_layout \/ rename_job_folder
    \/ write_ams_assign_manifest \/ write_fertig_marker \/ evaluate_manifest_gate
    \/ mark_assigned \/ StepFails

Next ==
    \/ \E p \in People, b \in BOOLEAN : Save(p, b) \/ Update(p, b) \/ set_processed(p, b)
    \/ \E p \in People : Delete(p) \/ \E f \in Folders : AssignBegins(p, f)
    \/ Assigns \/ Crash
    \/ \E f \in Folders : Claim(f) \/ Archived(f) \/ Grows(f) \/ Quiet(f)

Spec == Init /\ [][Next]_vars

-----------------------------------------------------------------------------
(* Properties.                                                                *)

(* What the batch dialog proposes is one folder a customer and one customer a *)
(* folder, and no customer is passed over for one that suits less well: of a  *)
(* recommended pair that is not proposed, the customer or the folder is in a  *)
(* proposed pair of at least its score (propose_unique_assignments).          *)
ProposalFits ==
    LET proposed == propose_batch_assignments
    IN  /\ \A c, d \in proposed : c # d => c.p # d.p /\ c.f # d.f
        /\ \A c \in Candidates \ proposed :
             \E d \in proposed : Clash(c, d) /\ d.score >= c.score

(* The monitor never claims a folder half way through an assignment: the      *)
(* marker of a customer with ids is there only with layout, name and manifest *)
(* made for the same customer, wherever the desk was stopped before and       *)
(* whatever a former attempt has left ("strict order: layout, rename,         *)
(* manifest, marker" of run_id_assign_pipeline).  Of every step.              *)
NeverHalfAssigned ==
    \A f \in Folders : Claim(f) /\ fold[f].fertig.ids =>
       {fold[f].layout, fold[f].name, fold[f].manifest} = {fold[f].fertig.p}
=============================================================================
