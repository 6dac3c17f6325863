------------------------------ MODULE AppendStaging ------------------------------
(* The files an operator adds to a finished order are first copied into a     *)
(* directory of their own, by product, with watermarked previews of what is   *)
(* booked and not paid; the directory is uploaded into the order's folder and *)
(* removed (stage_append_files and append_media_from_files of upload/         *)
(* append.rs).                                                                *)
(*                                                                            *)
(* A file name is a sequence: its stem, then the numbers it was given, 0 for  *)
(* the ending of a preview.                                                   *)
EXTENDS Naturals, Sequences, FiniteSets

CONSTANTS Picks,      \* what the operator may pick: [name, cat, preview]
          MaxPicks,   \* bound: files picked
          MaxFaults   \* bound: copies and previews that fail

VARIABLES booked, paid,   \* the customer's products
          items,          \* the files picked, in order
          parsed,         \* how many of them are staged
          root,           \* the directory: [name |-> index of the file it is of]
          exists,         \* whether the directory is on disk
          phase,          \* "picked", "staging", "staged", "refused", "done"
          lost,           \* files copied over another one
          faults

vars == <<booked, paid, items, parsed, root, exists, phase, lost, faults>>

Categories == {p.cat : p \in Picks}     \* pairs <<family, kind>>

is_booked(cat) == cat \in booked
is_unpaid(cat) == cat \in booked \ paid

dest_subdir(cat, preview) == IF preview THEN <<"preview", cat[2]>> ELSE cat

validate_unpaid_preview_rules(s) ==
    \A kind \in {"foto", "video"} :
      LET unpaid == {i \in DOMAIN s : is_unpaid(s[i].cat) /\ s[i].cat[2] = kind}
      IN  unpaid # {} => \E i \in unpaid : s[i].preview

(* Mutant of the next: one file name for all that have it.                    *)
KeepsName(dir, name) == name

(* The name, or the first numbered one that is free in the directory.         *)
unique_filename(dir, name) ==
    LET taken(n) == <<dir, n>> \in DOMAIN root
    IN  IF ~taken(name) THEN name
        ELSE LET n == CHOOSE k \in 1..(MaxPicks + 1) :
                        ~taken(Append(name, k)) /\ \A j \in 1..(k - 1) : taken(Append(name, j))
             IN  Append(name, n)

Init ==
    /\ booked \in SUBSET Categories /\ paid \in SUBSET booked
    /\ items = <<>> /\ parsed = 0 /\ root = <<>> /\ exists = FALSE
    /\ phase = "picked" /\ lost = {} /\ faults = 0

Pick ==
    /\ phase = "picked" /\ Len(items) < MaxPicks
    /\ \E p \in Picks : items' = Append(items, p)
    /\ UNCHANGED <<booked, paid, parsed, root, exists, phase, lost, faults>>

(* All files are looked at, and the rule for unpaid products, before anything *)
(* is written; a file that is gone or of the wrong kind refuses all.          *)
stage_append_files ==
    /\ phase = "picked" /\ items # <<>>
    /\ \/ /\ validate_unpaid_preview_rules(items)
          /\ exists' = TRUE /\ phase' = "staging" /\ UNCHANGED faults
       \/ /\ ~validate_unpaid_preview_rules(items)
          /\ phase' = "refused" /\ UNCHANGED <<exists, faults>>
       \/ /\ faults < MaxFaults /\ faults' = faults + 1
          /\ phase' = "refused" /\ UNCHANGED exists
    /\ UNCHANGED <<booked, paid, items, parsed, root, lost>>

(* The copies of a file, in order: the original where it is booked or no      *)
(* preview is asked for, the preview where it is asked for and not yet paid.  *)
Copies(p) ==
    LET original == <<dest_subdir(p.cat, FALSE), p.name>>
        preview  == <<dest_subdir(p.cat, TRUE), Append(p.name, 0)>>
    IN  IF is_booked(p.cat) /\ is_unpaid(p.cat) /\ p.preview THEN <<original, preview>>
        ELSE IF ~is_booked(p.cat) /\ p.preview THEN <<preview>>
        ELSE <<original>>

Stored(dir, name, i) ==
    LET at == <<dir, unique_filename(dir, name)>>
    IN  /\ root' = [x \in DOMAIN root \cup {at} |-> IF x = at THEN i ELSE root[x]]
        /\ lost' = IF at \in DOMAIN root THEN lost \cup {root[at]} ELSE lost

CopiesOf(i) == {x \in DOMAIN root : root[x] = i}

copy_file_to_subdir(i) ==
    LET c == Copies(items[i])[1]
    IN  /\ CopiesOf(i) = {} /\ i \notin lost
        /\ Stored(c[1], c[2], i)
        /\ parsed' = IF Len(Copies(items[i])) = 1 THEN i ELSE parsed

write_watermarked_preview(i) ==
    /\ Len(Copies(items[i])) = 2 /\ CopiesOf(i) # {}
    /\ LET c == Copies(items[i])[2] IN Stored(c[1], c[2], i)
    /\ parsed' = i

StageNext ==
    /\ phase = "staging" /\ parsed < Len(items)
    /\ copy_file_to_subdir(parsed + 1) \/ write_watermarked_preview(parsed + 1)
    /\ UNCHANGED <<booked, paid, items, exists, phase, faults>>

(* A failing copy or preview removes all that was staged.                     *)
StageFails ==
    /\ phase = "staging" /\ parsed < Len(items) /\ faults < MaxFaults
    /\ faults' = faults + 1
    /\ phase' = "refused" /\ exists' = FALSE /\ root' = <<>>
    /\ UNCHANGED <<booked, paid, items, parsed, lost>>

StageEnds ==
    /\ phase = "staging" /\ parsed = Len(items)
    /\ phase' = "staged"
    /\ UNCHANGED <<booked, paid, items, parsed, root, exists, lost, faults>>

(* The directory is uploaded, or the upload refused or failed, and dropped    *)
(* either way.                                                                *)
append_media_from_files ==
    /\ phase = "staged"
    /\ phase' = "done" /\ exists' = FALSE /\ root' = <<>>
    /\ UNCHANGED <<booked, paid, items, parsed, lost, faults>>

Next == \/ Pick \/ stage_append_files \/ StageNext \/ StageFails \/ StageEnds
        \/ append_media_from_files

Spec == Init /\ [][Next]_vars

------------------------------------------------------------------------------
(* Properties.                                                                *)

(* What goes up with an order is all that was picked: two files of one name,  *)
(* or one whose name looks like a numbered one, do not replace each other in  *)
(* the directory, and a refused pick leaves nothing behind.                   *)
StagedIsWhole ==
    /\ lost = {}
    /\ phase = "staged" => \A i \in DOMAIN items : Cardinality(CopiesOf(i)) = Len(Copies(items[i]))
    /\ phase \in {"refused", "done"} => ~exists

(* The directory that goes up has, for every kind of medium of which an       *)
(* unpaid original goes up, a preview of an unpaid file of that kind.         *)
UnpaidHasPreview ==
    phase = "staged" =>
      \A kind \in {"foto", "video"} :
        (\E x \in DOMAIN root : x[1] \in booked \ paid /\ x[1][2] = kind)
        => \E x \in DOMAIN root : x[1] = <<"preview", kind>> /\ is_unpaid(items[root[x]].cat)

(* The directory that is uploaded holds all that was picked and the previews  *)
(* that stand for what is not paid.                                           *)
StageIsSound == StagedIsWhole /\ UnpaidHasPreview
=============================================================================
