------------------------------ MODULE Messages ------------------------------
(* A customer's row of the upload history and the e-mails and SMS its status  *)
(* fields speak of: written by the upload worker, by the operator (resend,    *)
(* contact, manual status, delete) and by the comparison with the journal of  *)
(* the SMS provider, which reads the rows, awaits the journal and then writes *)
(* whole rows back (notify/, model/history_status.rs, model/manual_status.rs, *)
(* storage/history.rs, commands/operator.rs, commands/history.rs).            *)
(*                                                                            *)
(* A row keeps the fields that decide its overall status and its comparison.  *)
(* Addresses are present or not.  Time passes in units of 72 hours, after     *)
(* which an SMS nothing is known of counts as delivered; the prices, the      *)
(* share link, the log and the counters of a row are left out.                *)
EXTENDS Naturals, Sequences, TLC

CONSTANTS Folders, Number, Contact, \* folders; their phone number and contact data
          JournalLimit,  \* messages the journal returns, 200 in the code
          MaxSms, MaxActs, MaxFaults, MaxTime  \* bounds: SMS, operations begun, faults, time

ASSUME MessagesAssumption ==
    /\ Contact \in [Folders -> [mail : BOOLEAN, phone : BOOLEAN]]
    /\ DOMAIN Number = Folders
    /\ {JournalLimit, MaxSms, MaxActs, MaxFaults, MaxTime} \subseteq Nat

VARIABLES rows,    \* the history table: folder -> row or NoRow
          sms,     \* the provider: messages in the order they were accepted
          job,     \* the worker's job
          resend,  \* the resend_history_notifications in work
          snap,    \* entries read by a comparison: syncer -> none or one table
          time,    \* in units of 72 hours, from 1
          acts, faults

vars == <<rows, sms, job, resend, snap, time, acts, faults>>

Syncers == {"timer", "operator"}
NoRow == [status |-> "none"]
None == [pc |-> "rest"]
Final == {"DELIVERED", "NOTDELIVERED", "REJECTED"}
Exists(r) == rows[r] # NoRow
Begins == acts < MaxActs /\ acts' = acts + 1

-----------------------------------------------------------------------------
(* The status texts and what they mean.                                       *)

translate_sms_dlr_status(dlr) ==
    CASE dlr = "NOTDELIVERED" -> "Fehlgeschlagen"
      [] dlr = "DELIVERED" -> "Zugestellt"
      [] dlr = "TRANSMITTED" -> "Übertragen"
      [] OTHER -> "Abgelehnt"

is_problem_status(s) == s \in {"Fehler", "Fehlgeschlagen", "Abgelehnt"}
is_sms_sent_status(s) == s \in {"Übersprungen", "Gesendet", "Zugestellt", "Übertragen"}

(* When the last SMS was sent: last_sms_resent_at, else last_updated.         *)
sms_sent_reference_timestamp(row) == IF row.resent # 0 THEN row.resent ELSE row.at

(* An SMS sent 72 hours ago counts as delivered.                              *)
is_sms_delivered_status(row) ==
    \/ row.sms \in {"Übersprungen", "Zugestellt"}
    \/ is_sms_sent_status(row.sms) /\ sms_sent_reference_timestamp(row) < time

build_overall_status(row) ==
    IF \/ is_problem_status(row.status)
       \/ row.mail /\ is_problem_status(row.email)
       \/ row.phone /\ is_problem_status(row.sms)
      THEN "Problem"
    ELSE IF row.status = "Abgebrochen" THEN "Abgebrochen"
    ELSE IF row.status = "Gestartet" THEN "In Bearbeitung"
    ELSE IF \/ row.mail /\ row.email # "Gesendet"
            \/ row.phone /\ ~is_sms_sent_status(row.sms)
      THEN "Teilweise"
    ELSE IF row.phone /\ ~is_sms_delivered_status(row)
      THEN "Versendet" ELSE "Komplett"

history_entry_needs_sms_journal_check(row) ==
    /\ row # NoRow /\ ~row.locked /\ row.phone
    /\ row.sms \notin {"", "Übersprungen", "Zugestellt", "Fehlgeschlagen"}
    /\ ~is_problem_status(row.sms)
    /\ ~is_sms_delivered_status(row)

-----------------------------------------------------------------------------
(* The table.                                                                 *)

NewRow == [status |-> "Gestartet", email |-> "", sms |-> "", id |-> 0,
           mail |-> FALSE, phone |-> FALSE, locked |-> FALSE, at |-> time, resent |-> 0]

merge_patch(row, patch) == patch @@ row

touch_last_updated(patch) == patch @@ [at |-> time]

(* add_or_update: the patch on the row, or on a new one.                      *)
add_or_update(r, patch) ==
    rows' = [rows EXCEPT ![r] = merge_patch(IF Exists(r) THEN @ ELSE NewRow, patch)]

Delete ==
    /\ \E S \in SUBSET {r \in Folders : Exists(r)} \ {{}} :
         rows' = [r \in Folders |-> IF r \in S THEN NoRow ELSE rows[r]]
    /\ Begins
    /\ UNCHANGED <<sms, job, resend, snap, time, faults>>

-----------------------------------------------------------------------------
(* The channels.  The answer to an SMS names it, does not name it, refuses    *)
(* it, or does not come although the provider took the message; or the        *)
(* message was never sent.                                                    *)

Answers == {"named", "unnamed", "refused", "lost", "not sent"}

send_email == {"Gesendet", "Fehler"}

(* What the provider keeps and what parse_sms_response makes of its answer.   *)
send_sms(r, a) ==
    /\ a # "not sent" => Len(sms) < MaxSms
    /\ sms' = IF a = "not sent" THEN sms
              ELSE Append(sms, [to |-> Number[r], sent |-> time,
                                dlr |-> IF a = "refused" THEN "REJECTED"
                                        ELSE "TRANSMITTED"])
    /\ faults' = IF a = "lost" THEN faults + 1 ELSE faults
    /\ faults' <= MaxFaults

parse_sms_response(a) ==
    [ok |-> a \in {"named", "unnamed"},
     id |-> IF a \in {"named", "refused"} THEN Len(sms') ELSE 0]

IdPatch(id) == IF id = 0 THEN <<>> ELSE [id |-> id]

-----------------------------------------------------------------------------
(* The worker: one job at a time.                                             *)

JobStarts(r) ==
    /\ job.pc = "rest" /\ Begins
    /\ add_or_update(r, touch_last_updated(
           [status |-> "Gestartet", mail |-> Contact[r].mail, phone |-> Contact[r].phone]))
    /\ job' = [pc |-> "upload", r |-> r]
    /\ UNCHANGED <<sms, resend, snap, time, faults>>

(* Cancelled or failed.                                                       *)
JobFails ==
    /\ job.pc = "upload" /\ job' = None
    /\ \/ add_or_update(job.r, touch_last_updated(
              [status |-> "Abgebrochen", mail |-> Contact[job.r].mail,
               phone |-> Contact[job.r].phone]))
       \/ add_or_update(job.r, touch_last_updated([status |-> "Fehler"]))
    /\ UNCHANGED <<sms, resend, snap, time, acts, faults>>

(* A link of the folder is found or made, or the request fails, which counts  *)
(* as none.                                                                   *)
shareable_link == BOOLEAN

(* notify_after_upload: nothing is sent without a link.                       *)
notify_after_upload(r, link, a, mail) ==
    /\ ~link \/ ~Contact[r].phone => a = "not sent"
    /\ send_sms(r, a)
    /\ mail \in IF link /\ Contact[r].mail THEN send_email ELSE {"Übersprungen"}

JobNotifies ==
    /\ job.pc = "upload"
    /\ \E link \in shareable_link, a \in Answers, mail \in send_email \cup {"Übersprungen"} :
         /\ notify_after_upload(job.r, link, a, mail)
         /\ job' = [pc |-> "notified", r |-> job.r, email |-> mail,
                    sms |-> IF ~link \/ ~Contact[job.r].phone THEN "Übersprungen"
                            ELSE IF parse_sms_response(a).ok THEN "Gesendet" ELSE "Fehler",
                    id |-> IF parse_sms_response(a).ok THEN parse_sms_response(a).id ELSE 0]
    /\ UNCHANGED <<rows, resend, snap, time, acts>>

(* success_history; the lock of a manual status is not taken off.             *)
JobSucceeds ==
    /\ job.pc = "notified" /\ job' = None
    /\ add_or_update(job.r, touch_last_updated(
           [status |-> "Erfolgreich", email |-> job.email, sms |-> job.sms]
           @@ IdPatch(job.id)))
    /\ UNCHANGED <<sms, resend, snap, time, acts, faults>>

-----------------------------------------------------------------------------
(* The operator sends again.  The contact is saved first; counters, log and   *)
(* status are built on the row as it was then.  The fields of the dialog are  *)
(* the row's, and those of a chosen channel are filled in.                    *)

ContactPatch(mail, phone) == [mail |-> mail, phone |-> phone]

validate_contact_for_channels(mail, phone, toMail, toPhone) ==
    /\ toMail \/ toPhone
    /\ toMail => mail
    /\ toPhone => phone

ResendBegins(r, mail, phone, toMail, toPhone) ==
    /\ resend.pc = "rest" /\ Begins
    /\ Exists(r) /\ rows[r].status = "Erfolgreich"
    /\ validate_contact_for_channels(mail, phone, toMail, toPhone)
    /\ add_or_update(r, ContactPatch(mail, phone))
    /\ resend' = [pc |-> "send", r |-> r, toMail |-> toMail, toPhone |-> toPhone,
                  patch |-> ContactPatch(mail, phone)]
    /\ UNCHANGED <<sms, job, snap, time, faults>>

(* A refused SMS leaves its id as an accepted one does.                       *)
build_resend_history_updates(mail, a) ==
    (IF resend.toMail THEN [email |-> mail] ELSE <<>>)
    @@ (IF resend.toPhone
        THEN [sms |-> IF parse_sms_response(a).ok THEN "Gesendet" ELSE "Fehler"]
             @@ IdPatch(parse_sms_response(a).id)
             @@ (IF parse_sms_response(a).ok THEN [resent |-> time] ELSE <<>>)
        ELSE <<>>)
    @@ touch_last_updated(resend.patch)

resend_notifications ==
    /\ resend.pc = "send"
    /\ \E mail \in send_email, a \in IF resend.toPhone THEN Answers ELSE {"not sent"} :
         /\ send_sms(resend.r, a)
         /\ resend' = [pc |-> "save", r |-> resend.r,
                       patch |-> build_resend_history_updates(mail, a)]
    /\ UNCHANGED <<rows, job, snap, time, acts>>

(* The updates are saved; a comparison follows if a row needs one.            *)
ResendSaves ==
    /\ resend.pc = "save" /\ resend' = None
    /\ add_or_update(resend.r, resend.patch)
    /\ snap' = IF /\ snap["operator"] = {}
                  /\ \E r \in Folders : history_entry_needs_sms_journal_check(rows'[r])
               THEN [snap EXCEPT !["operator"] = {rows'}] ELSE snap
    /\ UNCHANGED <<sms, job, time, acts, faults>>

save_history_contact(r) ==
    /\ Exists(r) /\ Begins
    /\ \E mail, phone \in BOOLEAN : add_or_update(r, ContactPatch(mail, phone))
    /\ UNCHANGED <<sms, job, resend, snap, time, faults>>

-----------------------------------------------------------------------------
(* The manual status.                                                         *)

target_email_status(row, delivered) ==
    IF row.mail /\ (delivered \/ row.email = "" \/ is_problem_status(row.email))
    THEN [email |-> "Gesendet"] ELSE <<>>

target_sms_status(row, delivered) ==
    IF ~row.phone THEN <<>>
    ELSE IF delivered
      THEN IF row.sms = "Zugestellt" THEN <<>> ELSE [sms |-> "Zugestellt"]
    ELSE IF row.sms = "" \/ is_problem_status(row.sms)
      THEN [sms |-> "Gesendet"] ELSE <<>>

resolve_problem(row) ==
    (IF is_problem_status(row.status) THEN [status |-> "Erfolgreich"] ELSE <<>>)
    @@ (IF row.mail /\ is_problem_status(row.email)
        THEN [email |-> "Gesendet"] ELSE <<>>)
    @@ (IF row.phone /\ is_problem_status(row.sms)
        THEN [sms |-> "Zugestellt"] ELSE <<>>)

ManualUpdates(row, action) ==
    IF action = "Problem auflösen" THEN resolve_problem(row)
    ELSE [status |-> "Erfolgreich"]
         @@ target_email_status(row, action = "Komplett")
         @@ target_sms_status(row, action = "Komplett")

(* "Status ist bereits auf dem Zielzustand": the three texts would not change *)
(* (an error text is only there with the status "Fehler").                    *)
AlreadyThere(row, action) == merge_patch(row, ManualUpdates(row, action)) = row

set_manual_status(r, action) ==
    /\ Exists(r) /\ ~AlreadyThere(rows[r], action) /\ Begins
    /\ LET updates == ManualUpdates(rows[r], action)
       IN  add_or_update(r, touch_last_updated(updates
               @@ (IF "sms" \in DOMAIN updates THEN [locked |-> TRUE] ELSE <<>>)))
    /\ UNCHANGED <<sms, job, resend, snap, time, faults>>

-----------------------------------------------------------------------------
(* The comparison with the journal, every 90 seconds or by the operator.      *)

SyncReads(s) ==
    /\ snap[s] = {}
    /\ \E r \in Folders : history_entry_needs_sms_journal_check(rows[r])
    /\ s = "operator" => Begins
    /\ s = "timer" => UNCHANGED acts
    /\ snap' = [snap EXCEPT ![s] = {rows}]
    /\ UNCHANGED <<rows, sms, job, resend, time, faults>>

get_sms_journal == {m \in DOMAIN sms : m + JournalLimit > Len(sms)}

(* Mutant of the next: a row without an id matches nothing.                   *)
MatchById(r, row) == {m \in get_sms_journal : m = row.id}

(* The messages of the row: by its id, if the journal has it, else any to its *)
(* number of about the same time (the closest is taken, left open here).      *)
match_history_entry_to_journal(r, row) ==
    IF row.id \in get_sms_journal THEN {row.id}
    ELSE {m \in get_sms_journal : /\ sms[m].to = Number[r]
                                  /\ sms[m].sent = sms_sent_reference_timestamp(row)}

apply_journal_message_to_item(row, m) ==
    [row EXCEPT !.sms = translate_sms_dlr_status(sms[m].dlr),
                !.id = IF row.id = 0 THEN m ELSE row.id]

(* What a comparison that has read the row may leave in the table: a row it   *)
(* changes is written as it was read, and a row it leaves may be, for its     *)
(* price.                                                                     *)
Compared(r, row) ==
    LET applied == {apply_journal_message_to_item(row, m) :
                        m \in match_history_entry_to_journal(r, row)}
    IN  IF history_entry_needs_sms_journal_check(row) /\ applied # {}
        THEN applied \cup (IF row \in applied THEN {rows[r]} ELSE {})
        ELSE {rows[r]}

(* The journal has come; an empty one changes nothing.                        *)
SyncWrites(s) ==
    /\ \E old \in snap[s] :
         rows' \in {new \in [Folders -> UNION {Compared(r, old[r]) : r \in Folders}] :
                      \A r \in Folders : new[r] \in Compared(r, old[r])}
    /\ snap' = [snap EXCEPT ![s] = {}]
    /\ UNCHANGED <<sms, job, resend, time, acts, faults>>

SyncFails(s) ==
    /\ snap[s] # {} /\ snap' = [snap EXCEPT ![s] = {}]
    /\ faults < MaxFaults /\ faults' = faults + 1
    /\ UNCHANGED <<rows, sms, job, resend, time, acts>>

-----------------------------------------------------------------------------
(* The provider reports, or the process stops.                                *)

Reported ==
    /\ \E m \in DOMAIN sms, dlr \in {"DELIVERED", "NOTDELIVERED"} :
         /\ sms[m].dlr = "TRANSMITTED" /\ sms' = [sms EXCEPT ![m].dlr = dlr]
    /\ UNCHANGED <<rows, job, resend, snap, time, acts, faults>>

(* 72 hours go by: an upload may be paused that long, no send takes so long.  *)
TimePasses ==
    /\ resend = None /\ job.pc # "notified"
    /\ time < MaxTime /\ time' = time + 1
    /\ UNCHANGED <<rows, sms, job, resend, snap, acts, faults>>

Crash ==
    /\ faults < MaxFaults /\ faults' = faults + 1
    /\ job' = None /\ resend' = None /\ snap' = [s \in Syncers |-> {}]
    /\ <<job, resend, snap>> # <<job', resend', snap'>>
    /\ UNCHANGED <<rows, sms, time, acts>>

Init ==
    /\ rows = [r \in Folders |-> NoRow] /\ sms = <<>>
    /\ job = None /\ resend = None /\ snap = [s \in Syncers |-> {}]
    /\ time = 1 /\ acts = 0 /\ faults = 0

Rest ==
    /\ job = None /\ resend = None /\ acts = MaxActs
    /\ \A s \in Syncers : snap[s] = {}
    /\ UNCHANGED vars

Actions == {"Komplett", "Versendet", "Problem auflösen"}

Next ==
    \/ \E r \in Folders :
         \/ JobStarts(r) \/ save_history_contact(r)
         \/ \E toMail, toPhone \in BOOLEAN :
              /\ Exists(r)
              /\ ResendBegins(r, rows[r].mail \/ toMail, rows[r].phone \/ toPhone,
                              toMail, toPhone)
         \/ \E a \in Actions : set_manual_status(r, a)
    \/ JobFails \/ JobNotifies \/ JobSucceeds \/ resend_notifications \/ ResendSaves
    \/ \E s \in Syncers : SyncReads(s) \/ SyncWrites(s) \/ SyncFails(s)
    \/ Delete \/ Reported \/ TimePasses \/ Crash \/ Rest

Fairness == WF_vars(SyncReads("timer")) /\ WF_vars(SyncWrites("timer"))

Spec == Init /\ [][Next]_vars /\ Fairness

-----------------------------------------------------------------------------
(* Properties.                                                                *)

(* A row says that an SMS went out only if one to its number was accepted,    *)
(* and that all is complete only if one has arrived, or was accepted 72 hours *)
(* ago (test_build_overall_status_stale_sms_becomes_complete), or by the hand *)
(* of the operator: whichever snapshot a comparison writes back and whichever *)
(* message it takes for the row's (update_history_from_journal).              *)
Accepted(r, m) == sms[m].to = Number[r] /\ sms[m].dlr # "REJECTED"

StatusIsReal ==
    \A r \in Folders : Exists(r) /\ ~rows[r].locked =>
        /\ rows[r].sms = "Gesendet" => \E m \in DOMAIN sms : Accepted(r, m)
        /\ build_overall_status(rows[r]) = "Komplett" /\ rows[r].phone =>
             \/ rows[r].sms = "Übersprungen"
             \/ \E m \in DOMAIN sms :
                   Accepted(r, m) /\ (sms[m].dlr = "DELIVERED" \/ sms[m].sent < time)

(* The action "Komplett" makes the overall status "Komplett" and "Problem     *)
(* auflösen" leaves no "Problem", on every row the writers can make           *)
(* (build_manual_status_update against build_overall_status).                 *)
ManualReached ==
    [][\A r \in Folders :
         /\ set_manual_status(r, "Komplett") =>
                build_overall_status(rows'[r]) = "Komplett"
         /\ set_manual_status(r, "Problem auflösen") =>
                build_overall_status(rows'[r]) # "Problem"]_vars

(* A row that waits for a report is settled by the comparison once all        *)
(* messages are final, without waiting out the 72 hours and whatever          *)
(* snapshots are written back meanwhile (the 90 s ticker of lib.rs), if the   *)
(* journal still has a message of its time to its number.                     *)
Waits(r) == /\ history_entry_needs_sms_journal_check(rows[r])
            /\ \A m \in DOMAIN sms : sms[m].dlr \in Final
            /\ \E m \in get_sms_journal :
                  /\ sms[m].to = Number[r]
                  /\ sms[m].sent = sms_sent_reference_timestamp(rows[r])
SmsSettles == \A r \in Folders : Waits(r) ~> ~Waits(r)

(* The status of a row is true, the operator can always settle it, and the    *)
(* comparison does so by itself: the three statements above, of one run.      *)
StatusIsTold == []StatusIsReal /\ ManualReached /\ SmsSettles
=============================================================================
