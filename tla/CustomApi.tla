------------------------------ MODULE CustomApi ------------------------------
(* The one CustomApiClient of the process (cloud/custom_api/) and the Dropbox *)
(* slot it shares (cloud/active_slot.rs, cloud/binding.rs), used by the       *)
(* upload worker, by the operator's append and by the settings.  In mode      *)
(* "proxied" media go to the API in a session that is finalised; in mode      *)
(* "direct" they go to Dropbox (module DirectUpload says how) and a manifest  *)
(* creates an order.                                                          *)
(*                                                                            *)
(* A link, a session and an order are known by the folder they belong to.     *)
EXTENDS Naturals

CONSTANTS Folders, Appended,  \* folders of jobs; folders of the operator's append
          NFiles, Size,       \* files of a folder and their sizes in bytes
          Chunk,              \* CHUNK_BYTES
          Profiles, Bound,    \* Dropbox profiles; the binding of each folder
          None,
          MaxTries, MaxFaults, MaxSwitches   \* bounds

(* An append is staged in a temporary directory (stage_append_files).         *)
ASSUME CustomAssumption ==
    /\ Folders \cap Appended = {}
    /\ NFiles \in Nat \ {0} /\ Size \in [1..NFiles -> Nat] /\ Chunk \in Nat \ {0}
    /\ Bound \in [Folders \cup Appended -> Profiles]
    /\ None \notin Folders \cup Appended \cup Profiles

VARIABLES
    mode,      \* custom_api_upload_mode
    lastUrl, lastSession, lastOrder,  \* CustomApiClient
    slot,      \* ActiveDropboxSlot: the profile direct uploads go to
    active,    \* active profile of the pool
    run,       \* user of the client -> what it is doing
    ck,        \* folder -> checkpoint, empty or one record
    session,   \* API: folder -> newest session
    link,      \* folder -> link handed to its customer
    orders,    \* API: folder -> its orders, but for those the code has lost sight of
    ended,     \* folders whose transfer came to its end
    tries, faults, switches

vars == <<mode, lastUrl, lastSession, lastOrder, slot, active, run, ck, session, link,
          orders, ended, tries, faults, switches>>
clientVars == <<lastUrl, lastSession, lastOrder>>

All == Folders \cup Appended
Users == {"worker", "append"}
FilesOf == 1..NFiles
Smaller(a, b) == IF a < b THEN a ELSE b

Off == [pc |-> "rest", f |-> None, i |-> 1, off |-> 0, prev |-> None, db |-> None]
DirectSession == [got |-> [i \in FilesOf |-> 0], done |-> {}, final |-> FALSE]
At(t, pc) == run[t].pc = pc
Goes(t, pc) == run' = [run EXCEPT ![t].pc = pc]

Init ==
    /\ mode \in {"proxied", "direct"}
    /\ lastUrl = None /\ lastSession = None /\ lastOrder = None
    /\ active \in Profiles /\ slot = active
    /\ run = [t \in Users |-> Off]
    /\ ck = [f \in All |-> {}]
    /\ session = [f \in All |-> DirectSession]
    /\ link = [f \in All |-> None]
    /\ orders = [f \in All |-> 0]
    /\ ended = {} /\ tries = 0 /\ faults = 0 /\ switches = 0

-----------------------------------------------------------------------------
(* The checkpoint of a folder; order and url are the client's at that moment, *)
(* db is the profile a direct transfer is bound to.                           *)
Uploading(i, off) == [phase |-> "uploading", i |-> i, off |-> off,
                      order |-> None, url |-> None, db |-> None]
BoundUploading(i, p) == [Uploading(i, 0) EXCEPT !.db = p]
(* Mutant of the next: the order is left out.                                 *)
PendingForgetful(order, url) == [phase |-> "manifest_pending", i |-> 1, off |-> 0,
                                 order |-> None, url |-> url, db |-> slot]

Pending(order, url) == [phase |-> "manifest_pending", i |-> 1, off |-> 0,
                        order |-> order, url |-> url, db |-> slot]
Finalizing == [Uploading(NFiles + 1, 0) EXCEPT !.phase = "finalizing"]
Save(f, c) == ck' = [ck EXCEPT ![f] = {c}]

-----------------------------------------------------------------------------
(* A transfer begins: the worker's job or the operator's append.  In direct   *)
(* mode the slot is pointed at the bound profile and the former client kept   *)
(* for the end.                                                               *)

(* append_media_from_history refuses while jobs are queued or running, and    *)
(* then awaits the customer lookup; the mode must be direct.                  *)
Look ==
    /\ mode = "direct" /\ \A t \in Users : At(t, "rest")
    /\ Goes("append", "looked")
    /\ UNCHANGED <<mode, clientVars, slot, active, ck, session, link, ended,
                   orders, tries, faults, switches>>

LookupFails(t) ==
    /\ At(t, "looked") /\ Goes(t, "rest")
    /\ UNCHANGED <<mode, clientVars, slot, active, ck, session, link, ended,
                   orders, tries, faults, switches>>

Start(t) ==
    /\ At(t, IF t = "worker" THEN "rest" ELSE "looked")
    /\ \E f \in IF t = "worker" THEN Folders ELSE Appended :
         /\ f \notin ended /\ tries < MaxTries /\ tries' = tries + 1
         /\ run' = [run EXCEPT ![t] = [Off EXCEPT !.pc = "begin", !.f = f,
                                                 !.prev = slot]]
         /\ slot' = IF mode = "direct" THEN Bound[f] ELSE slot
    /\ UNCHANGED <<mode, lastUrl, lastSession, lastOrder, active, ck, session,
                   link, orders, ended, faults, switches>>

(* direct-init answered; the API's former session of the folder is left.      *)
SessionOpens(f) == session' = [session EXCEPT ![f] = DirectSession]

(* The checkpoint a proxied transfer finds, or what it begins with.            *)
Resumed(f) == IF ck[f] = {} THEN Uploading(1, 0) ELSE CHOOSE c \in ck[f] : TRUE

(* A checkpoint of another profile than the one in the slot is refused.       *)
BeginDirect(t, f, c) ==
    /\ run' = [run EXCEPT ![t].i = c.i, ![t].pc =
                   IF c.db \notin {None, slot} THEN "failed"
                   ELSE IF c.phase = "uploading" THEN "open" ELSE "submit"]
    /\ IF ck[f] = {} THEN Save(f, BoundUploading(1, slot)) ELSE UNCHANGED ck
    /\ UNCHANGED <<lastSession, session>>

BeginProxied(t, f, c) ==
    /\ run' = [run EXCEPT ![t].pc = IF c.phase = "finalizing" THEN "finalize"
                                    ELSE "file",
                          ![t].i = c.i, ![t].off = c.off]
    /\ lastSession' = f
    /\ IF ck[f] = {} THEN Save(f, c) /\ SessionOpens(f) ELSE UNCHANGED <<ck, session>>

(* upload_directory_inner: connect if need be, then resume what the           *)
(* checkpoint says or begin anew.                                             *)
Begin(t) ==
    /\ At(t, "begin")
    /\ LET f == run[t].f
       IN  IF mode = "direct" THEN BeginDirect(t, f, Resumed(f))
           ELSE BeginProxied(t, f, Resumed(f))
    /\ UNCHANGED <<mode, lastUrl, lastOrder, slot, active, link, ended, orders,
                   tries, faults, switches>>

-----------------------------------------------------------------------------
(* Proxied: upload_file_via_session.  The session takes a piece at the offset *)
(* it has reached and answers the next one.                                   *)

Answer(f, i, bytes) == session' = [session EXCEPT ![f].got[i] = bytes]

(* Mutant of the next: it saves the index after the file in work.             *)
ChunkSavedAsDone(f, i, off) == Save(f, Uploading(i + 1, 0))

ChunkSaved(f, i, off) == Save(f, Uploading(i, off))

(* The next piece is a first one, or an append that the session accepts.      *)
Sends(t) ==
    /\ At(t, "file") /\ run[t].i <= NFiles
    /\ LET i == run[t].i  off == run[t].off
       IN  \/ off = 0
           \/ Size[i] - off > Chunk /\ session[run[t].f].got[i] = off

Piece(t) == Smaller(Chunk, Size[run[t].i] - run[t].off)
Reached(t) == run[t].off + Piece(t)

FileChunk(t) ==
    /\ Sends(t)
    /\ LET f == run[t].f  i == run[t].i  now == Reached(t)
       IN  /\ Answer(f, i, now)
           /\ ChunkSaved(f, i, now)
           /\ run' = [run EXCEPT ![t].off = now,
                                 ![t].pc = IF Size[i] - now > Chunk THEN "file"
                                           ELSE "last"]
    /\ UNCHANGED <<mode, clientVars, slot, active, link, ended, orders, tries,
                   faults, switches>>

FileLast(t) ==
    /\ \/ At(t, "last")
       \/ At(t, "file") /\ run[t].i <= NFiles /\ run[t].off > 0
            /\ Size[run[t].i] - run[t].off <= Chunk
    /\ LET f == run[t].f  i == run[t].i  off == run[t].off
       IN  /\ session[f].got[i] = off
           /\ session' = [session EXCEPT ![f].got[i] = Size[i],
                                         ![f].done = @ \cup {i}]
           /\ Save(f, Uploading(i + 1, 0))
           /\ run' = [run EXCEPT ![t].pc = "file", ![t].i = i + 1, ![t].off = 0]
    /\ UNCHANGED <<mode, clientVars, slot, active, link, ended, orders, tries,
                   faults, switches>>

(* The session is elsewhere than the offset sent: an error without a retry.   *)
FileRejected(t) ==
    /\ At(t, "file") \/ At(t, "last")
    /\ run[t].i <= NFiles /\ run[t].off > 0
    /\ session[run[t].f].got[run[t].i] # run[t].off
    /\ Goes(t, "failed")
    /\ UNCHANGED <<mode, clientVars, slot, active, ck, session, link, ended,
                   orders, tries, faults, switches>>

FilesDone(t) ==
    /\ At(t, "file") /\ run[t].i > NFiles
    /\ Save(run[t].f, Finalizing) /\ Goes(t, "finalize")
    /\ UNCHANGED <<mode, clientVars, slot, active, session, link, ended, orders,
                   tries, faults, switches>>

(* extract_customer_url: an answer of the API carries the link or does not.   *)
Answers(f) == {f, None}

(* finalize_or_poll: the answer or the polled status carries the link, or the *)
(* poll gives up without one; either way last_customer_url is overwritten.    *)
Finalize(t) ==
    /\ At(t, "finalize")
    /\ session' = [session EXCEPT ![run[t].f].final = TRUE]
    /\ lastUrl' \in Answers(run[t].f)
    /\ ck' = [ck EXCEPT ![run[t].f] = {}] /\ Goes(t, "link")
    /\ UNCHANGED <<mode, lastSession, lastOrder, slot, active, link, ended,
                   orders, tries, faults, switches>>

-----------------------------------------------------------------------------
(* Direct: once Dropbox is connected the media go to the profile the slot     *)
(* has by then; then the manifest is submitted.                               *)

Open(t) ==
    /\ At(t, "open")
    /\ run' = [run EXCEPT ![t].pc = "put", ![t].db = slot]
    /\ UNCHANGED <<mode, clientVars, slot, active, ck, session, link, ended,
                   orders, tries, faults, switches>>

Put(t) ==
    /\ At(t, "put") /\ run[t].i <= NFiles
    /\ LET f == run[t].f  db == run[t].db
       IN  /\ Save(f, BoundUploading(run[t].i + 1, db))
           /\ run' = [run EXCEPT ![t].i = @ + 1]
    /\ UNCHANGED <<mode, clientVars, slot, active, session, link, ended, orders,
                   tries, faults, switches>>

(* The share link of the folder is asked for, and its order is next.          *)
PutsDone(t) ==
    /\ At(t, "put") /\ run[t].i > NFiles
    /\ Save(run[t].f, Pending(None, None))
    /\ run' = [run EXCEPT ![t].pc = "submit", ![t].db = None]
    /\ UNCHANGED <<mode, clientVars, slot, active, session, link, ended, orders,
                   tries, faults, switches>>

(* apply_order_create_response: a link in the answer replaces the last one.   *)
UrlNoted(f) == lastUrl' \in {f, lastUrl}

Knows(f) == \E c \in ck[f] : c.order # None

(* submit_manifest_v11 with the order the checkpoint knows: only its status   *)
(* is asked for.  The checkpoint is written without it before.                *)
SubmitKnown(t) ==
    /\ At(t, "submit")
    /\ \E c \in ck[run[t].f] :
         /\ c.order # None
         /\ lastUrl' = IF c.url # None THEN c.url ELSE lastUrl
         /\ lastOrder' = c.order
         /\ Save(run[t].f, Pending(None, None))
    /\ Goes(t, "poll")
    /\ UNCHANGED <<mode, lastSession, slot, active, session, link, ended, orders,
                   tries, faults, switches>>

Unordered(t) == At(t, "submit") /\ ~Knows(run[t].f)

(* orders/create answers, and the checkpoint takes order and link from the    *)
(* client.  A request without an answer is repeated; what it made is nobody's *)
(* to see.                                                                    *)
SubmitNew(t) ==
    /\ Unordered(t)
    /\ UrlNoted(run[t].f) /\ lastOrder' = run[t].f
    /\ orders' = [orders EXCEPT ![run[t].f] = @ + 1]
    /\ Save(run[t].f, Pending(lastOrder', lastUrl'))
    /\ Goes(t, "created")
    /\ UNCHANGED <<mode, lastSession, slot, active, session, link, ended, tries,
                   faults, switches>>

(* The answer names no order: the client keeps the one it had, and that is    *)
(* saved.  The order that was made is out of sight from the start.            *)
Unnamed(t) ==
    /\ Unordered(t)
    /\ faults < MaxFaults /\ faults' = faults + 1
    /\ UrlNoted(run[t].f)
    /\ Save(run[t].f, Pending(lastOrder, lastUrl'))
    /\ Goes(t, "created")
    /\ UNCHANGED <<mode, lastSession, lastOrder, slot, active, session, link,
                   ended, orders, tries, switches>>

(* The code no longer knows of any order of the folders of S.                 *)
LosesSight(S) ==
    orders' = [f \in All |-> IF \E t \in S : run[t].f = f THEN 0 ELSE orders[f]]

(* A checkpoint cannot be written, which ends the attempt: the old one stays, *)
(* or has been removed already (replace_file).                                *)
SaveFails(t) ==
    /\ At(t, "submit")
    /\ faults < MaxFaults /\ faults' = faults + 1
    /\ ck' \in {ck, [ck EXCEPT ![run[t].f] = {}]}
    /\ LosesSight({u \in {t} : ck' # ck})
    /\ \/ UNCHANGED <<lastUrl, lastOrder>>
       \/ Unordered(t) /\ UrlNoted(run[t].f) /\ lastOrder' \in {run[t].f, lastOrder}
    /\ Goes(t, "failed")
    /\ UNCHANGED <<mode, lastSession, slot, active, session, link, ended, tries, switches>>

(* Mutant of the next: without the five minutes it asks until a link comes.   *)
AcceptedAsksOn(t) ==
    /\ At(t, "created") \/ At(t, "poll")
    /\ lastUrl' \in {run[t].f, lastUrl}
    /\ Goes(t, IF lastUrl' = run[t].f THEN "link"
               ELSE IF At(t, "poll") THEN "created" ELSE "poll")
    /\ ck' = IF lastUrl' = run[t].f THEN [ck EXCEPT ![run[t].f] = {}] ELSE ck
    /\ UNCHANGED <<mode, lastSession, lastOrder, slot, active, session, link,
                   ended, orders, tries, faults, switches>>

(* wait_for_manifest_status, needed after 202 or "processing": completed, or  *)
(* given up after five minutes, which counts as well.                         *)
Accepted(t) ==
    /\ At(t, "created") \/ At(t, "poll")
    /\ UrlNoted(run[t].f)
    /\ ck' = [ck EXCEPT ![run[t].f] = {}] /\ Goes(t, "link")
    /\ UNCHANGED <<mode, lastSession, lastOrder, slot, active, session, link,
                   ended, orders, tries, faults, switches>>

-----------------------------------------------------------------------------
(* The end.  The worker fetches the link; what the client has last stored is  *)
(* taken, else the status of the last session is asked.                       *)

Ends(t) == /\ run' = [run EXCEPT ![t] = Off]
           /\ slot' = IF mode = "direct" THEN run[t].prev ELSE slot

ShareableLink(t) ==
    /\ At(t, "link")
    /\ IF lastUrl # None THEN link' = [link EXCEPT ![run[t].f] = lastUrl]
       ELSE \E u \in Answers(lastSession) :
                link' = [link EXCEPT ![run[t].f] = u]
    /\ lastUrl' = link'[run[t].f]
    /\ ended' = ended \cup {run[t].f}
    /\ Ends(t)
    /\ UNCHANGED <<mode, lastSession, lastOrder, active, ck, session, orders,
                   tries, faults, switches>>

Failed(t) ==
    /\ At(t, "failed") /\ Ends(t)
    /\ UNCHANGED <<mode, lastUrl, lastSession, lastOrder, active, ck, session,
                   link, ended, orders, tries, faults, switches>>

(* upload_with_retries: the same job again, with the slot as it is now.        *)
TryAgain(t) ==
    /\ t = "worker" /\ At(t, "failed") /\ tries < MaxTries /\ tries' = tries + 1
    /\ run' = [run EXCEPT ![t] = [Off EXCEPT !.pc = "begin", !.f = run[t].f,
                                            !.prev = run[t].prev]]
    /\ UNCHANGED <<mode, clientVars, slot, active, ck, session, link, orders,
                   ended, faults, switches>>

(* The client is not connected and the API's health request is not answered   *)
(* with 200, no session is opened, or Dropbox is not connected.               *)
ConnectFails(t) ==
    /\ run[t].pc \in {"begin", "open"} /\ Goes(t, "failed")
    /\ faults < MaxFaults /\ faults' = faults + 1
    /\ UNCHANGED <<mode, clientVars, slot, active, ck, session, link, ended,
                   orders, tries, switches>>

(* The order is not in the checkpoint: a known one while its status is asked  *)
(* for, and any one until the customer has the link.                          *)
Forgets(t) == At(t, "poll") \/ At(t, "link")

(* A request of the transfer fails for good: refused, or unanswered six       *)
(* times; what was asked for may have been done all the same.                 *)
RequestFails(t) ==
    /\ run[t].pc \in {"file", "last", "finalize", "put", "submit", "created",
                      "poll"}
    /\ faults < MaxFaults /\ faults' = faults + 1
    /\ \/ session' = session
       \/ At(t, "finalize") /\ session' = [session EXCEPT ![run[t].f].final = TRUE]
       \/ Sends(t) /\ Answer(run[t].f, run[t].i, Reached(t))
    /\ LosesSight({u \in {t} : Forgets(u)})
    /\ Goes(t, "failed")
    /\ UNCHANGED <<mode, clientVars, slot, active, ck, link, ended, tries, switches>>

(* The process stops at any step; the checkpoints and the API remain.         *)
Crash ==
    /\ faults < MaxFaults /\ faults' = faults + 1
    /\ \E t \in Users : ~At(t, "rest")
    /\ run' = [t \in Users |-> Off]
    /\ lastUrl' = None /\ lastSession' = None /\ lastOrder' = None /\ slot' = active
    /\ LosesSight({t \in Users : Forgets(t)})
    /\ UNCHANGED <<mode, active, ck, session, link, ended, tries, switches>>

(* set_active_account from the settings; the slot follows at once.            *)
SetActive ==
    /\ switches < MaxSwitches /\ switches' = switches + 1
    /\ active' \in Profiles \ {active} /\ slot' = active'
    /\ UNCHANGED <<mode, clientVars, run, ck, session, link, ended, orders,
                   tries, faults>>

Rest ==
    /\ \A t \in Users : At(t, "rest")
    /\ UNCHANGED vars

Step(t) ==
    \/ LookupFails(t) \/ Start(t) \/ Begin(t) \/ FileChunk(t) \/ FileLast(t) \/ FileRejected(t)
    \/ FilesDone(t) \/ Finalize(t) \/ Open(t) \/ Put(t) \/ PutsDone(t)
    \/ SubmitKnown(t) \/ SubmitNew(t)
    \/ Accepted(t) \/ ShareableLink(t) \/ Failed(t) \/ TryAgain(t)

Faults(t) == ConnectFails(t) \/ RequestFails(t) \/ Unnamed(t) \/ SaveFails(t)

Next == Look \/ (\E t \in Users : Step(t) \/ Faults(t)) \/ Crash \/ SetActive \/ Rest

Spec == Init /\ [][Next]_vars /\ \A t \in Users : WF_vars(Step(t))

-----------------------------------------------------------------------------
(* Properties.                                                                *)

(* A proxied folder is finalised only when the API holds every file of it in  *)
(* full, and its customer is never sent the link of the folder uploaded       *)
(* before on the same client: whatever was resumed at a saved index and       *)
(* offset, took effect without an answer or crashed between two saves, and    *)
(* whichever of finalize, the poll and the status request answered            *)
(* (upload_proxied_session, upload_file_via_session, finalize_or_poll,        *)
(* shareable_link).                                                           *)
FinalizedHasAll ==
    \A f \in All : session[f].final =>
        \A i \in FilesOf : i \in session[f].done /\ session[f].got[i] = Size[i]
ProxiedLinkIsOwn == mode = "proxied" => \A f \in All : link[f] \in {f, None}
OrderIsWhole == FinalizedHasAll /\ ProxiedLinkIsOwn

(* "kein POST-Retry" (submit_manifest_v11): a folder gets a second order only *)
(* when the code lost sight of the first.  It does so where orders/create is  *)
(* not answered, or without an id, or its answer cannot be saved; where the   *)
(* status of a known order cannot be asked for, since the checkpoint is       *)
(* written without it before; and where the program stops after the poll.  A  *)
(* failure or a stop anywhere else, however often the folder is resumed and   *)
(* whatever the append does with the client meanwhile, makes none.            *)
OneOrderInSight == \A f \in All : orders[f] <= 1

(* "Queue mit Job A; Active -> B; Job A resumed weiter mit A.": media go only *)
(* to the profile the folder is bound to (pin_binding, set_active_account).   *)
BoundAccount ==
    \A t \in Users : At(t, "put") => run[t].db = Bound[run[t].f]

(* Every transfer ends and gives the slot back, whatever fails or is switched *)
(* while the worker and the append share the client.                          *)
TransferEnds == \A t \in Users : ~At(t, "rest") ~> At(t, "rest")
=============================================================================
