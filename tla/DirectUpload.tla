---------------------------- MODULE DirectUpload ----------------------------
(* One folder on its way to Dropbox: upload_directory of the native client    *)
(* (cloud/dropbox.rs) and upload_direct_dropbox of the Custom API client      *)
(* (cloud/custom_api/upload.rs), which share upload_files_hybrid              *)
(* (cloud/dropbox_batch.rs), the write limiter and the checkpoint file.  The  *)
(* folder is tried again after a failure, a cancel or a crash, as the worker  *)
(* and the operator's retry do, until an attempt reports success.             *)
(*                                                                            *)
(* Files are numbered in the order of their sorted rel_norm; an index of the  *)
(* model is one above the code's.  A remote name is <<f, n>>: file f under    *)
(* its own name (n = 0) or under `stem (n)`.  A remote file is known by the   *)
(* bytes it was committed with.  Bytes are counted in units of CHUNK_SIZE.    *)
EXTENDS Integers, FiniteSets

CONSTANTS N,            \* files of the folder
          Size,         \* their sizes
          SmallMax,     \* SMALL_FILE_BYTES
          Chunk,        \* CHUNK_SIZE
          BatchMax,     \* BATCH_MAX_FILES
          Lanes,        \* BATCH_PARALLEL_WORKERS
          Successes,    \* SUCCESSES_TO_INCREASE
          Copies,       \* highest number of a remapped name that is looked at
          MaxAttempts,  \* bound: attempts on the folder
          MaxFaults     \* bound: failures, cancels and crashes together

ASSUME SizesAssumption ==
    /\ N \in Nat \ {0} /\ Size \in [1..N -> Nat]
    /\ {SmallMax, Chunk, BatchMax, Lanes, Successes, Copies} \subseteq Nat \ {0}
    /\ {MaxAttempts, MaxFaults} \subseteq Nat

VARIABLES
    kind,      \* "native" or "custom": whose checkpoint rules apply
    append,    \* is_append_upload
    remote,    \* Dropbox: the bytes of each name, Absent or Older
    held,      \* Dropbox: bytes of the newest upload session of a file, Closed
    ck,        \* _aero_upload_checkpoint.json: empty or one record
    pend,      \* ThrottledCheckpointSaver.pending
    saved,     \* ThrottledCheckpointSaver.last_save_t is set
    limit,     \* ParallelWriteLimiter
    pc,        \* where upload_files_hybrid is
    names,     \* number of each file's remote name in this attempt
    start,     \* start_idx of this attempt
    idx,       \* first file no slice has handled yet
    last,      \* last file of the slice in work
    queue,     \* files of the slice no lane has taken
    lane,      \* busy lanes: file -> bytes sent (serial: the one file)
    ready,     \* files of the slice whose session is closed -> bytes in it
    rows,      \* uploaded_files of the Custom API's checkpoint
    skip,      \* skip_paths: rows the attempt started with
    result,    \* of the newest attempt
    attempts, faults,
    missed     \* a probe of this folder failed and counted as "no such file"

attemptVars == <<pend, saved, limit, pc, names, start, idx, last, queue, lane,
                 ready, rows, skip>>
vars == <<kind, append, remote, held, ck, attemptVars, result, attempts,
          faults, missed>>

Files == 1..N
Names == Files \X (0..Copies)
Absent == -1
Older == -2
Closed == -1

Small(f) == Size[f] <= SmallMax
Name(f) == <<f, names[f]>>
Least(S) == CHOOSE x \in S : \A y \in S : x <= y
Greatest(S) == CHOOSE x \in S : \A y \in S : y <= x
Plain == [f \in Files |-> 0]
Idle == [f \in {} |-> 0]   \* no lane is busy

-----------------------------------------------------------------------------
(* The checkpoint file and its throttled writer.                              *)

(* A payload.  names stands for manifest_fp (names and sizes) and for the     *)
(* overrides; resolved is append_names_resolved, without which they are gone. *)
Payload(next, off, done, resolved) ==
    [next |-> next, off |-> off, rows |-> done, names |-> names,
     resolved |-> resolved, phase |-> "uploading"]

(* What the next attempt takes from it: the names of an append.               *)
KeptNames == {c.names : c \in {c \in ck : c.resolved}}

(* A write is due when forced, when it is the first, after CK_MIN_INTERVAL or *)
(* after CHUNK_SIZE of progress: whether time or bytes are due is left open.  *)
Update(c, force) ==
    \/ ck' = {c} /\ pend' = {} /\ saved' = TRUE
    \/ ~force /\ saved /\ pend' = {c} /\ UNCHANGED <<ck, saved>>

(* upsert_uploaded_manifest_row: a row is kept once it is there.               *)
RowsNoted(done) == rows' = IF kind = "custom" THEN rows \cup done ELSE rows

(* on_file_done, of both clients: the index after the file that just ended,   *)
(* with the rows the Custom API client has noted.                             *)
FilePayload(f) == Payload(f + 1, 0, rows', append)
FileDone(f) == RowsNoted({f}) /\ Update(FilePayload(f), FALSE)

(* on_group_done: flush, then a durable write.  The native client leaves the  *)
(* append keys out of this payload.                                           *)
GroupPayload(next) == Payload(next, 0, rows', append /\ kind = "custom")
GroupSaved(next, done) ==
    /\ RowsNoted(done)
    /\ ck' = {GroupPayload(next)}
    /\ pend' = {} /\ saved' = TRUE

EffectiveResumeIndex(next, done) ==
    Greatest({next} \cup {f + 1 : f \in done})

-----------------------------------------------------------------------------
(* The write limiter and the lanes.                                           *)

FreshLimit == [current |-> Lanes, successes |-> 0]

OnSuccess ==
    IF limit.successes + 1 >= Successes /\ limit.current < Lanes
    THEN [current |-> limit.current + 1, successes |-> 0]
    ELSE [limit EXCEPT !.successes = Least({@ + 1, Successes})]

OnRateLimit ==
    [current |-> Greatest({limit.current \div 2, 1}), successes |-> 0]

(* At least one lane, whatever the limiter says; `pending` is what Taken has. *)
current_workers(l) == Greatest({l.current, 1})

(* Mutant of the next: the lane that has just ended counts as busy.           *)
TakenEarly(q, busy, cap) ==
    {f \in q : Cardinality({g \in q : g < f}) + Cardinality(busy) + 1 < cap}

(* Lanes left busy take from the front of the queue up to the capacity.       *)
Taken(q, busy, cap) ==
    {f \in q : Cardinality({g \in q : g < f}) + Cardinality(busy) < cap}

Refill(q, l, cap) ==
    LET new == Taken(q, DOMAIN l, cap)
    IN  /\ queue' = q \ new
        /\ lane' = [f \in DOMAIN l \cup new |-> IF f \in new THEN 0 ELSE l[f]]

Without(f) == [g \in DOMAIN lane \ {f} |-> lane[g]]
Slice == {f \in idx..last : f \notin skip}
Large == {f \in Slice : ~Small(f)}

-----------------------------------------------------------------------------
(* How an attempt begins and ends.                                            *)

Init ==
    /\ kind \in {"native", "custom"} /\ append \in BOOLEAN
    /\ \E S \in SUBSET (IF append THEN {<<f, 0>> : f \in Files} ELSE {}) :
           remote = [x \in Names |-> IF x \in S THEN Older ELSE Absent]
    /\ held = [f \in Files |-> Closed]
    /\ ck = {} /\ pend = {} /\ saved = FALSE /\ limit = FreshLimit
    /\ pc = "idle" /\ names = Plain /\ start = 1 /\ idx = 1 /\ last = 0
    /\ queue = {} /\ lane = Idle /\ ready = Idle /\ rows = {} /\ skip = {}
    /\ result = "none" /\ attempts = 0 /\ faults = 0 /\ missed = FALSE

(* Mutant of the next: every file keeps its name.                             *)
NotRemapped(occupied) == Plain

(* resolve_append_remote_collisions: the first number free among the probed.  *)
Remapped(occupied) ==
    [f \in Files |-> Least({n \in 0..Copies : <<f, n>> \notin occupied}
                           \cup {Copies})]

Occupied == {x \in Names : remote[x] # Absent}

(* The names of the attempt: those the checkpoint kept, or probed ones; a     *)
(* probe whose request fails counts its name as free.                         *)
NamesResolved ==
    \/ ~append /\ names' = Plain /\ UNCHANGED missed
    \/ append /\ names' \in KeptNames /\ UNCHANGED missed
    \/ /\ append /\ KeptNames = {}
       /\ \E S \in {{}} \cup (IF faults < MaxFaults THEN {{x} : x \in Occupied}
                              ELSE {}) :
              /\ names' = Remapped(Occupied \ S)
              /\ missed' = (missed \/ S # {})

(* manifest_fp of the checkpoint is that of the files, names included.        *)
SameFiles(c) == c.names = names'

FirstPayload == [next |-> 1, off |-> 0, rows |-> {}, names |-> names',
                 resolved |-> append, phase |-> "uploading"]

(* The files are there already, the order is not.                             *)
ManifestPending(c) == c.phase = "manifest_pending"

(* The checkpoint the attempt goes on from: of the same files, else a new one. *)
Loaded == IF \E c \in ck : SameFiles(c) THEN CHOOSE c \in ck : TRUE
          ELSE FirstPayload

(* Where the attempt goes on.                                                 *)
StartIndex(c) ==
    IF kind = "custom" THEN EffectiveResumeIndex(c.next, c.rows) ELSE c.next

(* upload_directory and upload_direct_dropbox up to upload_files_hybrid, for  *)
(* a client that is connected and holds the binding of the checkpoint.        *)
Begin ==
    /\ pc = "idle" /\ result # "uploaded" /\ attempts < MaxAttempts
    /\ \E f \in Files : kind = "custom" \/ Size[f] > 0
    /\ NamesResolved
    /\ attempts' = attempts + 1 /\ result' = "running"
    /\ faults' = IF missed' /\ ~missed THEN faults + 1 ELSE faults
    /\ LET c0 == Loaded
           from == StartIndex(c0)
           resumed == c0.off > 0 /\ from = c0.next /\ from <= N
       IN  /\ ck' = {c0} /\ rows' = c0.rows /\ skip' = c0.rows
           /\ start' = from /\ idx' = from
           /\ pc' = IF ManifestPending(c0) THEN "manifest"
                    ELSE IF resumed THEN "serial" ELSE "slice"
           /\ last' = IF resumed THEN from ELSE 0
           /\ lane' = IF resumed THEN [f \in {from} |-> c0.off] ELSE Idle
           /\ saved' = resumed
    /\ pend' = {} /\ limit' = FreshLimit /\ queue' = {} /\ ready' = Idle
    /\ UNCHANGED <<kind, append, remote, held>>

(* The attempt is over; its local state is dropped.                           *)
Over(r) ==
    /\ pc' = "idle" /\ result' = r
    /\ pend' = {} /\ saved' = FALSE /\ limit' = FreshLimit
    /\ idx' = 1 /\ last' = 0 /\ queue' = {} /\ lane' = Idle /\ ready' = Idle
    /\ rows' = {} /\ skip' = {}
    /\ UNCHANGED <<kind, append, names, start, attempts>>

(* The head of the loop over batch_slices: one file goes serially, more go    *)
(* as a group; past the last slice the files are reported as uploaded.        *)
NextSlice ==
    /\ pc = "slice" /\ idx <= N
    /\ last' = Least({idx + BatchMax - 1, N})
    /\ LET todo == {f \in idx..last' : f \notin skip}
           small == {f \in todo : Small(f)}
       IN  IF todo = {}
           THEN /\ idx' = last' + 1
                /\ UNCHANGED <<pc, queue, lane>>
           ELSE /\ pc' = IF Cardinality(todo) = 1 THEN "serial"
                         ELSE IF small # {} THEN "small" ELSE "large"
                /\ IF Cardinality(todo) = 1
                   THEN queue' = {} /\ lane' = [f \in todo |-> 0]
                   ELSE Refill(IF small # {} THEN small ELSE todo, Idle,
                               current_workers(limit))
                /\ UNCHANGED idx
    /\ ready' = Idle
    /\ UNCHANGED <<kind, append, remote, held, ck, pend, saved, limit, names,
                   start, rows, skip, result, attempts, faults, missed>>

FilesUploaded ==
    /\ pc = "slice" /\ idx > N
    /\ IF kind = "native"
       THEN ck' = {} /\ Over("uploaded")
       ELSE /\ pc' = "manifest"
            /\ ck' = {[Payload(N + 1, 0, rows, FALSE) EXCEPT
                           !.phase = "manifest_pending"]}
            /\ UNCHANGED <<kind, append, pend, saved, limit, names, start, idx,
                           last, queue, lane, ready, rows, skip, result,
                           attempts>>
    /\ UNCHANGED <<remote, held, faults, missed>>

(* finish_direct_manifest, when the order is accepted.                        *)
ManifestAccepted ==
    /\ pc = "manifest" /\ ck' = {} /\ Over("uploaded")
    /\ UNCHANGED <<remote, held, faults, missed>>

-----------------------------------------------------------------------------
(* One file at a time.                                                        *)

(* The next request of the file's upload session; bytes is what it had sent.  *)
Piece(f, sent) == Least({Chunk, Size[f] - sent})
SessionStarts(f, sent) == ~Small(f) /\ sent = 0
SessionAppends(f, sent) == ~Small(f) /\ sent > 0 /\ Size[f] - sent > Chunk
(* Mutant of the next: the last two chunks are taken for one.                 *)
SessionCommitsEarly(f, sent) ==
    ~Small(f) /\ sent > 0 /\ Size[f] - sent <= 2 * Chunk
SessionCommits(f, sent) == ~Small(f) /\ sent > 0 /\ Size[f] - sent <= Chunk

(* The request that commits the file; the session must be where the cursor is. *)
Finishes(f) == SessionCommits(f, lane[f]) /\ held[f] = lane[f]

(* on_serial_progress: the file and the bytes its session has.                *)
ProgressSaved(f, now) == Update(Payload(f, now, rows, append), FALSE)

(* upload_large_file: the first chunk opens the session, the others append.   *)
SerialChunk ==
    /\ pc = "serial"
    /\ \E f \in DOMAIN lane :
         LET now == lane[f] + Piece(f, lane[f])
         IN  /\ \/ SessionStarts(f, lane[f])
                \/ SessionAppends(f, lane[f]) /\ held[f] = lane[f]
             /\ held' = [held EXCEPT ![f] = now]
             /\ lane' = [lane EXCEPT ![f] = now]
             /\ ProgressSaved(f, now)
    /\ UNCHANGED <<kind, append, remote, limit, pc, names, start, idx, last,
                   queue, ready, rows, skip, result, attempts, faults, missed>>

(* The file is there: /files/upload of a small one, upload_session/finish of  *)
(* a large one; then upload_one_serial and its caller save three times.       *)
SerialDone ==
    /\ pc = "serial"
    /\ \E f \in DOMAIN lane :
         /\ Small(f) \/ Finishes(f)
         /\ remote' = [remote EXCEPT ![Name(f)] =
                           IF Small(f) THEN Size[f] ELSE held[f] + Piece(f, lane[f])]
         /\ held' = [held EXCEPT ![f] = Closed]
         /\ GroupSaved(f + 1, {f})
    /\ limit' = OnSuccess
    /\ pc' = "slice" /\ idx' = last + 1 /\ lane' = Idle
    /\ UNCHANGED <<kind, append, names, start, last, queue, ready, skip, result,
                   attempts, faults, missed>>

(* What the Custom API client saves at the end of a failed attempt.           *)
RowsSaved == {Payload(EffectiveResumeIndex(start, rows), 0, rows, append)}

(* A session that is elsewhere than the cursor answers with an error that is  *)
(* not retried; the cursor is saved and the attempt fails.                    *)
SerialRejected ==
    /\ pc = "serial"
    /\ \E f \in DOMAIN lane :
         /\ ~Small(f) /\ lane[f] > 0 /\ held[f] # lane[f]
         /\ ck' = IF rows # {} THEN RowsSaved
                  ELSE {Payload(f, lane[f], rows, append)}
    /\ Over("failed")
    /\ UNCHANGED <<remote, held, faults, missed>>

-----------------------------------------------------------------------------
(* A group: small files in parallel, then the large ones through sessions     *)
(* that one request commits together.                                         *)

ToLarge ==
    IF Large = {} THEN pc' = "group" /\ queue' = {} /\ lane' = Idle
    ELSE pc' = "large" /\ Refill(Large, Idle, current_workers(limit'))

(* The results are sorted once every lane has joined.                          *)
LastLane(f) == queue = {} /\ DOMAIN lane = {f}

SmallDone ==
    /\ pc = "small"
    /\ \E f \in DOMAIN lane :
         /\ remote' = [remote EXCEPT ![Name(f)] = Size[f]]
         /\ limit' = OnSuccess
         /\ FileDone(f)
         /\ IF LastLane(f)
            THEN ToLarge
            ELSE pc' = "small" /\ Refill(queue, Without(f), current_workers(limit'))
    /\ UNCHANGED <<kind, append, held, names, start, idx, last, ready, skip,
                   result, attempts, faults, missed>>

(* append_file_to_session: one chunk of a large file of the group.            *)
LargeChunk ==
    /\ pc = "large"
    /\ \E f \in DOMAIN lane :
         /\ Size[f] - lane[f] > Chunk
         /\ lane' = [lane EXCEPT ![f] = @ + Chunk]
    /\ UNCHANGED <<kind, append, remote, held, ck, pend, saved, limit, pc, names,
                   start, idx, last, queue, ready, rows, skip, result, attempts,
                   faults, missed>>

(* Its last chunk: the file counts as done here, before it is committed; a    *)
(* single large file is committed by its own session.                         *)
LargeDone ==
    /\ pc = "large"
    /\ \E f \in DOMAIN lane :
         /\ Size[f] - lane[f] <= Chunk
         /\ ready' = [g \in DOMAIN ready \cup {f} |->
                         IF g = f THEN lane[f] + Piece(f, lane[f]) ELSE ready[g]]
         /\ remote' = IF Large = {f} THEN [remote EXCEPT ![Name(f)] = ready'[f]]
                      ELSE remote
         /\ limit' = OnSuccess
         /\ FileDone(f)
         /\ IF LastLane(f)
            THEN /\ pc' = IF Large = {f} THEN "group" ELSE "commit"
                 /\ queue' = {} /\ lane' = Idle
            ELSE pc' = "large" /\ Refill(queue, Without(f), current_workers(limit'))
    /\ UNCHANGED <<kind, append, held, names, start, idx, last, skip, result,
                   attempts, faults, missed>>

(* finish_batch_v2 and, if it answers with a job, the poll until it is done.  *)
Committed(sessions) ==
    remote' = [x \in Names |-> IF x \in {Name(f) : f \in DOMAIN sessions}
                               THEN sessions[x[1]] ELSE remote[x]]

BatchCommitted ==
    /\ pc = "commit"
    /\ Committed(ready)
    /\ pc' = "group"
    /\ UNCHANGED <<kind, append, held, ck, pend, saved, limit, names, start, idx,
                   last, queue, lane, ready, rows, skip, result, attempts,
                   faults, missed>>

GroupDone ==
    /\ pc = "group"
    /\ GroupSaved(last + 1, Slice)
    /\ pc' = "slice" /\ idx' = last + 1
    /\ UNCHANGED <<kind, append, remote, held, limit, names, start, last, queue,
                   lane, ready, skip, result, attempts, faults, missed>>

(* A 429 with too_many_write_operations: the request is sent again after a    *)
(* wait, with fewer lanes from then on.                                       *)
RateLimited ==
    /\ pc \in {"serial", "small", "large", "commit"}
    /\ limit # OnRateLimit /\ limit' = OnRateLimit
    /\ UNCHANGED <<kind, append, remote, held, ck, pend, saved, pc, names, start,
                   idx, last, queue, lane, ready, rows, skip, result, attempts,
                   faults, missed>>

-----------------------------------------------------------------------------
(* What goes wrong.  Requests in flight may still take effect at Dropbox.     *)

Landing(S) ==
    LET whole == {f \in S : \/ pc = "small"
                            \/ pc = "commit"
                            \/ pc = "large" /\ Large = {f}
                                 /\ Size[f] - lane[f] <= Chunk
                            \/ pc = "serial" /\ (Small(f) \/ Finishes(f))}
        more == {f \in S : pc = "serial" /\ SessionAppends(f, lane[f])
                           /\ held[f] = lane[f]}
    IN  /\ remote' = [x \in Names |-> IF x[1] \in whole /\ x = Name(x[1])
                                      THEN Size[x[1]] ELSE remote[x]]
        /\ held' = [f \in Files |-> IF f \in more THEN held[f] + Chunk
                                    ELSE IF f \in whole THEN Closed ELSE held[f]]

InFlight == IF pc = "commit" THEN DOMAIN ready ELSE DOMAIN lane

(* The retries of a request are used up, a join fails, a cancel is seen.      *)
(* upload_large_file saves its cursor; the Custom API client also saves what  *)
(* it has rows for, unless the upload was cancelled.                          *)
Fails(r) ==
    /\ pc # "idle" /\ faults < MaxFaults /\ faults' = faults + 1
    /\ \E S \in SUBSET InFlight : Landing(S)
    /\ LET cursor == IF pc = "serial" /\ \A f \in DOMAIN lane : ~Small(f)
                     THEN {Payload(f, lane[f], rows, append) : f \in DOMAIN lane}
                     ELSE IF kind = "custom" /\ r = "failed" /\ pend # {}
                     THEN pend ELSE ck
       IN  ck' = IF r = "failed" /\ pc # "manifest" /\ rows # {}
                 THEN RowsSaved ELSE cursor
    /\ Over(r)
    /\ UNCHANGED missed

RequestFails == pc \notin {"slice", "group"} /\ Fails("failed")

(* wait_if_paused is asked before every file and request, not by the commit.  *)
CancelSeen == pc \notin {"group", "commit"} /\ Fails("cancelled")

(* The process stops.  replace_file removes the old checkpoint before it      *)
(* renames the new one: a stop in between leaves none.                        *)
Crash ==
    /\ pc # "idle" /\ faults < MaxFaults /\ faults' = faults + 1
    /\ \E S \in SUBSET InFlight : Landing(S)
    /\ ck' \in {ck, {}}
    /\ Over("failed")
    /\ UNCHANGED missed

-----------------------------------------------------------------------------
Serial == SerialChunk \/ SerialDone \/ SerialRejected
Group == SmallDone \/ LargeChunk \/ LargeDone \/ BatchCommitted \/ GroupDone
Progress == NextSlice \/ FilesUploaded \/ ManifestAccepted \/ Serial \/ Group

(* Nothing is left to do once the folder is uploaded or given up.             *)
Rest ==
    /\ pc = "idle" /\ (result = "uploaded" \/ attempts = MaxAttempts)
    /\ UNCHANGED vars

Next == Begin \/ Progress \/ RateLimited \/ RequestFails \/ CancelSeen \/ Crash
        \/ Rest

Spec == Init /\ [][Next]_vars /\ WF_vars(Progress)

-----------------------------------------------------------------------------
(* Properties.                                                                *)

(* A file at Dropbox is there in full, the cursor of a checkpoint is not ahead *)
(* of its session, and an attempt that began with the first file and reports   *)
(* success has left no file out: serial sessions resumed at a saved cursor,    *)
(* groups committed together, lanes, throttled saves and requests that took    *)
(* effect without an answer included (upload_large_file,                       *)
(* append_file_to_session, ThrottledCheckpointSaver, upload_files_hybrid).     *)
NoTornFile == \A x \in Names : remote[x] \in {Absent, Older, Size[x[1]]}
CursorHeld ==
    \A c \in ck : c.off > 0 => held[c.next] = Closed \/ held[c.next] >= c.off
FreshComplete ==
    result = "uploaded" /\ start = 1 => \A f \in Files : remote[Name(f)] = Size[f]
UploadIsWhole == NoTornFile /\ CursorHeld /\ FreshComplete

(* "Drive hybrid upload from `start_idx` through the end of `files`": whatever *)
(* attempts failed before, a folder reported as uploaded is at Dropbox.        *)
Complete ==
    result = "uploaded" => \A f \in Files : remote[Name(f)] = Size[f]

(* An append writes over no older medium, across resumes, as long as every     *)
(* probe was answered (resolve_append_remote_collisions).                      *)
AppendKeepsOlder ==
    [][~missed => \A x \in Names : remote[x] = Older => remote'[x] = Older]_vars

(* Every attempt ends: no lane pool, slice loop or group is left waiting.      *)
AttemptEnds == (pc # "idle") ~> (pc = "idle")
=============================================================================
