----------------------------- MODULE CustodyProofs ------------------------------
(***************************************************************************)
(* What becomes of a folder while one monitor loop runs, for any number of *)
(* folders, signals and restarts, and whether or not the archive works.    *)
(* Without retries, a queued folder is on the share under its processing   *)
(* marker, and its archive agrees with its history.  With them, every      *)
(* message to the customer is owed to one signal, one retry or one marker  *)
(* that outlived its upload.                                               *)
(***************************************************************************)
EXTENDS PipelineProofs

\* One monitor loop runs, and the operator retries nothing.
OneLoop == \A m, n \in Monitors : m = n
NoRetries == MaxRetries = 0

Claimed(f) == place[f] = "share" /\ "processing" \in marks[f]

\* What is proved of the registry (QueueFacts).
RegistryFacts == RegTypeOK /\ Queue!OneHolder /\ Queue!NoLeakedReservation /\ Queue!SnapshotIsTheWork

\* The worker runs, no retry does.
Setting == closed = FALSE /\ retry = Idle

\* A folder on its way into the queue is claimed, too, and the one that recovery looks at
\* or that is about to be archived is in nobody's hands.
OnTheWay ==
    \A m \in Monitors :
        /\ loop[m].at \in {"claimed", "stalled", "bound"} => Claimed(loop[m].folder)
        /\ loop[m].at \in {"stalled", "bound", "failed"} => loop[m].folder \notin pending

Custody == Setting /\ QueuedIsClaimed /\ OnTheWay

-----------------------------------------------------------------------------
\* Who holds what, in the pipeline's own terms.
LEMMA Holders ==
  ASSUME RegistryFacts, TaskTypes, closed = FALSE
  PROVE  /\ QueuedFolders \subseteq pending /\ pending \subseteq Folders
         /\ worker.at # "idle" => worker.folder \in pending \ QueuedFolders
         /\ \A m \in Monitors : loop[m].at \in {"registered", "read", "claimed"} =>
               /\ loop[m].folder \in pending \ QueuedFolders
               /\ worker.at # "idle" => worker.folder # loop[m].folder
<1>1. Queue!QueuedFolders = QueuedFolders
  BY DEF Queue!QueuedFolders, Queue!FoldersOf, QueuedFolders, FoldersOf
<1>2. Queue!WorkerFolder = IF worker.at = "idle" THEN {} ELSE {worker.folder}
  BY DEF Queue!WorkerFolder, WorkerMap
<1>3. Queue!EntryFolders = QueuedFolders \cup Queue!WorkerFolder
  BY <1>1 DEF RegistryFacts, Queue!SnapshotIsTheWork
<1>4. /\ pending = Queue!ReservedFolders \cup Queue!EntryFolders
      /\ QueuedFolders \cap Queue!WorkerFolder = {}
      /\ Queue!ReservedFolders \cap (QueuedFolders \cup Queue!WorkerFolder) = {}
      /\ pending \subseteq Folders
  BY <1>1 DEF RegistryFacts, Queue!NoLeakedReservation, Queue!OneHolder, RegTypeOK
<1>5. ASSUME NEW m \in Monitors, loop[m].at \in {"registered", "read", "claimed"}
      PROVE  loop[m].folder \in Queue!ReservedFolders
  <2>1. m # RetryTask /\ CallerMap[m] = CallerOf(loop[m])
    BY RetryTaskAssumption DEF CallerMap
  <2>2. /\ CallerMap[m].at \in {"reserved", "frozen"}
        /\ CallerMap[m].folder = loop[m].folder
    BY <1>5, <2>1 DEF CallerOf, Caller
  <2> QED BY <2>2 DEF Queue!ReservedFolders, Queue!Reserving
<1> QED BY <1>2, <1>3, <1>4, <1>5

\* Only enqueue() puts a folder into the channel.
LEMMA EnqueueFolders ==
  ASSUME RegTypeOK, NEW f \in Folders, NEW reserved, EnqueueSent(JobOf(f), reserved)
  PROVE  /\ QueuedFolders' = QueuedFolders \cup {f}
         /\ pending' = pending \cup {f} /\ closed' = closed
         /\ reserved \/ f \notin pending
<1>1. JobOf(f) \in Job /\ JobOf(f).folder = f
  BY DEF JobOf, Job, Binding
<1>2. jobs' = Append(jobs, JobOf(f)) /\ jobs \in Seq(Job)
  BY DEF EnqueueSent, RegTypeOK
<1>3. /\ Len(jobs') = Len(jobs) + 1
      /\ \A i \in 1..Len(jobs) : jobs'[i] = jobs[i]
      /\ jobs'[Len(jobs) + 1] = JobOf(f)
      /\ jobs' \in Seq(Job)
  BY <1>1, <1>2, AppendProperties
<1>4. DOMAIN jobs = 1..Len(jobs) /\ DOMAIN jobs' = 1..(Len(jobs) + 1) /\ Len(jobs) \in Nat
  BY <1>2, <1>3, LenProperties
<1>5. QueuedFolders' = QueuedFolders \cup {f}
  BY <1>1, <1>3, <1>4 DEF QueuedFolders, FoldersOf
<1> QED BY <1>1, <1>5 DEF EnqueueSent

\* recv() takes the folder it returns from the channel.
LEMMA ReceiveFolders ==
  ASSUME RegTypeOK, Receive
  PROVE  /\ Head(jobs).folder \in QueuedFolders
         /\ QueuedFolders' \subseteq QueuedFolders
         /\ UNCHANGED <<pending, closed>>
<1>1. jobs \in Seq(Job) /\ jobs # <<>> /\ jobs' = Tail(jobs)
  BY DEF Receive, RegTypeOK
<1>2. /\ Head(jobs) = jobs[1] /\ 1 \in DOMAIN jobs
      /\ \A i \in DOMAIN Tail(jobs) : i + 1 \in DOMAIN jobs /\ Tail(jobs)[i] = jobs[i + 1]
  BY <1>1, HeadTailProperties, LenProperties
<1> QED BY <1>1, <1>2 DEF Receive, QueuedFolders, FoldersOf

\* Where the only loop is after one of its steps.
LEMMA LoopAfter ==
  ASSUME OneLoop, TaskTypes, NEW m \in Monitors
  PROVE  /\ \A at : Go(m, at) =>
               \A n \in Monitors : loop'[n].at = at /\ loop'[n].folder = loop[m].folder
         /\ GoIdle(m) => \A n \in Monitors : loop'[n].at = "idle"
<1>1. loop \in [Monitors -> LoopState] /\ \A n \in Monitors : n = m
  BY DEF OneLoop, TaskTypes
<1>2. ASSUME NEW at, Go(m, at), NEW n \in Monitors
      PROVE  loop'[n].at = at /\ loop'[n].folder = loop[m].folder
  <2>1. PICK x : x.at = at /\ x.folder = loop[m].folder /\ loop' = [loop EXCEPT ![m] = x]
    BY <1>2, LoopGoes
  <2> QED BY <1>1, <2>1
<1>3. ASSUME GoIdle(m), NEW n \in Monitors PROVE loop'[n].at = "idle"
  BY <1>1, <1>3 DEF GoIdle, Idle
<1> QED BY <1>2, <1>3

\* The same for a loop that takes up a folder.
LEMMA LoopTakes ==
  ASSUME OneLoop, TaskTypes, NEW m \in Monitors, NEW at, NEW f,
         loop' = [loop EXCEPT ![m] = [at |-> at, folder |-> f]]
  PROVE  \A n \in Monitors : loop'[n].at = at /\ loop'[n].folder = f
BY DEF OneLoop, TaskTypes

\* Custody survives a step that neither moves a folder nor takes a processing marker, and
\* brings only claimed folders into the queue.
LEMMA FilesStand ==
  ASSUME Custody, UNCHANGED <<place, closed, retry>>,
         \A g : "processing" \in marks[g] => "processing" \in marks'[g],
         \A g \in InHand' : g \in InHand \/ Claimed(g),
         OnTheWay'
  PROVE  Custody'
<1>1. Setting'
  BY DEF Custody, Setting
<1>2. QueuedIsClaimed'
  BY DEF Custody, QueuedIsClaimed, Claimed
<1> QED BY <1>1, <1>2 DEF Custody

\* What the steps of a claim preserve.
LEMMA ClaimCustody ==
  ASSUME OneLoop, RegistryFacts, TaskTypes, FileTypes, Custody, NEW m \in Monitors, ClaimStep(m)
  PROVE  Custody'
<1> DEFINE f == loop[m].folder
<1>1. /\ closed = FALSE /\ RegTypeOK
      /\ marks \in [Folders -> SUBSET {"fertig", "processing"}]
  BY DEF Custody, Setting, RegistryFacts, FileTypes
<1>2. UNCHANGED <<place, worker, retry>>
  BY DEF ClaimStep, ClaimRegister, ClaimRead, ClaimGivesUp, LookupFails,
     ClaimRejected,
         ClaimRename, ClaimEnqueue, ClaimReport, files, counts
<1>3. loop[m].at # "idle" /\ f \in Folders
  <2>1. loop[m].at # "idle"
    BY DEF ClaimStep, ClaimRegister, ClaimRead, ClaimGivesUp, LookupFails,
       ClaimRejected,
           ClaimRename, ClaimEnqueue, ClaimReport
  <2> QED BY <2>1 DEF TaskTypes
<1>4. ASSUME UNCHANGED jobs PROVE InHand' = InHand
  BY <1>2, <1>4 DEF InHand, QueuedFolders, FoldersOf
<1>5. CASE ClaimRegister(m) \/ ClaimRead(m) \/ ClaimGivesUp(m) \/ ClaimRejected(m)
           \/ ClaimReport(m)
  <2>1. \/ Go(m, "registered") \/ Go(m, "read") \/ GoIdle(m)
    BY <1>5 DEF ClaimRegister, ClaimRead, ClaimGivesUp, ClaimRejected, ClaimReport
  <2>2. \A n \in Monitors : loop'[n].at \in {"registered", "read", "idle"}
    BY <2>1, LoopAfter
  <2>3. UNCHANGED <<jobs, marks, closed>>
    BY <1>5 DEF ClaimRegister, ClaimRead, ClaimGivesUp, ClaimRejected,
       ClaimReport, Register,
               Unregister, regVars, files
  <2>4. OnTheWay'
    BY <2>2 DEF OnTheWay
  <2> QED BY <1>1, <1>2, <1>4, <2>3, <2>4, FilesStand
<1>6. CASE LookupFails(m)
  <2>1. /\ UNCHANGED <<jobs, marks, closed>> /\ pending' = pending \ {f} /\ Go(m, "failed")
    BY <1>6 DEF LookupFails, Unregister, files
  <2>2. \A n \in Monitors : loop'[n].at = "failed" /\ loop'[n].folder = f
    BY <2>1, LoopAfter
  <2>3. OnTheWay'
    BY <2>1, <2>2 DEF OnTheWay
  <2> QED BY <1>1, <1>2, <1>4, <2>1, <2>3, FilesStand
<1>7. CASE ClaimRename(m) /\ MarkedFinished(f)
  <2>1. UNCHANGED <<jobs, closed>> /\ Go(m, "claimed") /\ Mark(f, {"processing"})
    BY <1>7 DEF ClaimRename, MarkedFinished, regVars
  <2>2. \A n \in Monitors : loop'[n].at = "claimed" /\ loop'[n].folder = f
    BY <2>1, LoopAfter
  <2>3. /\ marks' \in [Folders -> SUBSET {"fertig", "processing"}]
        /\ \A g \in Folders : marks'[g] = IF g = f THEN {"processing"} ELSE marks[g]
    BY <1>1, <1>3, <2>1 DEF Mark
  <2>4. \A g : "processing" \in marks[g] => "processing" \in marks'[g]
    BY <1>1, <1>3, <2>1 DEF Mark
  <2>5. OnTheWay'
    BY <1>2, <1>3, <1>7, <2>2, <2>3 DEF OnTheWay, Claimed, MarkedFinished
  <2> QED BY <1>2, <1>4, <2>1, <2>3, <2>4, <2>5, FilesStand
<1>8. CASE ClaimRename(m) /\ ~MarkedFinished(f)
  <2>1. UNCHANGED <<jobs, marks, closed>> /\ GoIdle(m)
    BY <1>8 DEF ClaimRename, MarkedFinished, Unregister
  <2>2. OnTheWay'
    BY <2>1, LoopAfter DEF OnTheWay
  <2> QED BY <1>1, <1>2, <1>4, <2>1, <2>2, FilesStand
<1>9. CASE ClaimEnqueue(m)
  <2>1. EnqueueSent(JobOf(f), TRUE) /\ Go(m, "queued") /\ UNCHANGED marks
    BY <1>9 DEF ClaimEnqueue, files
  <2>2. OnTheWay'
    BY <2>1, LoopAfter DEF OnTheWay
  <2>3. QueuedFolders' = QueuedFolders \cup {f} /\ UNCHANGED closed
    BY <1>1, <1>3, <2>1, EnqueueFolders
  <2>4. Claimed(f)
    BY <1>9 DEF ClaimEnqueue, Custody, OnTheWay
  <2>5. \A g \in InHand' : g \in InHand \/ Claimed(g)
    BY <1>2, <2>3, <2>4 DEF InHand
  <2> QED BY <1>1, <1>2, <2>1, <2>2, <2>3, <2>5, FilesStand
<1> QED BY <1>5, <1>6, <1>7, <1>8, <1>9 DEF ClaimStep

\* What the steps of a recovery preserve, up to the archive.
LEMMA RecoverCustody ==
  ASSUME OneLoop, RegistryFacts, TaskTypes, FileTypes, Custody, NEW m \in Monitors, RecoverStep(m)
  PROVE  Custody'
<1> DEFINE f == loop[m].folder
<1>1. /\ closed = FALSE /\ RegTypeOK
      /\ marks \in [Folders -> SUBSET {"fertig", "processing"}]
  BY DEF Custody, Setting, RegistryFacts, FileTypes
<1>2. UNCHANGED <<place, marks, worker, retry>>
  BY DEF RecoverStep, RecoverGivesUp, RecoverFails, RecoverRejected, RecoverBind,
     RecoverEnqueue,
         files, counts
<1>3. f \in Folders /\ Claimed(f) /\ f \notin pending
  BY DEF RecoverStep, RecoverGivesUp, RecoverFails, RecoverRejected, RecoverBind,
     RecoverEnqueue,
         Custody, OnTheWay, TaskTypes
<1>4. loop[m].at \in {"stalled", "bound"}
  BY DEF RecoverStep, RecoverGivesUp, RecoverFails, RecoverRejected, RecoverBind,
     RecoverEnqueue
<1>5. ASSUME UNCHANGED regVars, OnTheWay' PROVE Custody'
  <2>1. InHand' = InHand /\ UNCHANGED closed
    BY <1>2, <1>5 DEF InHand, QueuedFolders, FoldersOf, regVars
  <2> QED BY <1>1, <1>2, <1>5, <2>1, FilesStand
<1>6. CASE RecoverGivesUp(m) \/ RecoverRejected(m)
  <2>1. UNCHANGED regVars /\ GoIdle(m)
    BY <1>6 DEF RecoverGivesUp, RecoverRejected
  <2>2. OnTheWay'
    BY <2>1, LoopAfter DEF OnTheWay
  <2> QED BY <1>5, <2>1, <2>2
<1>7. CASE RecoverFails(m) \/ RecoverBind(m)
  <2>1. UNCHANGED regVars /\ (Go(m, "failed") \/ Go(m, "bound"))
    BY <1>7 DEF RecoverFails, RecoverBind
  <2>2. \A n \in Monitors : loop'[n].at \in {"failed", "bound"} /\ loop'[n].folder = f
    BY <2>1, LoopAfter
  <2>3. UNCHANGED <<pending, place, marks>>
    BY <1>2, <2>1 DEF regVars
  <2>4. OnTheWay'
    BY <1>3, <1>4, <2>2, <2>3 DEF OnTheWay, Claimed
  <2> QED BY <1>5, <2>1, <2>4
<1>8. CASE RecoverEnqueue(m)
  <2>1. GoIdle(m) /\ (EnqueueSent(JobOf(f), FALSE) \/ EnqueueRefused(JobOf(f), FALSE))
    BY <1>8 DEF RecoverEnqueue
  <2>2. OnTheWay'
    BY <2>1, LoopAfter DEF OnTheWay
  <2>3. CASE EnqueueSent(JobOf(f), FALSE)
    <3>1. QueuedFolders' = QueuedFolders \cup {f} /\ UNCHANGED closed
      BY <1>1, <1>3, <1>4, <2>3, EnqueueFolders
    <3>2. \A g \in InHand' : g \in InHand \/ Claimed(g)
      BY <1>2, <1>3, <1>4, <3>1 DEF InHand
    <3> QED BY <1>1, <1>2, <2>2, <3>1, <3>2, FilesStand
  <2>4. CASE EnqueueRefused(JobOf(f), FALSE)
    BY <1>5, <2>2, <2>4 DEF EnqueueRefused
  <2> QED BY <2>1, <2>3, <2>4
<1> QED BY <1>6, <1>7, <1>8 DEF RecoverStep

\* What a scan of one folder preserves.
LEMMA ScanCustody ==
  ASSUME OneLoop, RegistryFacts, TaskTypes, FileTypes, Custody, NEW m \in Monitors, NEW f \in Folders,
         ScanFolder(m, f)
  PROVE  Custody'
<1>1. marks \in [Folders -> SUBSET {"fertig", "processing"}]
  BY DEF FileTypes
<1>2. UNCHANGED <<regVars, place, worker, retry>>
  BY DEF ScanFolder, DiscardStale, GateRejects, GateAccepts, RecoverLook, files,
     counts, tasks
<1>3. InHand' = InHand /\ UNCHANGED <<closed, pending>>
  BY <1>2 DEF InHand, QueuedFolders, FoldersOf, regVars
<1>4. UNCHANGED marks \/ Mark(f, {"processing"})
  BY DEF ScanFolder, DiscardStale, GateRejects, GateAccepts, RecoverLook, files
<1>5. /\ marks' \in [Folders -> SUBSET {"fertig", "processing"}]
      /\ \A g : "processing" \in marks[g] => "processing" \in marks'[g]
      /\ Mark(f, {"processing"}) => "processing" \in marks'[f]
  <2>1. CASE UNCHANGED marks
    BY <1>1, <2>1 DEF Mark
  <2>2. CASE Mark(f, {"processing"})
    <3>1. {"processing"} \in SUBSET {"fertig", "processing"}
      OBVIOUS
    <3>2. \A g \in Folders : marks'[g] = IF g = f THEN {"processing"} ELSE marks[g]
      BY <1>1, <2>2 DEF Mark
    <3> QED BY <1>1, <2>2, <3>1, <3>2 DEF Mark
  <2> QED BY <1>4, <2>1, <2>2
<1>6. CASE DiscardStale(m, f) \/ GateRejects(m, f)
  <2>1. UNCHANGED loop
    BY <1>6 DEF DiscardStale, GateRejects, tasks
  <2>2. OnTheWay'
    <3>1. \A n \in Monitors :
             /\ loop[n].at \in {"claimed", "stalled", "bound"} =>
                   place[loop[n].folder] = "share" /\ "processing" \in marks[loop[n].folder]
             /\ loop[n].at \in {"stalled", "bound", "failed"} => loop[n].folder \notin pending
      BY DEF Custody, OnTheWay, Claimed
    <3> QED BY <1>2, <1>3, <1>5, <2>1, <3>1 DEF OnTheWay, Claimed
  <2> QED BY <1>2, <1>3, <1>5, <2>2, FilesStand
<1>7. CASE GateAccepts(m, f)
  <2>1. \A n \in Monitors : loop'[n].at = "gated"
    BY <1>7, LoopTakes DEF GateAccepts
  <2>2. OnTheWay'
    BY <2>1 DEF OnTheWay
  <2> QED BY <1>2, <1>3, <1>5, <2>2, FilesStand
<1>8. CASE RecoverLook(m, f)
  <2>1. \A n \in Monitors : loop'[n].at = "stalled" /\ loop'[n].folder = f
    <3>1. loop' = [loop EXCEPT ![m] = [at |-> "stalled", folder |-> f]]
      BY <1>8 DEF RecoverLook
    <3>2. \A n \in Monitors : loop'[n].at = "stalled" /\ loop'[n].folder = f
      BY <3>1 DEF OneLoop, TaskTypes
    <3> QED BY <3>2
  <2>2. f \notin pending /\ place[f] = "share" /\ "processing" \in marks[f]
    BY <1>8 DEF RecoverLook
  <2>3. OnTheWay'
    BY <1>2, <1>3, <1>5, <2>1, <2>2 DEF OnTheWay, Claimed
  <2> QED BY <1>2, <1>3, <1>5, <2>3, FilesStand
<1> QED BY <1>6, <1>7, <1>8 DEF ScanFolder

\* Custody survives a step that moves or unmarks one folder nobody holds any more.
LEMMA OneLeaves ==
  ASSUME Custody, UNCHANGED <<closed, retry>>, NEW f \in Folders, InHand \subseteq Folders,
         \A g \in Folders : g # f => place'[g] = place[g] /\ marks'[g] = marks[g],
         InHand' \subseteq InHand, f \notin InHand', OnTheWay'
  PROVE  Custody'
<1>1. Setting'
  BY DEF Custody, Setting
<1>2. QueuedIsClaimed'
  BY DEF Custody, QueuedIsClaimed
<1> QED BY <1>1, <1>2 DEF Custody

\* What is archived after a failure is in nobody's hands.
LEMMA ArchiveCustody ==
  ASSUME OneLoop, RegistryFacts, TaskTypes, FileTypes, Custody, NEW m \in Monitors, ArchiveFailed(m)
  PROVE  Custody'
<1> DEFINE f == loop[m].folder
<1>1. /\ f \in Folders /\ f \notin pending /\ closed = FALSE
      /\ place \in [Folders -> Archived \cup {"absent", "share"}]
      /\ marks \in [Folders -> SUBSET {"fertig", "processing"}]
  BY DEF ArchiveFailed, TaskTypes, Custody, OnTheWay, Setting, FileTypes
<1>2. InHand \subseteq pending /\ pending \subseteq Folders
  BY <1>1, Holders DEF InHand
<1>3. UNCHANGED <<regVars, worker, retry>> /\ ArchiveDirectory(f, "error") /\ GoIdle(m)
  BY DEF ArchiveFailed, counts
<1>4. InHand' = InHand /\ UNCHANGED closed
  BY <1>3 DEF InHand, QueuedFolders, FoldersOf, regVars
<1>5. OnTheWay'
  BY <1>3, LoopAfter DEF OnTheWay
<1>6. "error" \in Archived
  BY DEF Archived
<1>7. /\ place' \in [Folders -> Archived \cup {"absent", "share"}]
      /\ marks' \in [Folders -> SUBSET {"fertig", "processing"}]
      /\ \A g \in Folders : g # f => place'[g] = place[g] /\ marks'[g] = marks[g]
  BY <1>1, <1>3, <1>6, FilesKeepTypes
<1>8. f \notin InHand'
  BY <1>1, <1>2, <1>4
<1>9. InHand \subseteq Folders /\ InHand' \subseteq InHand
  BY <1>2, <1>4
<1> QED BY <1>1, <1>3, <1>4, <1>5, <1>7, <1>8, <1>9, OneLeaves

\* The worker's steps between two looks at the files.
LEMMA WorkerStands ==
  ASSUME RegistryFacts, TaskTypes, WorkerTypes, FileTypes, Custody, WorkerStep,
         ~Uploaded, ~AppendUnmark, ~WorkerArchive
  PROVE  Custody'
<1>1. /\ closed = FALSE /\ RegTypeOK
      /\ marks \in [Folders -> SUBSET {"fertig", "processing"}]
  BY DEF Custody, Setting, RegistryFacts, FileTypes
<1>2. UNCHANGED <<place, marks, loop, retry, closed>> /\ pending' \subseteq pending
  BY DEF WorkerStep, WorkerTake, WorkerUnresolved, WorkerStart, UploadEnds,
     WorkerLink,
         WorkerNotify, WorkerRecord, WorkerReport, WorkerDone, AppendStart, AppendTell,
         AppendEnds, Receive, Unregister, MarkActive, files, counts, regVars
<1>3. OnTheWay'
  <2>1. \A n \in Monitors :
           /\ loop[n].at \in {"claimed", "stalled", "bound"} =>
                 place[loop[n].folder] = "share" /\ "processing" \in marks[loop[n].folder]
           /\ loop[n].at \in {"stalled", "bound", "failed"} => loop[n].folder \notin pending
    BY DEF Custody, OnTheWay, Claimed
  <2> QED BY <1>2, <2>1 DEF OnTheWay, Claimed
<1>4. InHand' \subseteq InHand
  <2>1. CASE WorkerTake
    <3>1. worker' = [at |-> "taken", folder |-> Head(jobs).folder, outcome |-> "open"] /\ Receive
      BY <2>1 DEF WorkerTake
    <3>2. Head(jobs).folder \in QueuedFolders /\ QueuedFolders' \subseteq QueuedFolders
      BY <1>1, <3>1, ReceiveFolders
    <3> QED BY <3>1, <3>2 DEF InHand
  <2>2. CASE WorkerUnresolved \/ WorkerStart \/ UploadEnds \/ WorkerLink \/ WorkerNotify
             \/ WorkerRecord \/ WorkerReport \/ WorkerDone
             \/ AppendStart \/ AppendTell \/ AppendEnds
    <3>1. UNCHANGED jobs
      BY <2>2 DEF WorkerUnresolved, WorkerStart, UploadEnds, WorkerLink,
         WorkerNotify, WorkerRecord, WorkerReport, WorkerDone, AppendStart, AppendTell,
         AppendEnds, Unregister, MarkActive, regVars
    <3>2. \/ worker'.at \notin {"taken", "uploading", "appending"}
          \/ /\ worker.at \in {"taken", "uploading", "appending"}
             /\ worker'.folder = worker.folder
      <4>1. CASE WorkerUnresolved \/ WorkerDone
        BY <4>1 DEF WorkerUnresolved, WorkerDone, IdleWorker
      <4>2. CASE WorkerStart \/ UploadEnds \/ WorkerLink \/ WorkerNotify \/ WorkerRecord
                 \/ WorkerReport \/ AppendStart \/ AppendTell \/ AppendEnds
        <5>1. worker = [at |-> worker.at, folder |-> worker.folder, outcome |-> worker.outcome]
          BY DEF WorkerTypes, WorkerState
        <5>2. CASE WorkerStart \/ AppendStart
          BY <5>1, <5>2 DEF WorkerStart, AppendStart, At
        <5>4. CASE AppendTell \/ AppendEnds
          BY <5>1, <5>4 DEF AppendTell, AppendEnds, At
        <5>3. CASE UploadEnds \/ WorkerLink \/ WorkerNotify \/ WorkerRecord \/ WorkerReport
          BY <5>1, <5>3 DEF UploadEnds, WorkerLink, WorkerNotify, WorkerRecord,
             WorkerReport,
                            At, EndWith
        <5> QED BY <4>2, <5>2, <5>3, <5>4
      <4> QED BY <2>2, <4>1, <4>2
    <3>3. QueuedFolders' = QueuedFolders
      BY <3>1 DEF QueuedFolders, FoldersOf
    <3> QED BY <3>2, <3>3 DEF InHand
  <2> QED BY <2>1, <2>2 DEF WorkerStep
<1> QED BY <1>1, <1>2, <1>3, <1>4, FilesStand

\* The steps of the worker that take markers or move a folder.
LEMMA WorkerMoves ==
  ASSUME RegistryFacts, TaskTypes, WorkerTypes, FileTypes, Custody,
         Uploaded \/ AppendUnmark \/ WorkerArchive
  PROVE  Custody'
<1> DEFINE f == worker.folder
<1>1. /\ closed = FALSE
      /\ place \in [Folders -> Archived \cup {"absent", "share"}]
      /\ marks \in [Folders -> SUBSET {"fertig", "processing"}]
  BY DEF Custody, Setting, FileTypes
<1>2. /\ UNCHANGED <<pending, jobs, closed, loop, retry>>
      /\ worker.at # "idle" /\ worker'.at \in {"linking", "recorded", "archived"}
  BY DEF Uploaded, AppendUnmark, WorkerArchive, At, WorkerTypes, WorkerState, regVars
<1>3. /\ f \in Folders /\ f \in pending /\ f \notin QueuedFolders /\ InHand \subseteq Folders
      /\ \A n \in Monitors : loop[n].at = "claimed" => f # loop[n].folder
  <2>1. /\ QueuedFolders \subseteq pending /\ pending \subseteq Folders
        /\ worker.at # "idle" => worker.folder \in pending \ QueuedFolders
        /\ \A n \in Monitors :
              loop[n].at \in {"registered", "read", "claimed"} /\ worker.at # "idle"
                 => worker.folder # loop[n].folder
    BY <1>1, Holders
  <2> QED BY <1>2, <2>1 DEF InHand
<1>4. /\ place' \in [Folders -> Archived \cup {"absent", "share"}]
      /\ marks' \in [Folders -> SUBSET {"fertig", "processing"}]
      /\ \A g \in Folders : g # f => place'[g] = place[g] /\ marks'[g] = marks[g]
  <2>1. CASE Uploaded \/ AppendUnmark
    <3>1. RemoveMarkers(f) /\ UNCHANGED place
      BY <2>1 DEF Uploaded, AppendUnmark
    <3> QED BY <1>1, <1>3, <3>1, FilesKeepTypes
  <2>2. CASE WorkerArchive
    <3>1. worker.outcome \in Outcomes
      BY <2>2 DEF WorkerArchive, WorkerTypes
    <3>2. PICK to \in Archived : ArchiveDirectory(f, to)
      BY <2>2, <3>1 DEF WorkerArchive, Outcomes, Archived
    <3> QED BY <1>1, <1>3, <3>2, FilesKeepTypes
  <2> QED BY <2>1, <2>2
<1>5. InHand' = QueuedFolders
  BY <1>2 DEF InHand, QueuedFolders, FoldersOf
<1>6. OnTheWay'
  <2>1. \A n \in Monitors :
           /\ loop[n].at \in {"claimed", "stalled", "bound"} =>
                 /\ place[loop[n].folder] = "share" /\ "processing" \in marks[loop[n].folder]
                 /\ loop[n].folder \in Folders /\ loop[n].folder # f
           /\ loop[n].at \in {"stalled", "bound", "failed"} => loop[n].folder \notin pending
    BY <1>3 DEF Custody, OnTheWay, Claimed, TaskTypes
  <2> QED BY <1>2, <1>4, <2>1 DEF OnTheWay, Claimed
<1>7. InHand' \subseteq InHand /\ f \notin InHand'
  BY <1>3, <1>5 DEF InHand
<1> QED BY <1>1, <1>2, <1>3, <1>4, <1>6, <1>7, OneLeaves

\* The studio delivers where nothing is, and takes no marker away.
LEMMA StudioCustody ==
  ASSUME RegistryFacts, TaskTypes, FileTypes, Custody, Studio
  PROVE  Custody'
<1>1. PICK f \in Folders : Deliver(f) \/ RepairManifest(f) \/ Resignal(f)
  BY DEF Studio
<1>2. UNCHANGED <<regVars, loop, worker, retry>>
  BY <1>1 DEF Deliver, RepairManifest, Resignal, tasks
<1>3. InHand' = InHand /\ UNCHANGED <<closed, pending>>
  BY <1>2 DEF InHand, QueuedFolders, FoldersOf, regVars
<1>4. \A n \in Monitors :
         /\ loop[n].at \in {"claimed", "stalled", "bound"} =>
               /\ place[loop[n].folder] = "share" /\ "processing" \in marks[loop[n].folder]
               /\ loop[n].folder \in Folders
         /\ loop[n].at \in {"stalled", "bound", "failed"} => loop[n].folder \notin pending
  BY DEF Custody, OnTheWay, Claimed, TaskTypes
<1>5. CASE Deliver(f)
  <2>1. /\ place' = [place EXCEPT ![f] = "share"] /\ marks' = [marks EXCEPT ![f] = {"fertig"}]
        /\ place[f] = "absent"
    BY <1>5 DEF Deliver, Mark
  <2>2. \A g \in Folders : g # f => place'[g] = place[g] /\ marks'[g] = marks[g]
    BY <2>1 DEF FileTypes
  <2>3. f \notin InHand
    BY <2>1 DEF Custody, QueuedIsClaimed
  <2>4. OnTheWay'
    BY <1>2, <1>3, <1>4, <2>1, <2>2 DEF OnTheWay, Claimed
  <2>5. InHand \subseteq Folders
    BY Holders DEF InHand, Custody, Setting
  <2> QED BY <1>2, <1>3, <2>2, <2>3, <2>4, <2>5, OneLeaves
<1>6. CASE RepairManifest(f) \/ Resignal(f)
  <2>1. UNCHANGED place /\ \A g : "processing" \in marks[g] => "processing" \in marks'[g]
    <3>1. CASE RepairManifest(f)
      BY <3>1 DEF RepairManifest
    <3>2. CASE Resignal(f)
      BY <3>2 DEF Resignal, Mark, FileTypes
    <3> QED BY <1>6, <3>1, <3>2
  <2>2. OnTheWay'
    BY <1>2, <1>3, <1>4, <2>1 DEF OnTheWay, Claimed
  <2> QED BY <1>2, <1>3, <2>1, <2>2, FilesStand
<1> QED BY <1>1, <1>5, <1>6

\* After a restart nobody holds anything.
LEMMA CrashCustody == Crash => Custody'
<1> SUFFICES ASSUME Crash PROVE Custody'
  OBVIOUS
<1>1. /\ jobs' = <<>> /\ closed' = FALSE
      /\ loop' = [m \in Monitors |-> Idle] /\ worker' = IdleWorker /\ retry' = Idle
  BY DEF Crash, RegRestart
<1>2. InHand' = {}
  BY <1>1 DEF InHand, QueuedFolders, FoldersOf, IdleWorker
<1> QED BY <1>1, <1>2 DEF Custody, Setting, QueuedIsClaimed, OnTheWay, Idle

\* Every step preserves custody.
LEMMA CustodyStep ==
  ASSUME OneLoop, NoRetries, RegistryFacts, TaskTypes, WorkerTypes, FileTypes, CountTypes,
         Custody, [Next]_vars
  PROVE  Custody'
<1>1. retry.at = "idle" /\ \A f \in Folders : ~(retries[f] < MaxRetries)
  BY DEF NoRetries, Custody, Setting, Idle, CountTypes
<1>2. ~RetryStep /\ ~\E f \in Folders : RetryBegin(f)
  BY <1>1 DEF RetryStep, RetryGivesUp, RetryMove, RetryMark, RetryBind,
     RetryEnqueue, RetryRecord,
     RetryBegin
<1>3. CASE OperatorCancel \/ UNCHANGED vars
  <2>1. UNCHANGED <<regVars, place, marks, loop, worker, retry>>
    BY <1>3 DEF OperatorCancel, vars, files, tasks
  <2> QED BY <2>1 DEF Custody, Setting, QueuedIsClaimed, OnTheWay, Claimed, InHand, QueuedFolders,
                      FoldersOf, regVars
<1>4. CASE \E m \in Monitors : LoopStep(m)
  BY <1>4, ClaimCustody, RecoverCustody, ArchiveCustody DEF LoopStep
<1>5. CASE \E m \in Monitors : \E f \in Folders : ScanFolder(m, f)
  BY <1>5, ScanCustody
<1>6. CASE WorkerStep
  BY <1>6, WorkerStands, WorkerMoves
<1> QED BY <1>2, <1>3, <1>4, <1>5, <1>6, StudioCustody, CrashCustody DEF Next, Operator

\* While one monitor loop runs and nothing is put back from the archive, a queued folder is
\* on the share under its processing marker (service.rs: "Active / queued uploads still
\* have a processing marker"), through every restart.
THEOREM QueuedIsClaimedAlways ==
  ASSUME OneLoop, NoRetries
  PROVE  Spec => [](QueuedIsClaimed /\ Custody)
<1>1. Init => Custody
  <2> SUFFICES ASSUME Init PROVE Custody
    OBVIOUS
  <2>1. /\ jobs = <<>> /\ closed = FALSE
        /\ loop = [m \in Monitors |-> Idle] /\ worker = IdleWorker /\ retry = Idle
    BY DEF Init, RegInit
  <2>2. InHand = {}
    BY <2>1 DEF InHand, QueuedFolders, FoldersOf, IdleWorker
  <2> QED BY <2>1, <2>2 DEF Custody, Setting, QueuedIsClaimed, OnTheWay, Idle
<1>2. TypeOK => FileTypes /\ CountTypes
  BY DEF TypeOK, FileTypes, CountTypes
<1>3. RegistryFacts /\ TaskTypes /\ TypeOK /\ WorkerTypes /\ Custody /\ [Next]_vars => Custody'
  BY <1>2, CustodyStep
<1>4. Custody => QueuedIsClaimed
  BY DEF Custody
<1> QED
  BY <1>1, <1>3, <1>4, QueueFacts, TasksTyped, PipelineTypes, PTL DEF Spec,
     RegistryFacts

-----------------------------------------------------------------------------
(***************************************************************************)
(* The archive and the history.                                            *)
(***************************************************************************)

\* The folder a loop has read is on the share, and what it is about to archive there has
\* failed in the history.
LoopSettles ==
    \A m \in Monitors :
        /\ loop[m].at = "read" => place[loop[m].folder] = "share"
        /\ loop[m].at = "failed" =>
              place[loop[m].folder] = "share" /\ history[loop[m].folder] = "failed"

\* The folder of an ended upload is on the share until the worker itself archives it, with
\* the outcome in the history by then, if it has a row of its own.
WorkerSettles ==
    /\ worker.at \in {"linking", "notifying", "ended", "told", "recorded", "reported"} =>
          place[worker.folder] = "share"
    /\ worker.at \in {"appending", "told"} => worker.folder \in Routed
    /\ worker.at \in {"recorded", "reported"} =>
          worker.folder \in Routed \/ history[worker.folder] = worker.outcome

Agreed == ArchiveAgreesWithHistory /\ LoopSettles /\ WorkerSettles

\* A folder is held by the loop or by the worker, never by both.
LEMMA TwoHands ==
  ASSUME RegistryFacts, TaskTypes, WorkerTypes, Custody
  PROVE  \A m \in Monitors :
            /\ loop[m].at \in {"registered", "read", "claimed", "stalled", "bound", "failed"} =>
                  loop[m].folder \in Folders
            /\ loop[m].at \in {"registered", "read", "claimed", "stalled", "bound", "failed"}
                  /\ worker.at # "idle" => loop[m].folder # worker.folder
<1>1. /\ \A m \in Monitors : loop[m].at \in {"stalled", "bound", "failed"} =>
            loop[m].folder \notin pending
      /\ closed = FALSE
  BY DEF Custody, OnTheWay, Setting
<1>2. /\ worker.at # "idle" => worker.folder \in pending
      /\ \A m \in Monitors : loop[m].at \in {"registered", "read", "claimed"}
            /\ worker.at # "idle" => worker.folder # loop[m].folder
  BY <1>1, Holders
<1>3. \A m \in Monitors : loop[m].at # "idle" => loop[m].folder \in Folders
  BY DEF TaskTypes
<1> QED BY <1>1, <1>2, <1>3

\* What writing a status or recording a marker does to the history.
LEMMA HistoryWritten ==
  ASSUME ReportTypes, NEW f \in Folders
  PROVE  /\ \A s : WriteHistory(f, s) =>
               history'[f] = s /\ \A g \in Folders : g # f => history'[g] = history[g]
         /\ RecordMarker(f) => \A g \in Folders : g # f => history'[g] = history[g]
BY DEF ReportTypes, WriteHistory, RecordMarker

\* A status written for a folder on the share disagrees with no archive.
LEMMA WritesOnShare ==
  ASSUME Agreed, UNCHANGED place, NEW f \in Folders, place[f] = "share",
         \A g \in Folders : g # f => history'[g] = history[g],
         LoopSettles', WorkerSettles'
  PROVE  Agreed'
<1>1. ArchiveAgreesWithHistory'
  BY DEF Agreed, ArchiveAgreesWithHistory
<1> QED BY <1>1 DEF Agreed

\* What the steps of a claim preserve.
LEMMA ClaimAgrees ==
  ASSUME OneLoop, RegistryFacts, TaskTypes, WorkerTypes, ReportTypes, Custody, Agreed,
         NEW m \in Monitors, ClaimStep(m)
  PROVE  Agreed'
<1> DEFINE f == loop[m].folder
<1>1. UNCHANGED <<place, worker>>
  BY DEF ClaimStep, ClaimRegister, ClaimRead, ClaimGivesUp, LookupFails,
     ClaimRejected,
         ClaimRename, ClaimEnqueue, ClaimReport, files
<1>2. CASE ~LookupFails(m) /\ ~ClaimRename(m)
  <2>1. /\ UNCHANGED history
        /\ \/ Go(m, "registered") \/ GoIdle(m) \/ Go(m, "queued")
           \/ Go(m, "read") /\ place[f] = "share"
    BY <1>2 DEF ClaimStep, ClaimRegister, ClaimRead, ClaimGivesUp, ClaimRejected,
       ClaimEnqueue,
                ClaimReport, MarkedFinished, reports
  <2>2. \A n \in Monitors : \/ loop'[n].at \in {"registered", "idle", "queued"}
                            \/ loop'[n].at = "read" /\ place[loop'[n].folder] = "share"
    BY <2>1, LoopAfter
  <2>3. LoopSettles'
    BY <1>1, <2>2 DEF LoopSettles
  <2> QED BY <1>1, <2>1, <2>3 DEF Agreed, ArchiveAgreesWithHistory, WorkerSettles
<1>3. CASE LookupFails(m) \/ ClaimRename(m)
  <2>1. /\ loop[m].at = "read"
        /\ \/ WriteHistory(f, "failed") /\ Go(m, "failed")
           \/ RecordMarker(f) /\ (Go(m, "claimed") \/ GoIdle(m))
    BY <1>3 DEF LookupFails, ClaimRename
  <2>2. /\ f \in Folders /\ place[f] = "share"
        /\ worker.at # "idle" => worker.folder \in Folders /\ worker.folder # f
    BY <2>1, TwoHands DEF Agreed, LoopSettles, WorkerTypes
  <2>3. /\ \A g \in Folders : g # f => history'[g] = history[g]
        /\ WriteHistory(f, "failed") => history'[f] = "failed"
    BY <2>1, <2>2, HistoryWritten
  <2>4. \A n \in Monitors : \/ loop'[n].at \in {"claimed", "idle"}
                            \/ loop'[n].at = "failed" /\ loop'[n].folder = f
                                  /\ history'[f] = "failed"
    BY <2>1, <2>3, LoopAfter
  <2>5. LoopSettles'
    BY <1>1, <2>2, <2>4 DEF LoopSettles
  <2>6. WorkerSettles'
    BY <1>1, <2>2, <2>3 DEF Agreed, WorkerSettles
  <2> QED BY <1>1, <2>2, <2>3, <2>5, <2>6, WritesOnShare
<1> QED BY <1>2, <1>3

\* What the steps of a recovery and a scan preserve.
LEMMA RecoverAgrees ==
  ASSUME OneLoop, RegistryFacts, TaskTypes, WorkerTypes, ReportTypes, Custody, Agreed,
         NEW m \in Monitors, RecoverStep(m)
  PROVE  Agreed'
<1> DEFINE f == loop[m].folder
<1>1. UNCHANGED <<place, worker>>
  BY DEF RecoverStep, RecoverGivesUp, RecoverFails, RecoverRejected, RecoverBind,
     RecoverEnqueue,
         files
<1>2. CASE RecoverGivesUp(m) \/ RecoverRejected(m) \/ RecoverEnqueue(m)
  <2>1. GoIdle(m) /\ UNCHANGED history
    BY <1>2 DEF RecoverGivesUp, RecoverRejected, RecoverEnqueue, reports
  <2>2. LoopSettles'
    BY <2>1, LoopAfter DEF LoopSettles
  <2> QED BY <1>1, <2>1, <2>2 DEF Agreed, ArchiveAgreesWithHistory, WorkerSettles
<1>3. CASE RecoverFails(m) \/ RecoverBind(m)
  <2>1. /\ loop[m].at = "stalled"
        /\ \/ WriteHistory(f, "failed") /\ Go(m, "failed")
           \/ RecordMarker(f) /\ Go(m, "bound")
    BY <1>3 DEF RecoverFails, RecoverBind
  <2>2. /\ f \in Folders /\ place[f] = "share"
        /\ worker.at # "idle" => worker.folder \in Folders /\ worker.folder # f
    BY <2>1, TwoHands DEF Custody, OnTheWay, Claimed, WorkerTypes
  <2>3. /\ \A g \in Folders : g # f => history'[g] = history[g]
        /\ WriteHistory(f, "failed") => history'[f] = "failed"
    BY <2>1, <2>2, HistoryWritten
  <2>4. \A n \in Monitors : \/ loop'[n].at = "bound"
                            \/ loop'[n].at = "failed" /\ loop'[n].folder = f
                                  /\ history'[f] = "failed"
    BY <2>1, <2>3, LoopAfter
  <2>5. LoopSettles'
    BY <1>1, <2>2, <2>4 DEF LoopSettles
  <2>6. WorkerSettles'
    BY <1>1, <2>2, <2>3 DEF Agreed, WorkerSettles
  <2> QED BY <1>1, <2>2, <2>3, <2>5, <2>6, WritesOnShare
<1> QED BY <1>2, <1>3 DEF RecoverStep

LEMMA ScanAgrees ==
  ASSUME OneLoop, TaskTypes, Agreed, NEW m \in Monitors, NEW f \in Folders, ScanFolder(m, f)
  PROVE  Agreed'
<1>1. UNCHANGED <<place, worker, history>>
  BY DEF ScanFolder, DiscardStale, GateRejects, GateAccepts, RecoverLook, files,
     tasks, reports
<1>2. LoopSettles'
  <2>1. CASE UNCHANGED loop
    BY <1>1, <2>1 DEF Agreed, LoopSettles
  <2>2. CASE GateAccepts(m, f)
    <3>1. \A n \in Monitors : loop'[n].at = "gated"
      BY <2>2, LoopTakes DEF GateAccepts
    <3> QED BY <3>1 DEF LoopSettles
  <2>3. CASE RecoverLook(m, f)
    <3>1. \A n \in Monitors : loop'[n].at = "stalled"
      <4>1. loop' = [loop EXCEPT ![m] = [at |-> "stalled", folder |-> f]]
        BY <2>3 DEF RecoverLook
      <4> QED BY <4>1 DEF OneLoop, TaskTypes
    <3> QED BY <3>1 DEF LoopSettles
  <2> QED BY <2>1, <2>2, <2>3 DEF ScanFolder, DiscardStale, GateRejects, tasks
<1> QED BY <1>1, <1>2 DEF Agreed, ArchiveAgreesWithHistory, WorkerSettles

\* A failed folder goes to the error archive after its history says so.
LEMMA ArchiveFailedAgrees ==
  ASSUME OneLoop, RegistryFacts, TaskTypes, WorkerTypes, FileTypes, Custody, Agreed,
         NEW m \in Monitors, ArchiveFailed(m)
  PROVE  Agreed'
<1> DEFINE f == loop[m].folder
<1>1. /\ UNCHANGED <<worker, history>> /\ GoIdle(m) /\ loop[m].at = "failed"
      /\ ArchiveDirectory(f, "error")
  BY DEF ArchiveFailed, reports
<1>2. /\ f \in Folders /\ history[f] = "failed"
      /\ worker.at # "idle" => worker.folder \in Folders /\ worker.folder # f
  BY <1>1, TwoHands DEF Agreed, LoopSettles, WorkerTypes
<1>3. /\ \A g \in Folders : g # f => place'[g] = place[g]
      /\ place'[f] \in {place[f], "error"}
  BY <1>1, <1>2 DEF ArchiveDirectory, FileTypes
<1>4. ArchiveAgreesWithHistory'
  BY <1>1, <1>2, <1>3 DEF Agreed, ArchiveAgreesWithHistory
<1>5. LoopSettles'
  BY <1>1, LoopAfter DEF LoopSettles
<1>6. WorkerSettles'
  BY <1>1, <1>2, <1>3 DEF Agreed, WorkerSettles
<1> QED BY <1>4, <1>5, <1>6 DEF Agreed

\* The worker archives what it has recorded.
LEMMA WorkerAgrees ==
  ASSUME RegistryFacts, TaskTypes, WorkerTypes, FileTypes, ReportTypes, Custody, Agreed, WorkerStep
  PROVE  Agreed'
<1> DEFINE f == worker.folder
<1>1. /\ worker = [at |-> worker.at, folder |-> f, outcome |-> worker.outcome]
      /\ worker.at # "idle" => f \in Folders
      /\ worker.at \in {"ended", "recorded", "reported"} => worker.outcome \in Outcomes
  BY DEF WorkerTypes, WorkerState
<1>2. UNCHANGED loop
  BY DEF WorkerStep, WorkerTake, WorkerUnresolved, WorkerStart, Uploaded,
     UploadEnds, WorkerLink, WorkerNotify, WorkerRecord, WorkerReport, WorkerArchive, WorkerDone,
     AppendStart, AppendTell, AppendUnmark, AppendEnds, tasks
<1>3. \A m \in Monitors :
         loop[m].at \in {"read", "failed"} => /\ loop[m].folder \in Folders
                                              /\ worker.at # "idle" => loop[m].folder # f
  BY TwoHands
<1>4. worker.at \in {"taken", "uploading", "appending"} => place[f] = "share"
  BY DEF Custody, QueuedIsClaimed, InHand
<1>11. CASE AppendStart \/ AppendTell
  <2>1. /\ UNCHANGED <<place, history>> /\ worker.at \in {"taken", "appending"}
        /\ worker'.at \in {"appending", "told"} /\ worker'.folder = f
        /\ worker.at = "taken" => f \in Routed
    BY <1>1, <1>11 DEF AppendStart, AppendTell, At, files, reports
  <2>2. place[f] = "share" /\ f \in Routed
    BY <1>4, <2>1 DEF Agreed, WorkerSettles
  <2> QED BY <1>2, <2>1, <2>2 DEF Agreed, ArchiveAgreesWithHistory, LoopSettles, WorkerSettles
<1>12. CASE AppendUnmark \/ AppendEnds
  <2>1. /\ UNCHANGED <<place, history>> /\ worker.at \in {"appending", "told"}
        /\ worker'.at = "recorded" /\ worker'.folder = f
    BY <1>1, <1>12 DEF AppendUnmark, AppendEnds, files, reports
  <2>2. place[f] = "share" /\ f \in Routed
    BY <1>4, <2>1 DEF Agreed, WorkerSettles
  <2> QED BY <1>2, <2>1, <2>2 DEF Agreed, ArchiveAgreesWithHistory, LoopSettles, WorkerSettles
<1>5. CASE WorkerTake \/ WorkerDone
  <2>1. UNCHANGED <<place, history>> /\ worker'.at \in {"taken", "idle"}
    BY <1>5 DEF WorkerTake, WorkerDone, IdleWorker, files, reports
  <2> QED BY <1>2, <2>1 DEF Agreed, ArchiveAgreesWithHistory, LoopSettles, WorkerSettles
<1>6. CASE WorkerUnresolved \/ WorkerStart
  <2>1. /\ UNCHANGED place /\ worker'.at \in {"idle", "uploading"} /\ worker.at = "taken"
        /\ \E s : WriteHistory(f, s)
    BY <1>1, <1>6 DEF WorkerUnresolved, WorkerStart, IdleWorker, At, files
  <2>2. f \in Folders /\ place[f] = "share" /\ \A g \in Folders : g # f => history'[g] = history[g]
    BY <1>1, <1>4, <2>1, HistoryWritten
  <2>3. LoopSettles'
    BY <1>2, <1>3, <2>1, <2>2 DEF Agreed, LoopSettles
  <2>4. WorkerSettles'
    BY <2>1 DEF WorkerSettles
  <2> QED BY <2>1, <2>2, <2>3, <2>4, WritesOnShare
<1>7. CASE Uploaded \/ UploadEnds \/ WorkerLink \/ WorkerNotify
  <2>1. /\ UNCHANGED <<place, history>>
        /\ worker.at \in {"uploading", "linking", "notifying"} /\ worker'.folder = f
        /\ worker'.at \in {"linking", "notifying", "ended"}
    BY <1>1, <1>7 DEF Uploaded, UploadEnds, WorkerLink, WorkerNotify, At,
       EndWith, files, reports
  <2>2. place[f] = "share"
    BY <1>4, <2>1 DEF Agreed, WorkerSettles
  <2> QED BY <1>2, <2>1, <2>2 DEF Agreed, ArchiveAgreesWithHistory, LoopSettles, WorkerSettles
<1>8. CASE WorkerRecord
  <2>1. /\ UNCHANGED place /\ worker.at = "ended" /\ WriteHistory(f, worker.outcome)
        /\ worker'.at = "recorded" /\ worker'.folder = f /\ worker'.outcome = worker.outcome
    BY <1>1, <1>8 DEF WorkerRecord, At, files
  <2>2. /\ f \in Folders /\ place[f] = "share" /\ history'[f] = worker.outcome
        /\ \A g \in Folders : g # f => history'[g] = history[g]
    BY <1>1, <2>1, HistoryWritten DEF Agreed, WorkerSettles
  <2>3. LoopSettles'
    BY <1>2, <1>3, <2>1, <2>2 DEF Agreed, LoopSettles
  <2>4. WorkerSettles'
    BY <2>1, <2>2 DEF WorkerSettles
  <2> QED BY <2>1, <2>2, <2>3, <2>4, WritesOnShare
<1>9. CASE WorkerReport
  <2>1. /\ UNCHANGED <<place, history>> /\ worker.at = "recorded" /\ worker'.at = "reported"
        /\ worker'.folder = f /\ worker'.outcome = worker.outcome
    BY <1>1, <1>9 DEF WorkerReport, At, files
  <2> QED BY <1>2, <2>1 DEF Agreed, ArchiveAgreesWithHistory, LoopSettles, WorkerSettles
<1>10. CASE WorkerArchive
  <2>1. /\ UNCHANGED history /\ worker.at = "reported" /\ worker'.at = "archived"
        /\ ArchiveDirectory(f, IF worker.outcome = "failed" THEN "error" ELSE worker.outcome)
    BY <1>1, <1>10 DEF WorkerArchive, At, reports
  <2>2. /\ f \in Folders /\ worker.outcome \in Outcomes
        /\ f \in Routed \/ history[f] = worker.outcome
    BY <1>1, <2>1 DEF Agreed, WorkerSettles
  <2>3. /\ \A g \in Folders : g # f => place'[g] = place[g]
        /\ \/ f \in Routed \/ place'[f] = place[f]
           \/ place'[f] = "error" /\ history[f] = "failed"
           \/ place'[f] = history[f] /\ history[f] \in {"success", "cancelled"}
    BY <2>1, <2>2 DEF ArchiveDirectory, FileTypes, Outcomes
  <2>4. ArchiveAgreesWithHistory'
    BY <2>1, <2>2, <2>3 DEF Agreed, ArchiveAgreesWithHistory
  <2>5. LoopSettles'
    BY <1>2, <1>3, <2>1, <2>3 DEF Agreed, LoopSettles
  <2>6. WorkerSettles'
    BY <2>1 DEF WorkerSettles
  <2> QED BY <2>4, <2>5, <2>6 DEF Agreed
<1> QED BY <1>5, <1>6, <1>7, <1>8, <1>9, <1>10, <1>11, <1>12 DEF WorkerStep

\* Every step leaves archive and history in agreement.
LEMMA AgreedStep ==
  ASSUME OneLoop, NoRetries, RegistryFacts, TypeOK, TaskTypes, WorkerTypes, Custody, Agreed,
         [Next]_vars
  PROVE  Agreed'
<1>1. FileTypes /\ ReportTypes /\ CountTypes
  BY DEF TypeOK, FileTypes, ReportTypes, CountTypes
<1>2. ~RetryStep /\ ~\E f \in Folders : RetryBegin(f)
  <2>1. retry.at = "idle" /\ \A f \in Folders : ~(retries[f] < MaxRetries)
    BY <1>1 DEF NoRetries, Custody, Setting, Idle, CountTypes
  <2> QED BY <2>1 DEF RetryStep, RetryGivesUp, RetryMove, RetryMark, RetryBind, RetryEnqueue,
                      RetryRecord, RetryBegin
<1>3. CASE Studio
  <2>1. PICK f \in Folders : Deliver(f) \/ RepairManifest(f) \/ Resignal(f)
    BY <1>3 DEF Studio
  <2>2. /\ UNCHANGED <<history, loop, worker>>
        /\ \A g \in Folders : place'[g] \in {place[g], "share"}
    <3>1. UNCHANGED <<history, loop, worker>>
      BY <2>1 DEF Deliver, RepairManifest, Resignal, reports, tasks
    <3>2. UNCHANGED place \/ place' = [place EXCEPT ![f] = "share"]
      BY <2>1 DEF Deliver, RepairManifest, Resignal
    <3>3. DOMAIN place = Folders
      BY <1>1 DEF FileTypes
    <3> QED BY <3>1, <3>2, <3>3
  <2>3. ArchiveAgreesWithHistory'
    BY <2>2 DEF Agreed, ArchiveAgreesWithHistory
  <2>4. LoopSettles'
    <3>1. \A m \in Monitors : loop[m].at \in {"read", "failed"} => loop[m].folder \in Folders
      BY DEF TaskTypes
    <3> QED BY <2>2, <3>1 DEF Agreed, LoopSettles
  <2>5. WorkerSettles'
    <3>1. worker.at # "idle" => worker.folder \in Folders
      BY DEF WorkerTypes
    <3> QED BY <2>2, <3>1 DEF Agreed, WorkerSettles
  <2> QED BY <2>3, <2>4, <2>5 DEF Agreed
<1>4. CASE Crash
  <2>1. /\ UNCHANGED <<place, history>> /\ worker'.at = "idle"
        /\ \A n \in Monitors : loop'[n].at = "idle"
    BY <1>4 DEF Crash, files, reports, Idle, IdleWorker
  <2> QED BY <2>1 DEF Agreed, ArchiveAgreesWithHistory, LoopSettles, WorkerSettles
<1>5. CASE OperatorCancel \/ UNCHANGED vars
  <2>1. UNCHANGED <<place, history, loop, worker>>
    BY <1>5 DEF OperatorCancel, vars, files, reports, tasks
  <2> QED BY <2>1 DEF Agreed, ArchiveAgreesWithHistory, LoopSettles, WorkerSettles
<1>6. CASE \E m \in Monitors : LoopStep(m)
  BY <1>1, <1>6, ClaimAgrees, RecoverAgrees, ArchiveFailedAgrees DEF LoopStep
<1>7. CASE \E m \in Monitors : \E f \in Folders : ScanFolder(m, f)
  BY <1>7, ScanAgrees
<1>8. CASE WorkerStep
  BY <1>1, <1>8, WorkerAgrees
<1> QED BY <1>2, <1>3, <1>4, <1>5, <1>6, <1>7, <1>8 DEF Next, Operator

\* run_single_job, handle_marker_failure, archive_directory: with one monitor loop and no
\* retry, the archive a folder was moved to agrees with its history status, whatever failed,
\* was cancelled, sent again or cut off by a restart, and whether or not a move succeeded.
THEOREM ArchiveAlwaysAgrees ==
  ASSUME OneLoop, NoRetries
  PROVE  Spec => []ArchiveAgreesWithHistory
<1>1. Init => Agreed
  BY DEF Init, Agreed, ArchiveAgreesWithHistory, LoopSettles, WorkerSettles,
     Idle, IdleWorker
<1>2. RegistryFacts /\ TypeOK /\ TaskTypes /\ WorkerTypes /\ Custody /\ Agreed /\ [Next]_vars
         => Agreed'
  BY AgreedStep
<1>3. Agreed => ArchiveAgreesWithHistory
  BY DEF Agreed
<1> QED
  BY <1>1, <1>2, <1>3, QueuedIsClaimedAlways, QueueFacts, TasksTyped,
     PipelineTypes, PTL
  DEF Spec, RegistryFacts

-----------------------------------------------------------------------------
(***************************************************************************)
(* Messages to the customer, with the operator's retries.                  *)
(***************************************************************************)

\* The loop works on the folder and may still queue it or archive it.
LoopHas(f) ==
    \E m \in Monitors : /\ loop[m].at \in {"read", "claimed", "stalled", "bound", "failed"}
                        /\ loop[m].folder = f

\* A job of the folder is queued, being uploaded, or has ended without a message.
Loaded(f) ==
    \/ f \in InHand
    \/ /\ worker.at \in {"ended", "recorded", "reported"}
       /\ worker.folder = f /\ worker.outcome # "success"

\* The customer has been told of the appended folder, whose markers are removed next.
Told(f) == worker.at = "told" /\ worker.folder = f

\* A marker stands for a message to come.
Stands(f) == marks[f] # {} /\ ~Told(f)

\* The messages the folder may still cause where it is: the loop's and the job's, or the one
\* its marker or its job stands for.
Carried(f) ==
    IF LoopHas(f) THEN IF Loaded(f) THEN 2 ELSE 1
    ELSE IF Loaded(f) \/ Stands(f) THEN 1 ELSE 0

\* The message of an upload that is over, and not yet notified.
Owed(f) == IF worker.at \in {"linking", "notifying"} /\ worker.folder = f THEN 1 ELSE 0

\* A folder in the archive of the failed or cancelled had a request without a message: the
\* operator can put it back.
Returnable(f) == IF place[f] \in {"error", "cancelled"} THEN 1 ELSE 0

\* A retry on its way: the marker it writes may lead to an upload, and so may its own job.
RetryHas(f) ==
    IF retry.folder # f THEN 0
    ELSE IF retry.at = "moved" THEN 2
    ELSE IF retry.at \in {"found", "marked", "bound"} THEN 1 ELSE 0

Due(f) == Owed(f) + Carried(f) + Returnable(f) + RetryHas(f)

\* What a retry has found is in the archive until it moves it.
RetryFound == retry.at = "found" => place[retry.folder] \in {"error", "cancelled"}

\* Every signal, every retry and every marker that outlives its upload pays for one message,
\* sent or due.
Paid(f) == signals[f] + retries[f] + lingers[f]

Requests ==
    /\ closed = FALSE
    /\ RetryFound
    /\ \A f \in Folders : notified[f] + Due(f) <= Paid(f)

LEMMA DueNumbers ==
  \A f : /\ Owed(f) \in 0..1 /\ Carried(f) \in 0..2
         /\ Returnable(f) \in 0..1 /\ RetryHas(f) \in 0..2
BY DEF Owed, Carried, Returnable, RetryHas

\* A step that pays for no new request lets no folder owe more.
LEMMA NothingNew ==
  ASSUME CountTypes, Requests, UNCHANGED <<notified, signals, retries, lingers, closed>>,
         RetryFound', \A f \in Folders : Due(f)' <= Due(f)
  PROVE  Requests'
<1>1. \A f \in Folders : /\ notified[f] \in Nat /\ Paid(f) \in Nat /\ Paid(f)' = Paid(f)
                         /\ notified[f] + Due(f) <= Paid(f)
  BY BoundsAssumption DEF CountTypes, Requests, Paid
<1>2. \A f \in Folders : Due(f) \in Nat /\ Due(f)' \in Nat
  <2>1. \A f : Due(f) \in Nat
    BY DueNumbers DEF Due
  <2>2. \A f : /\ Owed(f)' \in 0..1 /\ Carried(f)' \in 0..2
               /\ Returnable(f)' \in 0..1 /\ RetryHas(f)' \in 0..2
    BY DEF Owed, Carried, Returnable, RetryHas
  <2> QED BY <2>1, <2>2 DEF Due
<1>3. \A f \in Folders : notified'[f] + Due(f)' <= Paid(f)'
  BY <1>1, <1>2
<1> QED BY <1>3 DEF Requests

\* A step that pays for a new request of folder f lets f owe one message more, and no other.
LEMMA NewRequest ==
  ASSUME CountTypes, Requests, UNCHANGED <<notified, closed>>, RetryFound', NEW f \in Folders,
         \/ signals' = [signals EXCEPT ![f] = @ + 1] /\ UNCHANGED <<retries, lingers>>
         \/ retries' = [retries EXCEPT ![f] = @ + 1] /\ UNCHANGED <<signals, lingers>>
         \/ lingers' = [lingers EXCEPT ![f] = @ + 1] /\ UNCHANGED <<signals, retries>>,
         \A g \in Folders : g # f => Due(g)' <= Due(g),
         Due(f)' <= Due(f) + 1
  PROVE  Requests'
<1>1. \A g \in Folders : notified[g] \in Nat /\ Paid(g) \in Nat /\ notified[g] + Due(g) <= Paid(g)
  BY BoundsAssumption DEF CountTypes, Requests, Paid
<1>2. \A g \in Folders : Due(g) \in Nat /\ Due(g)' \in Nat
  <2>1. \A g : Due(g) \in Nat
    BY DueNumbers DEF Due
  <2>2. \A g : /\ Owed(g)' \in 0..1 /\ Carried(g)' \in 0..2
               /\ Returnable(g)' \in 0..1 /\ RetryHas(g)' \in 0..2
    BY DEF Owed, Carried, Returnable, RetryHas
  <2> QED BY <2>1, <2>2 DEF Due
<1>3. /\ Paid(f)' = Paid(f) + 1
      /\ \A g \in Folders : g # f => Paid(g)' = Paid(g)
  <2>1. \A g \in Folders : signals[g] \in Nat /\ retries[g] \in Nat /\ lingers[g] \in Nat
    BY BoundsAssumption DEF CountTypes
  <2> QED BY <2>1 DEF CountTypes, Paid
<1>4. \A g \in Folders : notified'[g] + Due(g)' <= Paid(g)'
  <2> SUFFICES ASSUME NEW g \in Folders
               PROVE  notified'[g] + Due(g)' <= Paid(g)'
    OBVIOUS
  <2>1. CASE g = f
    BY <1>1, <1>2, <1>3, <2>1
  <2>2. CASE g # f
    BY <1>1, <1>2, <1>3, <2>2
  <2> QED BY <2>1, <2>2
<1> QED BY <1>4 DEF Requests

\* How what a folder carries changes with the hands it is in.
LEMMA CarriedChanges ==
  ASSUME NEW f
  PROVE  /\ (LoopHas(f)' => LoopHas(f)) /\ (Loaded(f)' => Loaded(f))
               /\ (Stands(f)' => Stands(f)) => Carried(f)' <= Carried(f)
         /\ ~Loaded(f)' /\ Stands(f) => Carried(f)' <= Carried(f)
         /\ LoopHas(f) /\ ~LoopHas(f)' => Carried(f)' <= Carried(f)
         /\ (LoopHas(f)' => LoopHas(f)) => Carried(f)' <= Carried(f) + 1
         /\ (LoopHas(f)' => LoopHas(f)) /\ Loaded(f) => Carried(f)' <= Carried(f)
         /\ (LoopHas(f)' => LoopHas(f)) /\ Loaded(f) /\ ~Loaded(f)' /\ ~Stands(f)'
               => Carried(f)' + 1 <= Carried(f)
         /\ LoopHas(f) /\ ~LoopHas(f)' /\ (Loaded(f)' => Loaded(f)) /\ ~Stands(f)'
               => Carried(f)' + 1 <= Carried(f)
BY DEF Carried

\* What the only loop has after one of its steps.
LEMMA LoopHasAfter ==
  ASSUME OneLoop, TaskTypes, NEW m \in Monitors, NEW f
  PROVE  /\ LoopHas(f) <=> /\ loop[m].at \in {"read", "claimed", "stalled", "bound", "failed"}
                           /\ loop[m].folder = f
         /\ \A at : Go(m, at) =>
               (LoopHas(f)' <=> /\ at \in {"read", "claimed", "stalled", "bound", "failed"}
                                /\ loop[m].folder = f)
         /\ GoIdle(m) => ~LoopHas(f)'
         /\ \A at, g : loop' = [loop EXCEPT ![m] = [at |-> at, folder |-> g]] =>
               (LoopHas(f)' <=> /\ at \in {"read", "claimed", "stalled", "bound", "failed"}
                                /\ g = f)
<1>1. \A n \in Monitors : n = m
  BY DEF OneLoop
<1>2. LoopHas(f) <=> /\ loop[m].at \in {"read", "claimed", "stalled", "bound", "failed"}
                     /\ loop[m].folder = f
  BY <1>1 DEF LoopHas
<1>3. LoopHas(f)' <=> /\ loop'[m].at \in {"read", "claimed", "stalled", "bound", "failed"}
                      /\ loop'[m].folder = f
  BY <1>1 DEF LoopHas
<1>4. ASSUME NEW at, Go(m, at) PROVE loop'[m].at = at /\ loop'[m].folder = loop[m].folder
  BY <1>4, LoopAfter
<1>5. GoIdle(m) => loop'[m].at = "idle"
  BY LoopAfter
<1>6. ASSUME NEW at, NEW g, loop' = [loop EXCEPT ![m] = [at |-> at, folder |-> g]]
      PROVE  loop'[m].at = at /\ loop'[m].folder = g
  BY <1>6, LoopTakes
<1> QED BY <1>2, <1>3, <1>4, <1>5, <1>6

\* What a folder owes changes with what it carries, where everything else stands.
LEMMA CarriedDecides ==
  ASSUME CountTypes, Requests,
         UNCHANGED <<notified, signals, retries, lingers, closed, place, worker, retry>>,
         \A f \in Folders : Carried(f)' <= Carried(f)
  PROVE  Requests'
<1>1. RetryFound'
  BY DEF Requests, RetryFound
<1>2. \A f : Owed(f)' = Owed(f) /\ Returnable(f)' = Returnable(f) /\ RetryHas(f)' = RetryHas(f)
  BY DEF Owed, Returnable, RetryHas
<1>3. \A f : Carried(f) \in 0..2 /\ Carried(f)' \in 0..2
  BY DEF Carried
<1>4. \A f \in Folders : Due(f)' <= Due(f)
  BY <1>2, <1>3, DueNumbers DEF Due
<1> QED BY <1>1, <1>4, NothingNew

\* Nothing is taken from the channel or put into it: the jobs are the same.
LEMMA SameLoad ==
  ASSUME UNCHANGED <<jobs, worker>>
  PROVE  \A f : Loaded(f)' = Loaded(f)
BY DEF Loaded, InHand, QueuedFolders, FoldersOf

\* The worker does nothing: a marker stands for a message unless it is taken.
LEMMA SameStand ==
  ASSUME UNCHANGED worker
  PROVE  \A f : /\ Told(f)' = Told(f)
                /\ (marks'[f] # {} => marks[f] # {}) => (Stands(f)' => Stands(f))
BY DEF Told, Stands

\* A claim turns a marker into a job.
LEMMA ClaimRequests ==
  ASSUME OneLoop, RegistryFacts, TaskTypes, FileTypes, CountTypes, Requests,
         NEW m \in Monitors, ClaimStep(m)
  PROVE  Requests'
<1> DEFINE f == loop[m].folder
<1>1. /\ UNCHANGED <<notified, signals, retries, lingers, closed, place, worker, retry>>
      /\ loop[m].at # "idle" /\ RegTypeOK
  BY DEF ClaimStep, ClaimRegister, ClaimRead, ClaimGivesUp, LookupFails,
     ClaimRejected,
         ClaimRename, ClaimEnqueue, ClaimReport, files, counts, Register, Unregister, EnqueueSent,
         regVars, RegistryFacts
<1>2. f \in Folders
  BY <1>1 DEF TaskTypes
<1>3. CASE ClaimRegister(m) \/ ClaimGivesUp(m) \/ LookupFails(m) \/ ClaimRejected(m)
           \/ ClaimReport(m)
  <2>1. /\ UNCHANGED <<jobs, marks>>
        /\ \/ Go(m, "registered") \/ GoIdle(m)
           \/ loop[m].at = "read" /\ Go(m, "failed")
    BY <1>3 DEF ClaimRegister, ClaimGivesUp, LookupFails, ClaimRejected,
       ClaimReport, Register,
                Unregister, regVars, files
  <2>2. \A g \in Folders : LoopHas(g)' => LoopHas(g)
    BY <2>1, LoopHasAfter
  <2>3. \A g \in Folders : Carried(g)' <= Carried(g)
    BY <1>1, <2>1, <2>2, SameLoad, SameStand, CarriedChanges
  <2> QED BY <1>1, <2>3, CarriedDecides
<1>4. CASE ClaimRead(m)
  <2>1. /\ UNCHANGED <<jobs, marks>> /\ loop[m].at = "registered"
        /\ (Go(m, "read") /\ marks[f] # {}) \/ GoIdle(m)
    BY <1>4 DEF ClaimRead, MarkedFinished, Unregister, regVars, files
  <2>2. ~Loaded(f) /\ ~Told(f)
    <3>1. /\ QueuedFolders \subseteq pending /\ f \notin QueuedFolders
          /\ worker.at # "idle" => worker.folder # f
      BY <2>1, Holders DEF Requests
    <3> QED BY <3>1 DEF Loaded, InHand, Told
  <2>3. \A g \in Folders : LoopHas(g)' => g = f /\ Stands(f)
    <3>1. \A g \in Folders : LoopHas(g)' => g = f /\ marks[f] # {}
      BY <2>1, LoopHasAfter
    <3> QED BY <2>2, <3>1 DEF Stands
  <2>4. \A g \in Folders : Carried(g)' <= Carried(g)
    BY <1>1, <2>1, <2>2, <2>3, SameLoad, SameStand, CarriedChanges
  <2> QED BY <1>1, <2>4, CarriedDecides
<1>5. CASE ClaimRename(m)
  <2>1. /\ UNCHANGED jobs /\ loop[m].at = "read" /\ (Go(m, "claimed") \/ GoIdle(m))
        /\ UNCHANGED marks \/ (marks[f] # {} /\ Mark(f, {"processing"}))
    BY <1>5 DEF ClaimRename, MarkedFinished, Unregister, regVars
  <2>2. \A g \in Folders : LoopHas(g)' => LoopHas(g)
    BY <2>1, LoopHasAfter
  <2>3. \A g \in Folders : marks'[g] # {} => marks[g] # {}
    BY <2>1 DEF Mark, FileTypes
  <2>4. \A g \in Folders : Carried(g)' <= Carried(g)
    BY <1>1, <2>1, <2>2, <2>3, SameLoad, SameStand, CarriedChanges
  <2> QED BY <1>1, <2>4, CarriedDecides
<1>6. CASE ClaimEnqueue(m)
  <2>1. /\ EnqueueSent(JobOf(f), TRUE) /\ loop[m].at = "claimed" /\ Go(m, "queued")
        /\ UNCHANGED marks
    BY <1>6 DEF ClaimEnqueue, files
  <2>2. QueuedFolders' = QueuedFolders \cup {f}
    BY <1>1, <1>2, <2>1, EnqueueFolders
  <2>3. LoopHas(f) /\ \A g \in Folders : ~LoopHas(g)'
    BY <1>2, <2>1, LoopHasAfter
  <2>4. \A g \in Folders : g # f => (Loaded(g)' => Loaded(g))
    BY <1>1, <2>2 DEF Loaded, InHand
  <2>5. \A g \in Folders : Carried(g)' <= Carried(g)
    BY <1>1, <2>1, <2>3, <2>4, SameStand, CarriedChanges
  <2> QED BY <1>1, <2>5, CarriedDecides
<1> QED BY <1>3, <1>4, <1>5, <1>6 DEF ClaimStep

\* So does a recovery.
LEMMA RecoverRequests ==
  ASSUME OneLoop, RegistryFacts, TaskTypes, CountTypes, Requests, NEW m \in Monitors,
         RecoverStep(m)
  PROVE  Requests'
<1> DEFINE f == loop[m].folder
<1>1. /\ UNCHANGED <<notified, signals, retries, lingers, closed, place, marks, worker, retry>>
      /\ loop[m].at \in {"stalled", "bound"} /\ RegTypeOK
  BY DEF RecoverStep, RecoverGivesUp, RecoverFails, RecoverRejected, RecoverBind,
     RecoverEnqueue,
         files, counts, EnqueueSent, EnqueueRefused, regVars, RegistryFacts
<1>2. f \in Folders
  BY <1>1 DEF TaskTypes
<1>3. CASE UNCHANGED jobs
  <2>1. Go(m, "failed") \/ Go(m, "bound") \/ GoIdle(m)
    BY DEF RecoverStep, RecoverGivesUp, RecoverFails, RecoverRejected,
       RecoverBind,
           RecoverEnqueue
  <2>2. \A g \in Folders : LoopHas(g)' => LoopHas(g)
    BY <1>1, <2>1, LoopHasAfter
  <2>3. \A g \in Folders : Carried(g)' <= Carried(g)
    BY <1>1, <1>3, <2>2, SameLoad, SameStand, CarriedChanges
  <2> QED BY <1>1, <2>3, CarriedDecides
<1>4. CASE RecoverEnqueue(m) /\ EnqueueSent(JobOf(f), FALSE)
  <2>1. GoIdle(m)
    BY <1>4 DEF RecoverEnqueue
  <2>2. QueuedFolders' = QueuedFolders \cup {f}
    BY <1>1, <1>2, <1>4, EnqueueFolders
  <2>3. LoopHas(f) /\ \A g \in Folders : ~LoopHas(g)'
    BY <1>1, <1>2, <2>1, LoopHasAfter
  <2>4. \A g \in Folders : g # f => (Loaded(g)' => Loaded(g))
    BY <1>1, <2>2 DEF Loaded, InHand
  <2>5. \A g \in Folders : Carried(g)' <= Carried(g)
    BY <1>1, <2>3, <2>4, SameStand, CarriedChanges
  <2> QED BY <1>1, <2>5, CarriedDecides
<1>5. UNCHANGED jobs \/ (RecoverEnqueue(m) /\ EnqueueSent(JobOf(f), FALSE))
  BY DEF RecoverStep, RecoverGivesUp, RecoverFails, RecoverRejected, RecoverBind,
     RecoverEnqueue,
         EnqueueRefused, regVars
<1> QED BY <1>3, <1>4, <1>5

\* A scan finds work only where a marker is.
LEMMA ScanRequests ==
  ASSUME OneLoop, RegistryFacts, TaskTypes, FileTypes, CountTypes, Requests,
         NEW m \in Monitors, NEW f \in Folders, ScanFolder(m, f)
  PROVE  Requests'
<1>1. /\ UNCHANGED <<notified, signals, retries, lingers, closed, jobs, pending, place, worker,
                   retry>>
      /\ loop[m].at = "idle"
      /\ UNCHANGED marks \/ (marks[f] # {} /\ Mark(f, {"processing"}))
  BY DEF ScanFolder, DiscardStale, GateRejects, GateAccepts, RecoverLook, files,
     counts, tasks,
         regVars
<1>2. \A g \in Folders : marks'[g] # {} => marks[g] # {}
  BY <1>1 DEF Mark, FileTypes
<1>3. CASE RecoverLook(m, f)
  <2>1. /\ f \notin pending /\ marks[f] # {}
        /\ loop' = [loop EXCEPT ![m] = [at |-> "stalled", folder |-> f]]
    BY <1>3 DEF RecoverLook
  <2>2. ~Loaded(f) /\ Stands(f)
    <3>1. /\ QueuedFolders \subseteq pending
          /\ worker.at # "idle" => worker.folder \in pending
      BY Holders DEF Requests
    <3> QED BY <2>1, <3>1 DEF Loaded, InHand, Told, Stands
  <2>3. \A g \in Folders : LoopHas(g)' => g = f
    BY <2>1, LoopHasAfter
  <2>4. \A g \in Folders : Carried(g)' <= Carried(g)
    BY <1>1, <1>2, <2>1, <2>2, <2>3, SameLoad, SameStand, CarriedChanges
  <2> QED BY <1>1, <2>4, CarriedDecides
<1>4. CASE ~RecoverLook(m, f)
  <2>1. \/ UNCHANGED loop
        \/ loop' = [loop EXCEPT ![m] = [at |-> "gated", folder |-> f]]
    BY <1>4 DEF ScanFolder, DiscardStale, GateRejects, GateAccepts, tasks
  <2>2. \A g \in Folders : LoopHas(g)' => LoopHas(g)
    <3>1. CASE UNCHANGED loop
      BY <3>1 DEF LoopHas
    <3>2. CASE loop' = [loop EXCEPT ![m] = [at |-> "gated", folder |-> f]]
      <4>1. \A n \in Monitors : loop'[n].at = "gated"
        BY <3>2 DEF OneLoop, TaskTypes
      <4> QED BY <4>1 DEF LoopHas
    <3> QED BY <2>1, <3>1, <3>2
  <2>3. \A g \in Folders : Carried(g)' <= Carried(g)
    BY <1>1, <1>2, <2>2, SameLoad, SameStand, CarriedChanges
  <2> QED BY <1>1, <2>3, CarriedDecides
<1> QED BY <1>3, <1>4

\* What the loop archives can be put back, and is no longer carried.
LEMMA ArchiveRequests ==
  ASSUME OneLoop, TaskTypes, FileTypes, CountTypes, Requests, NEW m \in Monitors,
         NEW f \in Folders, f = loop[m].folder, ArchiveFailed(m)
  PROVE  Requests'
<1>1. /\ UNCHANGED <<notified, signals, retries, closed, jobs, worker, retry>>
      /\ loop[m].at = "failed" /\ GoIdle(m) /\ ArchiveDirectory(f, "error")
  BY DEF ArchiveFailed, regVars
<1>2. f \in Folders /\ f = loop[m].folder
  OBVIOUS
<1>3. LoopHas(f) /\ \A g \in Folders : ~LoopHas(g)'
  BY <1>1, <1>2, LoopHasAfter
<1>4. CASE UNCHANGED <<place, marks, lingers>>
  <2>1. \A g \in Folders : Carried(g)' <= Carried(g)
    BY <1>1, <1>3, <1>4, SameLoad, SameStand, CarriedChanges
  <2> QED BY <1>1, <1>4, <2>1, CarriedDecides
<1>5. CASE /\ place[f] = "share" /\ place' = [place EXCEPT ![f] = "error"]
           /\ RemoveMarkers(f)
  <2>1. /\ place'[f] = "error" /\ \A g \in Folders : g # f => place'[g] = place[g]
        /\ \A g \in Folders : g # f => marks'[g] = marks[g]
        /\ \/ marks'[f] = {} /\ UNCHANGED lingers
           \/ Linger(f)
    BY <1>2, <1>5 DEF RemoveMarkers, Mark, FileTypes
  <2>2. /\ Carried(f)' <= Carried(f)
        /\ marks'[f] = {} => Carried(f)' + 1 <= Carried(f)
        /\ \A g \in Folders : g # f => Carried(g)' <= Carried(g)
    BY <1>1, <1>2, <1>3, <2>1, SameLoad, SameStand, CarriedChanges DEF Stands
  <2>3. /\ Returnable(f)' = 1 /\ Returnable(f) = 0
        /\ \A g \in Folders : g # f => Returnable(g)' = Returnable(g)
    BY <1>5, <2>1 DEF Returnable
  <2>4. \A g \in Folders : Owed(g)' = Owed(g) /\ RetryHas(g)' = RetryHas(g)
    BY <1>1 DEF Owed, RetryHas
  <2>5. \A g \in Folders : Carried(g) \in 0..2 /\ Carried(g)' \in 0..2
    BY DEF Carried
  <2>6. /\ \A g \in Folders : g # f => Due(g)' <= Due(g)
        /\ Due(f)' <= Due(f) + 1
        /\ marks'[f] = {} => Due(f)' <= Due(f)
    BY <2>2, <2>3, <2>4, <2>5, DueNumbers DEF Due
  <2>7. RetryFound'
    BY <1>1, <1>5, <2>1 DEF Requests, RetryFound, TaskTypes
  <2>8. CASE marks'[f] = {} /\ UNCHANGED lingers
    BY <1>1, <2>6, <2>7, <2>8, NothingNew
  <2>9. CASE Linger(f)
    BY <1>1, <2>6, <2>7, <2>9, NewRequest DEF Linger
  <2> QED BY <2>1, <2>8, <2>9
<1> QED BY <1>1, <1>4, <1>5 DEF ArchiveDirectory

\* The worker, holding folder f: an upload takes the marker, a message settles what is owed,
\* and a job that ended without one leaves the folder to be put back.
LEMMA WorkerRequests ==
  ASSUME RegistryFacts, TaskTypes, WorkerTypes, FileTypes, CountTypes, Requests,
         NEW f \in Folders, f = worker.folder, WorkerStep, worker.at # "idle"
  PROVE  Requests'
<1>1. /\ worker = [at |-> worker.at, folder |-> f, outcome |-> worker.outcome]
      /\ worker.at \in {"ended", "recorded", "reported"} => worker.outcome \in Outcomes
      /\ f \notin QueuedFolders
  BY Holders DEF WorkerTypes, WorkerState, Requests
<1>2. /\ UNCHANGED <<jobs, closed, loop, retry, signals, retries>>
      /\ ~WorkerTake
  BY DEF WorkerStep, WorkerTake, WorkerUnresolved, WorkerStart, Uploaded,
     UploadEnds, WorkerLink, WorkerNotify, WorkerRecord, WorkerReport, WorkerArchive, WorkerDone,
     AppendStart, AppendTell, AppendUnmark, AppendEnds, Unregister, MarkActive, regVars, counts
<1>3. QueuedFolders' = QueuedFolders
  BY <1>2 DEF QueuedFolders, FoldersOf
<1>4. \A g : LoopHas(g)' = LoopHas(g) /\ RetryHas(g)' = RetryHas(g)
  BY <1>2 DEF LoopHas, RetryHas
<1>5. \A g : Carried(g) \in 0..2 /\ Carried(g)' \in 0..2
  BY DEF Carried
<1>6. CASE WorkerUnresolved \/ WorkerStart \/ WorkerRecord \/ WorkerReport \/ WorkerDone
           \/ AppendStart \/ AppendEnds
  <2>1. /\ UNCHANGED <<place, marks, notified, lingers>> /\ worker.at # "told"
        /\ \/ worker'.at = "idle"
           \/ /\ worker.at = "taken" /\ worker'.at \in {"uploading", "appending"}
              /\ worker'.folder = f
           \/ worker.at = "appending" /\ worker'.at = "recorded" /\ worker'.folder = f
           \/ /\ worker.at \in {"ended", "recorded"} /\ worker'.at \in {"recorded", "reported"}
              /\ worker'.folder = f /\ worker'.outcome = worker.outcome
    <3>1. WorkerUnresolved \/ WorkerDone
             => UNCHANGED <<files, counts>> /\ worker.at # "told" /\ worker'.at = "idle"
      BY DEF WorkerUnresolved, WorkerDone, IdleWorker
    <3>2. WorkerStart \/ AppendStart
             => /\ UNCHANGED <<files, counts>> /\ worker.at = "taken" /\ worker'.folder = f
                /\ worker'.at \in {"uploading", "appending"}
      BY <1>1 DEF WorkerStart, AppendStart, At
    <3>3. WorkerRecord \/ WorkerReport
             => /\ UNCHANGED <<files, counts>> /\ worker.at \in {"ended", "recorded"}
                /\ worker'.at \in {"recorded", "reported"} /\ worker'.folder = f
                /\ worker'.outcome = worker.outcome
      BY <1>1 DEF WorkerRecord, WorkerReport, At
    <3>4. AppendEnds => /\ UNCHANGED <<files, counts>> /\ worker.at = "appending"
                        /\ worker'.at = "recorded" /\ worker'.folder = f
      BY <1>1 DEF AppendEnds
    <3> QED BY <1>6, <3>1, <3>2, <3>3, <3>4 DEF files, counts
  <2>2. \A g : /\ Owed(g)' <= Owed(g) /\ Owed(g)' \in 0..1 /\ Returnable(g)' = Returnable(g)
               /\ Loaded(g)' => Loaded(g)
               /\ Stands(g)' => Stands(g)
    BY <1>3, <2>1 DEF Owed, Returnable, Loaded, InHand, Stands, Told
  <2>3. \A g : Carried(g)' <= Carried(g)
    BY <1>4, <2>1, <2>2, CarriedChanges
  <2>4. \A g : Due(g)' <= Due(g)
    BY <1>4, <1>5, <2>2, <2>3, DueNumbers DEF Due
  <2>5. RetryFound'
    BY <1>2, <2>1 DEF Requests, RetryFound
  <2> QED BY <1>2, <2>1, <2>4, <2>5, NothingNew
<1>7. CASE Uploaded \/ AppendUnmark
  <2>1. /\ UNCHANGED <<place, notified>> /\ RemoveMarkers(f) /\ worker'.folder = f
        /\ \/ worker.at = "uploading" /\ worker'.at = "linking"
           \/ /\ worker.at \in {"appending", "told"} /\ worker'.at = "recorded"
              /\ worker'.outcome = "success"
    BY <1>1, <1>7 DEF Uploaded, AppendUnmark, At
  <2>2. /\ \A g \in Folders : g # f => marks'[g] = marks[g]
        /\ \/ marks'[f] = {} /\ UNCHANGED lingers
           \/ Linger(f)
    BY <2>1 DEF RemoveMarkers, Mark, FileTypes
  <2>3. /\ ~Loaded(f)' /\ Owed(f) = 0 /\ Owed(f)' \in 0..1
        /\ Loaded(f) \/ (Told(f) /\ ~Loaded(f) /\ Owed(f)' = 0)
        /\ \A g : g # f => (Loaded(g)' => Loaded(g)) /\ Owed(g)' = Owed(g) /\ Told(g)' = Told(g)
        /\ \A g : Returnable(g)' = Returnable(g)
    BY <1>1, <1>3, <2>1 DEF Loaded, InHand, Owed, Returnable, Told
  <2>4. /\ \A g \in Folders : g # f => Carried(g)' <= Carried(g)
        /\ marks'[f] = {} => Carried(f)' <= Carried(f)
        /\ marks'[f] = {} /\ Loaded(f) => Carried(f)' + 1 <= Carried(f)
        /\ Loaded(f) => Carried(f)' <= Carried(f)
        /\ Carried(f)' <= Carried(f) + 1
    BY <1>4, <2>2, <2>3, CarriedChanges DEF Stands
  <2>5. /\ \A g \in Folders : g # f => Due(g)' <= Due(g)
        /\ Due(f)' <= Due(f) + 1
        /\ marks'[f] = {} => Due(f)' <= Due(f)
    BY <1>4, <1>5, <2>3, <2>4, DueNumbers DEF Due
  <2>6. RetryFound'
    BY <1>2, <2>1 DEF Requests, RetryFound
  <2>7. CASE marks'[f] = {} /\ UNCHANGED lingers
    BY <1>2, <2>1, <2>5, <2>6, <2>7, NothingNew
  <2>8. CASE Linger(f)
    BY <1>2, <2>1, <2>5, <2>6, <2>8, NewRequest DEF Linger
  <2> QED BY <2>2, <2>7, <2>8
<1>8. CASE UploadEnds \/ WorkerLink
  <2>1. /\ UNCHANGED <<place, marks, notified, lingers>> /\ worker'.folder = f
        /\ \/ worker.at = "uploading" /\ worker'.at = "ended"
           \/ worker.at = "linking" /\ worker'.at \in {"ended", "notifying"}
    BY <1>1, <1>8 DEF UploadEnds, WorkerLink, At, EndWith, files, counts
  <2>2. \A g : /\ Returnable(g)' = Returnable(g)
               /\ Owed(g)' <= Owed(g) /\ Owed(g)' \in 0..1
               /\ (Loaded(g)' => Loaded(g)) \/ Owed(g)' + 1 = Owed(g)
               /\ Stands(g)' => Stands(g)
    BY <1>3, <2>1 DEF Owed, Returnable, Loaded, InHand, Stands, Told
  <2>3. \A g : /\ (Loaded(g)' => Loaded(g)) => Carried(g)' <= Carried(g)
               /\ Carried(g)' <= Carried(g) + 1
    BY <1>4, <2>2, CarriedChanges
  <2>4. \A g : Due(g)' <= Due(g)
    BY <1>4, <1>5, <2>2, <2>3, DueNumbers DEF Due
  <2>5. RetryFound'
    BY <1>2, <2>1 DEF Requests, RetryFound
  <2> QED BY <1>2, <2>1, <2>4, <2>5, NothingNew
<1>9. CASE WorkerNotify \/ AppendTell
  <2>1. /\ UNCHANGED <<place, marks, lingers>> /\ notified' = [notified EXCEPT ![f] = @ + 1]
        /\ worker'.folder = f
        /\ \/ worker.at = "notifying" /\ worker'.at = "ended" /\ worker'.outcome = "success"
           \/ worker.at = "appending" /\ worker'.at = "told"
    BY <1>1, <1>9 DEF WorkerNotify, AppendTell, EndWith, At, files
  <2>2. /\ \/ Owed(f) = 1 /\ Owed(f)' = 0
           \/ Owed(f) = 0 /\ Owed(f)' = 0 /\ Loaded(f) /\ ~Loaded(f)' /\ ~Stands(f)'
        /\ \A g : /\ g # f => Owed(g)' = Owed(g)
                  /\ Returnable(g)' = Returnable(g) /\ (Loaded(g)' => Loaded(g))
                  /\ Stands(g)' => Stands(g)
    BY <1>1, <1>3, <2>1 DEF Owed, Returnable, Loaded, InHand, Stands, Told
  <2>3. /\ \A g : Carried(g)' <= Carried(g)
        /\ Loaded(f) /\ ~Loaded(f)' /\ ~Stands(f)' => Carried(f)' + 1 <= Carried(f)
    BY <1>4, <2>1, <2>2, CarriedChanges
  <2>4. \A g \in Folders :
           /\ Due(g) \in Nat /\ Due(g)' \in Nat
           /\ g # f => Due(g)' <= Due(g)
           /\ Due(f)' + 1 <= Due(f)
    BY <1>4, <1>5, <2>2, <2>3, DueNumbers DEF Due
  <2>5. \A g \in Folders : notified[g] \in Nat /\ Paid(g) \in Nat /\ notified[g] + Due(g) <= Paid(g)
    BY BoundsAssumption DEF CountTypes, Requests, Paid
  <2>6. notified'[f] = notified[f] + 1 /\ \A g \in Folders : g # f => notified'[g] = notified[g]
    BY <2>1 DEF CountTypes
  <2>7. \A g \in Folders : notified'[g] + Due(g)' <= Paid(g)'
    <3> SUFFICES ASSUME NEW g \in Folders
                 PROVE  notified'[g] + Due(g)' <= Paid(g)'
      OBVIOUS
    <3>1. Paid(g)' = Paid(g)
      BY <1>2, <2>1 DEF Paid
    <3> QED BY <2>4, <2>5, <2>6, <3>1
  <2>8. RetryFound'
    BY <1>2, <2>1 DEF Requests, RetryFound
  <2> QED BY <1>2, <2>7, <2>8 DEF Requests
<1>10. CASE WorkerArchive
  <2> DEFINE to == IF worker.outcome = "failed" THEN "error" ELSE worker.outcome
  <2>1. /\ UNCHANGED notified /\ ArchiveDirectory(f, to) /\ worker.outcome \in Outcomes
        /\ worker.at = "reported" /\ worker'.at = "archived"
    BY <1>1, <1>10 DEF WorkerArchive, At
  <2>2. /\ \A g : Owed(g)' = 0 /\ Owed(g) = 0 /\ (Loaded(g)' => Loaded(g)) /\ ~Told(g) /\ ~Told(g)'
        /\ ~Loaded(f)' /\ (Loaded(f) \/ worker.outcome = "success")
    BY <1>1, <1>3, <2>1 DEF Owed, Loaded, InHand, Told
  <2>3. CASE UNCHANGED <<place, marks, lingers>>
    <3>1. \A g : Returnable(g)' = Returnable(g)
      BY <2>3 DEF Returnable
    <3>2. \A g : Carried(g)' <= Carried(g)
      BY <1>4, <2>2, <2>3, CarriedChanges DEF Stands
    <3>3. \A g : Due(g)' <= Due(g)
      BY <1>4, <1>5, <2>2, <3>1, <3>2, DueNumbers DEF Due
    <3>4. RetryFound'
      BY <1>2, <2>3 DEF Requests, RetryFound
    <3> QED BY <1>2, <2>1, <2>3, <3>3, <3>4, NothingNew
  <2>4. CASE place[f] = "share" /\ place' = [place EXCEPT ![f] = to] /\ RemoveMarkers(f)
    <3>1. /\ place'[f] = to /\ \A g \in Folders : g # f => place'[g] = place[g]
          /\ \A g \in Folders : g # f => marks'[g] = marks[g]
          /\ marks'[f] # {} => marks[f] # {}
          /\ \/ marks'[f] = {} /\ UNCHANGED lingers
             \/ Linger(f)
      BY <2>4 DEF RemoveMarkers, Mark, FileTypes
    <3>2. /\ Returnable(f) = 0 /\ Returnable(f)' \in 0..1
          /\ worker.outcome = "success" => Returnable(f)' = 0
          /\ \A g \in Folders : g # f => Returnable(g)' = Returnable(g)
      BY <2>4, <3>1 DEF Returnable
    <3>3. /\ \A g \in Folders : Carried(g)' <= Carried(g)
          /\ Loaded(f) /\ marks'[f] = {} => Carried(f)' + 1 <= Carried(f)
      BY <1>4, <2>2, <3>1, CarriedChanges DEF Stands
    <3>4. /\ \A g \in Folders : g # f => Due(g)' <= Due(g)
          /\ Due(f)' <= Due(f) + 1
          /\ marks'[f] = {} => Due(f)' <= Due(f)
      BY <1>4, <1>5, <2>2, <3>2, <3>3, DueNumbers DEF Due
    <3>5. RetryFound'
      BY <1>2, <2>4, <3>1 DEF Requests, RetryFound, TaskTypes
    <3>6. CASE marks'[f] = {} /\ UNCHANGED lingers
      BY <1>2, <2>1, <3>4, <3>5, <3>6, NothingNew
    <3>7. CASE Linger(f)
      BY <1>2, <2>1, <3>4, <3>5, <3>7, NewRequest DEF Linger
    <3> QED BY <3>1, <3>6, <3>7
  <2> QED BY <2>1, <2>3, <2>4 DEF ArchiveDirectory
<1> QED BY <1>2, <1>6, <1>7, <1>8, <1>9, <1>10 DEF WorkerStep

\* A job that leaves the channel is with the worker.
LEMMA TakeRequests ==
  ASSUME RegTypeOK, TaskTypes, CountTypes, Requests, WorkerTake
  PROVE  Requests'
<1>1. /\ UNCHANGED <<notified, signals, retries, lingers, closed, place, marks, loop, retry>>
      /\ worker.at = "idle" /\ worker'.at = "taken" /\ worker'.folder = Head(jobs).folder
  BY DEF WorkerTake, Receive, files, counts
<1>2. Head(jobs).folder \in QueuedFolders /\ QueuedFolders' \subseteq QueuedFolders
  BY ReceiveFolders DEF WorkerTake
<1>3. \A f : /\ LoopHas(f)' = LoopHas(f) /\ (Loaded(f)' => Loaded(f))
             /\ Owed(f)' = Owed(f) /\ Returnable(f)' = Returnable(f) /\ RetryHas(f)' = RetryHas(f)
             /\ Stands(f)' = Stands(f)
  BY <1>1, <1>2 DEF LoopHas, Loaded, InHand, Owed, Returnable, RetryHas, Stands, Told
<1>4. \A f : Carried(f)' <= Carried(f) /\ Carried(f)' \in 0..2
  <2>1. \A f : Carried(f)' \in 0..2
    BY DEF Carried
  <2> QED BY <1>1, <1>3, <2>1, CarriedChanges
<1>5. \A f : Due(f)' <= Due(f)
  BY <1>3, <1>4, DueNumbers DEF Due
<1>6. RetryFound'
  BY <1>1 DEF Requests, RetryFound
<1> QED BY <1>1, <1>5, <1>6, NothingNew

\* Every signal of the studio pays for the marker it writes.
LEMMA StudioRequests ==
  ASSUME TaskTypes, FileTypes, CountTypes, Requests, Studio
  PROVE  Requests'
<1>1. PICK f \in Folders : Deliver(f) \/ RepairManifest(f) \/ Resignal(f)
  BY DEF Studio
<1>2. UNCHANGED <<regVars, loop, worker, retry, notified, retries, lingers>>
  BY <1>1 DEF Deliver, RepairManifest, Resignal, tasks, counts
<1>3. \A g : LoopHas(g)' = LoopHas(g) /\ Loaded(g)' = Loaded(g)
             /\ Owed(g)' = Owed(g) /\ RetryHas(g)' = RetryHas(g)
  BY <1>2, SameLoad DEF LoopHas, Owed, RetryHas, regVars
<1>4. CASE RepairManifest(f)
  <2>1. UNCHANGED <<place, marks, signals>>
    BY <1>4 DEF RepairManifest, counts
  <2>2. \A g : Carried(g)' <= Carried(g)
    BY <1>2, <1>3, <2>1, SameStand, CarriedChanges
  <2> QED BY <1>2, <2>1, <2>2, CarriedDecides DEF regVars
<1>5. CASE Deliver(f) \/ Resignal(f)
  <2>1. /\ signals' = [signals EXCEPT ![f] = @ + 1]
        /\ \E x : marks' = [marks EXCEPT ![f] = x]
        /\ UNCHANGED place \/ (place[f] = "absent" /\ place' = [place EXCEPT ![f] = "share"])
    BY <1>5 DEF Deliver, Resignal, Mark
  <2>2. /\ \A g \in Folders : g # f => marks'[g] = marks[g] /\ place'[g] = place[g]
        /\ place'[f] = place[f] \/ (place[f] = "absent" /\ place'[f] = "share")
    BY <2>1 DEF FileTypes
  <2>3. \A g \in Folders : Returnable(g)' = Returnable(g)
    BY <2>2 DEF Returnable
  <2>4. /\ \A g \in Folders : g # f => Carried(g)' <= Carried(g)
        /\ Carried(f)' <= Carried(f) + 1
        /\ \A g : Carried(g)' \in 0..2
    <3>1. \A g : Carried(g)' \in 0..2
      BY DEF Carried
    <3> QED BY <1>2, <1>3, <2>2, <3>1, SameStand, CarriedChanges
  <2>5. (\A g \in Folders : g # f => Due(g)' <= Due(g)) /\ Due(f)' <= Due(f) + 1
    BY <1>3, <2>3, <2>4, DueNumbers DEF Due
  <2>6. RetryFound'
    BY <1>2, <2>2 DEF Requests, RetryFound, TaskTypes
  <2> QED BY <1>2, <2>1, <2>5, <2>6, NewRequest DEF regVars
<1> QED BY <1>1, <1>4, <1>5

\* A retry begins with a folder that had a request without a message, which pays for the
\* marker it writes; the retry itself pays for its own job.
LEMMA RetryBeginRequests ==
  ASSUME TaskTypes, CountTypes, Requests, NEW f \in Folders, RetryBegin(f)
  PROVE  Requests'
<1>1. /\ UNCHANGED <<regVars, place, marks, loop, worker, notified, signals, lingers>>
      /\ retry.at = "idle" /\ retry' = [at |-> "found", folder |-> f]
      /\ retries' = [retries EXCEPT ![f] = @ + 1] /\ place[f] \in {"error", "cancelled"}
  BY DEF RetryBegin, files
<1>2. \A g : /\ LoopHas(g)' = LoopHas(g) /\ Loaded(g)' = Loaded(g)
             /\ Owed(g)' = Owed(g) /\ Returnable(g)' = Returnable(g)
  BY <1>1, SameLoad DEF LoopHas, Owed, Returnable, regVars
<1>3. \A g : /\ RetryHas(g) = 0 /\ RetryHas(g)' \in 0..1
             /\ g # f => RetryHas(g)' = 0
  BY <1>1 DEF RetryHas
<1>4. \A g : Carried(g)' <= Carried(g) /\ Carried(g)' \in 0..2
  <2>1. \A g : Carried(g)' \in 0..2
    BY DEF Carried
  <2> QED BY <1>1, <1>2, <2>1, SameStand, CarriedChanges
<1>5. (\A g \in Folders : g # f => Due(g)' <= Due(g)) /\ Due(f)' <= Due(f) + 1
  BY <1>2, <1>3, <1>4, DueNumbers DEF Due
<1>6. RetryFound'
  BY <1>1 DEF RetryFound
<1> QED BY <1>1, <1>5, <1>6, NewRequest DEF regVars

LEMMA RetryRequests ==
  ASSUME RegTypeOK, TaskTypes, FileTypes, CountTypes, Requests,
         NEW f \in Folders, f = retry.folder, RetryStep
  PROVE  Requests'
<1>1. /\ UNCHANGED <<loop, worker, notified, signals, retries, lingers, closed>>
      /\ retry = [at |-> retry.at, folder |-> f]
  <2>1. UNCHANGED <<loop, worker, notified, signals, retries, lingers, closed>>
    BY DEF RetryStep, RetryGivesUp, RetryMove, RetryMark, RetryBind,
       RetryEnqueue, RetryRecord,
           EnqueueSent, EnqueueRefused, regVars, counts
  <2> QED BY <2>1 DEF TaskTypes, RetryState
<1>2. RetryEnqueue => /\ retry.at = "bound"
                      /\ \/ retry'.at = "queued" /\ retry'.folder = f
                         \/ retry'.at = "idle"
  <2> SUFFICES ASSUME RetryEnqueue
               PROVE  /\ retry.at = "bound"
                      /\ \/ retry'.at = "queued" /\ retry'.folder = f
                         \/ retry'.at = "idle"
    OBVIOUS
  <2>1. retry.at = "bound" /\ (retry' = [retry EXCEPT !.at = "queued"] \/ retry' = Idle)
    BY Zenon DEF RetryEnqueue
  <2> QED BY <1>1, <2>1 DEF Idle
<1>3. \A g : /\ LoopHas(g)' = LoopHas(g) /\ Owed(g)' = Owed(g)
             /\ Carried(g) \in 0..2 /\ Carried(g)' \in 0..2
             /\ g # f => RetryHas(g)' = 0 \/ RetryHas(g)' = RetryHas(g)
  <2>1. retry'.folder = f \/ retry'.at = "idle"
    BY <1>1, <1>2 DEF RetryStep, RetryGivesUp, RetryMove, RetryMark, RetryBind,
       RetryRecord, Idle
  <2> QED BY <1>1, <2>1 DEF LoopHas, Owed, Carried, RetryHas
<1>4. CASE RetryGivesUp \/ RetryBind \/ RetryRecord \/ (RetryEnqueue /\ UNCHANGED jobs)
  <2>1. UNCHANGED <<jobs, place, marks>>
    BY <1>4 DEF RetryGivesUp, RetryBind, RetryRecord, RetryEnqueue, files, regVars
  <2>2. retry'.at \in {"idle", "queued"} \/ (retry.at = "marked" /\ retry'.at = "bound")
    BY <1>1, <1>4, <1>2 DEF RetryGivesUp, RetryBind, RetryRecord, Idle
  <2>3. \A g : RetryHas(g)' <= RetryHas(g) /\ RetryHas(g)' \in 0..2
    <3>1. RetryHas(f)' <= RetryHas(f)
      BY <1>1, <2>2 DEF RetryHas
    <3>2. \A g : RetryHas(g) \in 0..2 /\ RetryHas(g)' \in 0..2
      BY DEF RetryHas
    <3> QED BY <1>3, <3>1, <3>2
  <2>4. \A g : Loaded(g)' = Loaded(g) /\ Returnable(g)' = Returnable(g)
    BY <1>1, <2>1, SameLoad DEF Returnable
  <2>5. \A g : Carried(g)' <= Carried(g)
    BY <1>1, <1>3, <2>1, <2>4, SameStand, CarriedChanges
  <2>6. \A g : Due(g)' <= Due(g)
    BY <1>3, <2>3, <2>4, <2>5, DueNumbers DEF Due
  <2>7. RetryFound'
    BY <2>2 DEF RetryFound
  <2> QED BY <1>1, <2>6, <2>7, NothingNew
<1>5. CASE RetryMove
  <2>1. /\ UNCHANGED <<jobs, marks>> /\ retry.at = "found" /\ retry'.at = "moved"
        /\ place' = [place EXCEPT ![f] = "share"] /\ place[f] \in {"error", "cancelled"}
        /\ retry'.folder = f
    BY <1>1, <1>5 DEF RetryMove, regVars, Requests, RetryFound
  <2>2. place'[f] = "share" /\ \A g \in Folders : g # f => place'[g] = place[g]
    BY <2>1 DEF FileTypes
  <2>3. /\ Returnable(f) = 1 /\ Returnable(f)' = 0 /\ RetryHas(f) = 1 /\ RetryHas(f)' = 2
        /\ \A g \in Folders : g # f => Returnable(g)' = Returnable(g)
    BY <1>1, <2>1, <2>2 DEF Returnable, RetryHas
  <2>4. \A g : Carried(g)' <= Carried(g)
    BY <1>1, <1>3, <2>1, SameLoad, SameStand, CarriedChanges
  <2>5. \A g \in Folders : Due(g)' <= Due(g)
    BY <1>3, <2>3, <2>4, DueNumbers DEF Due
  <2>6. RetryFound'
    BY <2>1 DEF RetryFound
  <2> QED BY <1>1, <2>5, <2>6, NothingNew
<1>6. CASE RetryMark
  <2>1. /\ UNCHANGED <<jobs, place>> /\ retry.at = "moved" /\ retry'.at = "marked"
        /\ retry'.folder = f /\ (UNCHANGED marks \/ Mark(f, marks[f] \cup {"processing"}))
    BY <1>1, <1>6 DEF RetryMark, regVars
  <2>2. \A g \in Folders : g # f => marks'[g] = marks[g]
    BY <2>1 DEF Mark, FileTypes
  <2>3. /\ RetryHas(f) = 2 /\ RetryHas(f)' = 1
        /\ \A g : Returnable(g)' = Returnable(g)
    BY <1>1, <2>1 DEF Returnable, RetryHas
  <2>4. /\ Carried(f)' <= Carried(f) + 1
        /\ \A g \in Folders : g # f => Carried(g)' <= Carried(g)
    BY <1>1, <1>3, <2>1, <2>2, SameLoad, SameStand, CarriedChanges
  <2>5. \A g \in Folders : Due(g)' <= Due(g)
    BY <1>3, <2>3, <2>4, DueNumbers DEF Due
  <2>6. RetryFound'
    BY <2>1 DEF RetryFound
  <2> QED BY <1>1, <2>5, <2>6, NothingNew
<1>7. CASE RetryEnqueue /\ EnqueueSent(JobOf(f), FALSE)
  <2>1. /\ UNCHANGED <<place, marks>> /\ retry.at = "bound"
        /\ retry'.at \in {"queued", "idle"}
    BY <1>7, <1>2 DEF RetryEnqueue, files
  <2>2. QueuedFolders' = QueuedFolders \cup {f}
    BY <1>7, EnqueueFolders
  <2>3. /\ RetryHas(f) = 1 /\ RetryHas(f)' = 0
        /\ \A g : Returnable(g)' = Returnable(g) /\ (g # f => (Loaded(g)' => Loaded(g)))
    BY <1>1, <2>1, <2>2 DEF Returnable, RetryHas, Loaded, InHand
  <2>4. /\ Carried(f)' <= Carried(f) + 1
        /\ \A g \in Folders : g # f => Carried(g)' <= Carried(g)
    BY <1>1, <1>3, <2>1, <2>3, SameStand, CarriedChanges
  <2>5. \A g \in Folders : Due(g)' <= Due(g)
    BY <1>3, <2>3, <2>4, DueNumbers DEF Due
  <2>6. RetryFound'
    BY <2>1 DEF RetryFound
  <2> QED BY <1>1, <2>5, <2>6, NothingNew
<1>8. RetryEnqueue => UNCHANGED jobs \/ EnqueueSent(JobOf(f), FALSE)
  BY DEF RetryEnqueue, EnqueueRefused, regVars
<1> QED BY <1>4, <1>5, <1>6, <1>7, <1>8 DEF RetryStep

\* A restart forgets what was on its way, and keeps the markers: those of a folder that was
\* appended and told of stand for one message more.
LEMMA CrashRequests ==
  ASSUME FileTypes, CountTypes, WorkerTypes, Requests, Crash
  PROVE  Requests'
<1> DEFINE g == worker.folder
           Outlives == worker.at = "told" /\ marks[g] # {}
<1>1. /\ UNCHANGED <<place, marks, signals, notified, retries>> /\ jobs' = <<>>
      /\ closed' = FALSE /\ worker'.at = "idle" /\ retry'.at = "idle"
      /\ \A m \in Monitors : loop'[m].at = "idle"
      /\ IF Outlives THEN Linger(g) ELSE UNCHANGED lingers
  BY DEF Crash, RegRestart, files, Idle, IdleWorker
<1>2. \A f : ~LoopHas(f)' /\ ~Loaded(f)' /\ Owed(f)' = 0 /\ RetryHas(f)' = 0
             /\ Returnable(f)' = Returnable(f) /\ Carried(f)' \in 0..2
  BY <1>1 DEF LoopHas, Loaded, InHand, QueuedFolders, FoldersOf, Owed, RetryHas,
     Returnable, Carried
<1>3. \A f : Carried(f)' <= 1 /\ ((~Outlives \/ f # g) => Carried(f)' <= Carried(f))
  <2>1. \A f : (~Outlives \/ f # g) => (Stands(f)' => Stands(f))
    BY <1>1 DEF Stands, Told
  <2> QED BY <1>2, <2>1 DEF Carried
<1>4. \A f \in Folders : /\ Due(f)' <= Due(f) + 1
                         /\ (~Outlives \/ f # g) => Due(f)' <= Due(f)
  BY <1>2, <1>3, DueNumbers DEF Due
<1>5. RetryFound'
  BY <1>1 DEF RetryFound
<1>6. CASE Outlives
  <2>1. g \in Folders
    BY <1>6 DEF WorkerTypes
  <2>2. lingers' = [lingers EXCEPT ![g] = @ + 1]
    BY <1>1, <1>6 DEF Linger
  <2> QED BY <1>1, <1>4, <1>5, <1>6, <2>1, <2>2, NewRequest DEF Requests
<1>7. CASE ~Outlives
  BY <1>1, <1>4, <1>5, <1>7, NothingNew DEF Requests
<1> QED BY <1>6, <1>7

\* Every step keeps the account.
LEMMA RequestsStep ==
  ASSUME OneLoop, RegistryFacts, TypeOK, TaskTypes, WorkerTypes, Requests, [Next]_vars
  PROVE  Requests'
<1>1. FileTypes /\ CountTypes /\ RegTypeOK
  BY DEF TypeOK, FileTypes, CountTypes
<1>2. CASE OperatorCancel \/ UNCHANGED vars
  <2>1. UNCHANGED <<jobs, closed, place, marks, loop, worker, retry, notified, signals, retries,
                    lingers>>
    BY <1>2 DEF OperatorCancel, vars, regVars, files, tasks, counts
  <2>2. \A f : LoopHas(f)' = LoopHas(f) /\ Loaded(f)' = Loaded(f)
    BY <2>1, SameLoad DEF LoopHas
  <2>3. \A f \in Folders : Carried(f)' <= Carried(f)
    BY <2>1, <2>2, SameStand, CarriedChanges
  <2> QED BY <1>1, <2>1, <2>3, CarriedDecides
<1>3. CASE \E m \in Monitors : LoopStep(m)
  <2>1. PICK m \in Monitors : LoopStep(m)
    BY <1>3
  <2>2. ArchiveFailed(m) => loop[m].folder \in Folders
    BY DEF ArchiveFailed, TaskTypes
  <2> QED BY <1>1, <2>1, <2>2, ClaimRequests, RecoverRequests, ArchiveRequests DEF LoopStep
<1>4. CASE \E m \in Monitors : \E f \in Folders : ScanFolder(m, f)
  BY <1>1, <1>4, ScanRequests
<1>5. CASE WorkerStep
  <2>1. CASE WorkerTake
    BY <1>1, <2>1, TakeRequests
  <2>2. CASE worker.at # "idle"
    BY <1>1, <1>5, <2>2, WorkerRequests DEF WorkerTypes
  <2>3. WorkerTake \/ worker.at # "idle"
    BY <1>5 DEF WorkerStep, WorkerUnresolved, WorkerStart, Uploaded, UploadEnds,
       WorkerLink,
       WorkerNotify, WorkerRecord, WorkerReport, WorkerArchive, WorkerDone,
       AppendStart, AppendTell, AppendUnmark, AppendEnds
  <2> QED BY <2>1, <2>2, <2>3
<1>6. CASE RetryStep
  <2>1. retry.at # "idle"
    BY <1>6 DEF RetryStep, RetryGivesUp, RetryMove, RetryMark, RetryBind,
       RetryEnqueue,
                RetryRecord
  <2> QED BY <1>1, <1>6, <2>1, RetryRequests DEF TaskTypes
<1>7. CASE \E f \in Folders : RetryBegin(f)
  BY <1>1, <1>7, RetryBeginRequests
<1> QED
  BY <1>1, <1>2, <1>3, <1>4, <1>5, <1>6, <1>7, StudioRequests, CrashRequests
     DEF Next, Operator

\* retry_upload_from_history races with recovery for the marker it writes, and both may
\* upload the folder.  Still every message to the customer is owed to one signal of the
\* studio, to one retry, or to one marker that outlived its upload: with one monitor loop,
\* for any number of folders, signals, retries, markers that cannot be removed
\* (remove_upload_markers goes on) and restarts, and whether or not the archive works.
THEOREM NotifiedOncePerRequest ==
  ASSUME OneLoop
  PROVE  Spec => []NotifiedPerRequest
<1>1. Init => Requests
  <2> SUFFICES ASSUME Init PROVE Requests
    OBVIOUS
  <2>1. /\ jobs = <<>> /\ closed = FALSE /\ worker = IdleWorker /\ retry = Idle
        /\ \A f \in Folders : /\ marks[f] = {} /\ place[f] = "absent"
                              /\ notified[f] = 0 /\ signals[f] = 0 /\ retries[f] = 0
                              /\ lingers[f] = 0
        /\ \A m \in Monitors : loop[m] = Idle
    BY DEF Init, RegInit
  <2>2. \A f \in Folders : ~LoopHas(f) /\ ~Loaded(f)
    BY <2>1 DEF LoopHas, Loaded, InHand, QueuedFolders, FoldersOf, Idle,
       IdleWorker
  <2>3. \A f \in Folders : Owed(f) = 0 /\ Carried(f) = 0 /\ Returnable(f) = 0 /\ RetryHas(f) = 0
    BY <2>1, <2>2 DEF Owed, Carried, Stands, Returnable, RetryHas, Idle, IdleWorker
  <2>4. \A f \in Folders : notified[f] + Due(f) <= Paid(f)
    BY <2>1, <2>3 DEF Due, Paid
  <2> QED BY <2>1, <2>4 DEF Requests, RetryFound, Idle
<1>2. RegistryFacts /\ TypeOK /\ TaskTypes /\ WorkerTypes /\ Requests /\ [Next]_vars => Requests'
  BY RequestsStep
<1>3. TypeOK /\ Requests => NotifiedPerRequest
  <2> SUFFICES ASSUME TypeOK, Requests, NEW f \in Folders
               PROVE  notified[f] <= signals[f] + retries[f] + lingers[f]
    BY DEF NotifiedPerRequest
  <2>1. notified[f] \in Nat /\ signals[f] \in Nat /\ retries[f] \in Nat /\ lingers[f] \in Nat
    BY BoundsAssumption DEF TypeOK
  <2>2. Due(f) \in Nat /\ notified[f] + Due(f) <= signals[f] + retries[f] + lingers[f]
    BY DueNumbers DEF Due, Requests, Paid
  <2> QED BY <2>1, <2>2
<1> QED
  BY <1>1, <1>2, <1>3, QueueFacts, TasksTyped, PipelineTypes, PTL DEF Spec,
     RegistryFacts
=============================================================================
