----------------------------- MODULE PipelineProofs -----------------------------
(***************************************************************************)
(* Proofs about UploadPipeline: the registry is used as RegistryClients    *)
(* describes, which carries the theorems of RegistryProofs over.           *)
(***************************************************************************)
EXTENDS UploadPipeline, SequenceTheorems, TLAPS

Queue == INSTANCE RegistryProofs
    WITH Callers <- Monitors \cup {RetryTask}, caller <- CallerMap, worker <- WorkerMap,
         profiles <- Accounts, deleting <- NoAccount

\* The loops and the retry keep their types, and hold a folder unless they are idle.
TaskTypes ==
    /\ loop \in [Monitors -> LoopState]
    /\ retry \in RetryState
    /\ \A m \in Monitors : loop[m].at # "idle" => loop[m].folder \in Folders
    /\ retry.at # "idle" => retry.folder \in Folders

-----------------------------------------------------------------------------
\* A loop that moves on keeps its folder, one that becomes idle drops it.
LEMMA LoopMoves ==
  ASSUME TaskTypes, NEW m \in Monitors,
         NEW at \in {"registered", "read", "claimed", "queued", "bound", "failed"},
         loop[m].at # "idle", Go(m, at) \/ GoIdle(m), UNCHANGED retry
  PROVE  TaskTypes'
<1>1. /\ loop \in [Monitors -> LoopState] /\ retry' \in RetryState
      /\ loop[m].folder \in Folders /\ Idle \in LoopState
  BY DEF TaskTypes, Idle, LoopState
<1>2. CASE Go(m, at)
  <2>1. [loop[m] EXCEPT !.at = at] \in LoopState
    BY <1>1 DEF LoopState
  <2>2. /\ loop' \in [Monitors -> LoopState]
        /\ \A n \in Monitors : loop'[n] = IF n = m THEN [loop[m] EXCEPT !.at = at] ELSE loop[n]
    BY <1>1, <1>2, <2>1 DEF Go
  <2>3. loop'[m].folder = loop[m].folder
    BY <1>1, <2>2 DEF LoopState
  <2> QED BY <1>1, <2>2, <2>3 DEF TaskTypes
<1>3. CASE GoIdle(m)
  <2>1. /\ loop' \in [Monitors -> LoopState]
        /\ \A n \in Monitors : loop'[n] = IF n = m THEN Idle ELSE loop[n]
    BY <1>1, <1>3 DEF GoIdle
  <2> QED BY <1>1, <2>1 DEF TaskTypes, Idle
<1> QED BY <1>2, <1>3

\* The tasks keep their types.
LEMMA TaskTypesStep == TaskTypes /\ [Next]_vars => TaskTypes'
<1> SUFFICES ASSUME TaskTypes, [Next]_vars PROVE TaskTypes'
  OBVIOUS
<1>1. ASSUME UNCHANGED <<loop, retry>> PROVE TaskTypes'
  BY <1>1 DEF TaskTypes
<1>2. ASSUME NEW m \in Monitors, NEW f \in Folders, NEW at \in {"gated", "stalled"},
             loop' = [loop EXCEPT ![m] = [at |-> at, folder |-> f]], UNCHANGED retry
      PROVE  TaskTypes'
  <2>1. [at |-> at, folder |-> f] \in LoopState
    BY <1>2 DEF LoopState
  <2>2. /\ loop' \in [Monitors -> LoopState]
        /\ \A n \in Monitors : loop'[n] = IF n = m THEN [at |-> at, folder |-> f] ELSE loop[n]
    BY <1>2, <2>1 DEF TaskTypes
  <2> QED BY <1>2, <2>2 DEF TaskTypes
<1>3. ASSUME UNCHANGED loop, retry' \in RetryState,
             retry'.at # "idle" => retry'.folder \in Folders
      PROVE  TaskTypes'
  BY <1>3 DEF TaskTypes
<1>4. CASE UNCHANGED vars \/ Studio \/ WorkerStep \/ OperatorCancel
  <2>1. UNCHANGED <<loop, retry>>
    BY <1>4 DEF vars, tasks, Studio, Deliver, RepairManifest, Resignal,
       WorkerStep, WorkerTake,
                WorkerUnresolved, WorkerStart, Uploaded, UploadEnds, WorkerLink, WorkerNotify,
                WorkerRecord, WorkerReport, WorkerArchive, WorkerDone, AppendStart, AppendTell,
                AppendUnmark, AppendEnds, OperatorCancel
  <2> QED BY <1>1, <2>1
<1>5. CASE \E m \in Monitors : LoopStep(m)
  <2> PICK m \in Monitors : LoopStep(m)
    BY <1>5
  <2>1. /\ loop[m].at # "idle" /\ UNCHANGED retry
        /\ \E at \in {"registered", "read", "claimed", "queued", "bound", "failed"} :
              Go(m, at) \/ GoIdle(m)
    BY DEF LoopStep, ClaimStep, RecoverStep, ClaimRegister, ClaimRead,
       ClaimGivesUp, LookupFails,
           ClaimRejected, ClaimRename, ClaimEnqueue, ClaimReport, RecoverGivesUp, RecoverFails,
           RecoverRejected, RecoverBind, RecoverEnqueue, ArchiveFailed
  <2> QED BY <2>1, LoopMoves
<1>6. CASE \E m \in Monitors : \E f \in Folders : ScanFolder(m, f)
  <2> PICK m \in Monitors, f \in Folders : ScanFolder(m, f)
    BY <1>6
  <2>1. CASE DiscardStale(m, f) \/ GateRejects(m, f)
    BY <1>1, <2>1 DEF DiscardStale, GateRejects, tasks
  <2>2. CASE GateAccepts(m, f)
    BY <1>2, <2>2 DEF GateAccepts
  <2>3. CASE RecoverLook(m, f)
    BY <1>2, <2>3 DEF RecoverLook
  <2> QED BY <2>1, <2>2, <2>3 DEF ScanFolder
<1>7. CASE RetryStep \/ \E f \in Folders : RetryBegin(f)
  <2>1. UNCHANGED loop
    BY <1>7 DEF RetryStep, RetryBegin, RetryGivesUp, RetryMove, RetryMark,
       RetryBind,
                RetryEnqueue, RetryRecord
  <2>2. retry \in RetryState
    BY DEF TaskTypes
  <2>3. \/ retry' = Idle
        \/ \E f \in Folders : retry' = [at |-> "found", folder |-> f]
        \/ /\ retry.at # "idle"
           /\ \E at \in {"moved", "marked", "bound", "queued"} : retry' = [retry EXCEPT !.at = at]
    BY <1>7 DEF RetryStep, RetryBegin, RetryGivesUp, RetryMove, RetryMark,
       RetryBind,
                RetryEnqueue, RetryRecord
  <2>4. retry' \in RetryState /\ (retry'.at # "idle" => retry'.folder \in Folders)
    BY <2>2, <2>3 DEF RetryState, Idle, TaskTypes
  <2> QED BY <1>3, <2>1, <2>4
<1>8. CASE Crash
  BY <1>8 DEF Crash, TaskTypes, LoopState, RetryState, Idle
<1> QED
  BY <1>4, <1>5, <1>6, <1>7, <1>8 DEF Next, Operator

\* They keep them in every behaviour.
THEOREM TasksTyped == Spec => []TaskTypes
<1>1. Init => TaskTypes
  BY DEF Init, TaskTypes, LoopState, RetryState, Idle
<1> QED BY <1>1, TaskTypesStep, PTL DEF Spec
-----------------------------------------------------------------------------
(***************************************************************************)
(* Refinement: what each step does to the callers the registry sees.       *)
(***************************************************************************)

\* A step of a loop changes the loop's caller only.
LEMMA LoopCaller ==
  ASSUME NEW m \in Monitors, NEW x, TaskTypes,
         loop' = [loop EXCEPT ![m] = x], UNCHANGED retry
  PROVE  /\ CallerMap[m] = CallerOf(loop[m])
         /\ CallerMap' = [CallerMap EXCEPT ![m] = CallerOf(x)]
<1>1. m # RetryTask
  BY RetryTaskAssumption
<1>2. \A n \in Monitors : loop'[n] = IF n = m THEN x ELSE loop[n]
  BY DEF TaskTypes
<1>3. CallerMap[m] = CallerOf(loop[m])
  BY <1>1 DEF CallerMap
<1>4. \A c \in Monitors \cup {RetryTask} :
         CallerOf(IF c = RetryTask THEN retry' ELSE loop'[c])
           = IF c = m THEN CallerOf(x) ELSE CallerOf(IF c = RetryTask THEN retry ELSE loop[c])
  BY <1>1, <1>2
<1>5. CallerMap' = [c \in Monitors \cup {RetryTask} |->
                      CallerOf(IF c = RetryTask THEN retry' ELSE loop'[c])]
  BY DEF CallerMap, CallerOf, Caller
<1>6. CallerMap' = [CallerMap EXCEPT ![m] = CallerOf(x)]
  BY <1>4, <1>5 DEF CallerMap
<1> QED BY <1>3, <1>6

\* A step of the retry changes the retry's caller only.
LEMMA RetryCaller ==
  ASSUME UNCHANGED loop
  PROVE  /\ CallerMap[RetryTask] = CallerOf(retry)
         /\ CallerMap' = [CallerMap EXCEPT ![RetryTask] = CallerOf(retry')]
<1>1. CallerMap[RetryTask] = CallerOf(retry)
  BY DEF CallerMap
<1>2. CallerMap' = [c \in Monitors \cup {RetryTask} |->
                      CallerOf(IF c = RetryTask THEN retry' ELSE loop[c])]
  BY DEF CallerMap, CallerOf, Caller
<1>3. CallerMap' = [CallerMap EXCEPT ![RetryTask] = CallerOf(retry')]
  BY <1>2 DEF CallerMap
<1> QED BY <1>1, <1>3

\* A loop that moves on keeps its folder.
LEMMA LoopGoes ==
  ASSUME TaskTypes, NEW m \in Monitors, NEW at, Go(m, at)
  PROVE  \E x : x.at = at /\ x.folder = loop[m].folder /\ loop' = [loop EXCEPT ![m] = x]
<1>1. loop[m] \in LoopState
  BY DEF TaskTypes
<1> DEFINE x == [at |-> at, folder |-> loop[m].folder]
<1>2. [loop[m] EXCEPT !.at = at] = x
  BY <1>1 DEF LoopState
<1>3. loop' = [loop EXCEPT ![m] = x]
  BY <1>2 DEF Go
<1> QED BY <1>3

\* The registry's operations are the same seen through the instance.
LEMMA SameUnregister ==
  ASSUME NEW f, Unregister(f)
  PROVE  Clients!Unregister(f)
<1>1. Clients!Rows(f) = Rows(f)
  BY DEF Rows, Clients!Rows
<1>2. Clients!FirstRow(f) = FirstRow(f)
  BY Zenon DEF FirstRow, Clients!FirstRow, Rows, Clients!Rows
<1>3. \A i : Clients!RemoveAt(entries, i) = RemoveAt(entries, i)
  BY DEF RemoveAt, Clients!RemoveAt
<1> QED BY <1>1, <1>2, <1>3 DEF Unregister, Clients!Unregister

\* The same for mark_active().
LEMMA SameMarkActive ==
  ASSUME NEW f, MarkActive(f)
  PROVE  Clients!MarkActive(f)
<1>1. Clients!Rows(f) = Rows(f)
  BY DEF Rows, Clients!Rows
<1>2. Clients!FirstRow(f) = FirstRow(f)
  BY Zenon DEF FirstRow, Clients!FirstRow, Rows, Clients!Rows
<1> QED BY <1>1, <1>2 DEF MarkActive, Clients!MarkActive

\* Without profiles, freezing one leaves the job without.
LEMMA FreezesNothing ==
  ASSUME NEW c, NEW f, UNCHANGED <<regVars, WorkerMap>>,
         \/ /\ CallerMap[c] = Caller("reserved", f)
            /\ CallerMap' = [CallerMap EXCEPT ![c] = Caller("frozen", f)]
         \/ /\ CallerMap[c] = Caller("checked", f)
            /\ CallerMap' = [CallerMap EXCEPT ![c] = Caller("bound", f)]
  PROVE  Clients!Freeze(c)
<1>1. NoAccount \in Clients!Binding /\ Clients!Freezable(NoAccount)
  BY NoProfiles DEF Clients!Binding, Clients!Freezable
<1>2. CallerMap[c].at \in {"reserved", "checked"}
  BY DEF Caller
<1>3. CallerMap' = [CallerMap EXCEPT ![c] =
                       [at |-> IF CallerMap[c].at = "reserved" THEN "frozen" ELSE "bound",
                        folder |-> CallerMap[c].folder, account |-> NoAccount]]
  BY DEF Caller
<1> QED
  BY <1>1, <1>2, <1>3 DEF Clients!Freeze, Clients!regVars, regVars

\* enqueue() without a reservation, by a loop or by the retry.
LEMMA EnqueuesDirectly ==
  ASSUME NEW c, NEW f, UNCHANGED WorkerMap,
         CallerMap[c] = Caller("bound", f),
         CallerMap' = [CallerMap EXCEPT ![c] = Caller("idle", NoFolder)],
         EnqueueSent(JobOf(f), FALSE) \/ EnqueueRefused(JobOf(f), FALSE)
  PROVE  Clients!EnqueueDirect(c)
<1>1. Clients!JobOf(c) = JobOf(f)
  BY DEF Clients!JobOf, JobOf, Caller
<1>2. \/ Clients!EnqueueSent(Clients!JobOf(c), FALSE)
      \/ Clients!EnqueueRefused(Clients!JobOf(c), FALSE)
  BY <1>1 DEF EnqueueSent, Clients!EnqueueSent, EnqueueRefused,
     Clients!EnqueueRefused,
     regVars, Clients!regVars, JobOf
<1>3. CallerMap[c].at = "bound" /\ Clients!Idle(c)
  BY DEF Clients!Idle, Clients!IdleCaller, Caller
<1> QED
  BY <1>2, <1>3 DEF Clients!EnqueueDirect

\* What a loop does for one folder is a step of its caller, or none.
LEMMA LoopStepMaps ==
  ASSUME TaskTypes, NEW m \in Monitors, LoopStep(m)
  PROVE  [Clients!Next]_(Clients!vars)
<1> USE DEF Clients!vars, Clients!regVars, regVars
<1>1. /\ m \in Monitors \cup {RetryTask}
      /\ loop[m].at # "idle" => loop[m].folder \in Folders
      /\ CallerMap[m] = CallerOf(loop[m])
  BY RetryTaskAssumption DEF TaskTypes, CallerMap
<1>2. UNCHANGED <<retry, worker>> /\ UNCHANGED WorkerMap
  BY DEF LoopStep, ClaimStep, RecoverStep, ClaimRegister, ClaimRead,
     ClaimGivesUp, LookupFails,
         ClaimRejected, ClaimRename, ClaimEnqueue, ClaimReport, RecoverGivesUp, RecoverFails,
         RecoverRejected, RecoverBind, RecoverEnqueue, ArchiveFailed, WorkerMap
<1>3. ASSUME GoIdle(m)
      PROVE  CallerMap' = [CallerMap EXCEPT ![m] = Caller("idle", NoFolder)]
  <2>1. loop' = [loop EXCEPT ![m] = Idle]
    BY <1>3 DEF GoIdle
  <2>2. CallerMap' = [CallerMap EXCEPT ![m] = CallerOf(Idle)]
    BY <1>2, <2>1, LoopCaller
  <2>3. CallerOf(Idle) = Caller("idle", NoFolder)
    BY DEF CallerOf, Idle
  <2> QED BY <2>2, <2>3
<1>4. ASSUME NEW at, Go(m, at)
      PROVE  \E x : /\ x.at = at /\ x.folder = loop[m].folder
                    /\ CallerMap' = [CallerMap EXCEPT ![m] = CallerOf(x)]
  <2> PICK x : x.at = at /\ x.folder = loop[m].folder /\ loop' = [loop EXCEPT ![m] = x]
    BY <1>4, LoopGoes
  <2>1. CallerMap' = [CallerMap EXCEPT ![m] = CallerOf(x)]
    BY <1>2, LoopCaller
  <2> QED BY <2>1
<1>5. CASE ClaimRegister(m)
  <2>1. loop[m].at = "gated" /\ CallerMap[m] = Caller("idle", NoFolder)
    BY <1>1, <1>5 DEF ClaimRegister, CallerOf
  <2>2. CASE Register(loop[m].folder) /\ Go(m, "registered")
    <3>1. CallerMap' = [CallerMap EXCEPT ![m] = Caller("reserved", loop[m].folder)]
      BY <1>4, <2>2 DEF CallerOf
    <3>2. Clients!Claim(m, loop[m].folder)
      BY <1>2, <2>1, <2>2, <3>1 DEF Clients!Claim, Clients!Register, Register,
         Caller
    <3> QED BY <1>1, <2>1, <3>2 DEF Clients!Next, Clients!CallerStep
  <2>3. CASE GoIdle(m) /\ UNCHANGED regVars
    BY <1>1, <1>2, <1>3, <2>1, <2>3 DEF CallerMap
  <2> QED BY <1>5, <2>2, <2>3 DEF ClaimRegister
<1>6. ASSUME loop[m].at \in {"registered", "read"}, Unregister(loop[m].folder),
             GoIdle(m) \/ Go(m, "failed")
      PROVE  Clients!Next
  <2>1. CallerMap[m] = Caller("reserved", loop[m].folder)
    BY <1>1, <1>6 DEF CallerOf
  <2>2. CallerMap' = [CallerMap EXCEPT ![m] = Caller("idle", NoFolder)]
    BY <1>3, <1>4, <1>6 DEF CallerOf
  <2>3. Clients!GiveUp(m)
    BY <1>2, <1>6, <2>1, <2>2, SameUnregister
       DEF Clients!GiveUp, Clients!Reserving, Clients!Idle, Clients!IdleCaller, Caller
  <2> QED BY <1>1, <2>3 DEF Clients!Next, Clients!CallerStep
<1>7. CASE ClaimGivesUp(m) \/ LookupFails(m) \/ ClaimRejected(m)
  BY <1>6, <1>7 DEF ClaimGivesUp, LookupFails, ClaimRejected
<1>8. CASE ClaimRead(m)
  <2>1. CASE Go(m, "read") /\ UNCHANGED regVars
    <3>1. CallerMap' = [CallerMap EXCEPT ![m] = Caller("reserved", loop[m].folder)]
      BY <1>4, <2>1 DEF CallerOf
    <3>2. CallerMap[m] = Caller("reserved", loop[m].folder)
      BY <1>1, <1>8 DEF ClaimRead, CallerOf
    <3> QED BY <1>1, <1>2, <2>1, <3>1, <3>2 DEF CallerMap
  <2> QED BY <1>6, <1>8, <2>1 DEF ClaimRead
<1>9. CASE ClaimRename(m)
  <2>1. CASE Go(m, "claimed") /\ UNCHANGED regVars
    <3>1. CallerMap' = [CallerMap EXCEPT ![m] = Caller("frozen", loop[m].folder)]
      BY <1>4, <2>1 DEF CallerOf
    <3>2. CallerMap[m] = Caller("reserved", loop[m].folder)
      BY <1>1, <1>9 DEF ClaimRename, CallerOf
    <3>3. Clients!Freeze(m)
      BY <1>2, <2>1, <3>1, <3>2, FreezesNothing
    <3> QED BY <1>1, <3>3 DEF Clients!Next, Clients!CallerStep
  <2> QED BY <1>6, <1>9, <2>1 DEF ClaimRename
<1>10. CASE ClaimEnqueue(m)
  <2>1. /\ CallerMap[m] = Caller("frozen", loop[m].folder)
        /\ EnqueueSent(JobOf(loop[m].folder), TRUE) /\ Go(m, "queued")
    BY <1>1, <1>10 DEF ClaimEnqueue, CallerOf
  <2>2. CallerMap' = [CallerMap EXCEPT ![m] = Caller("idle", NoFolder)]
    BY <1>4, <2>1 DEF CallerOf
  <2>3. Clients!EnqueueReserved(m)
    BY <1>2, <2>1, <2>2 DEF Clients!EnqueueReserved, Clients!EnqueueSent,
       EnqueueSent, JobOf,
       Clients!JobOf, Clients!Idle, Clients!IdleCaller, Caller
  <2> QED BY <1>1, <2>3 DEF Clients!Next, Clients!CallerStep
<1>11. CASE ClaimReport(m) \/ ArchiveFailed(m)
  <2>1. /\ CallerMap[m] = Caller("idle", NoFolder) /\ GoIdle(m)
        /\ UNCHANGED regVars
    BY <1>1, <1>11 DEF ClaimReport, ArchiveFailed, CallerOf
  <2> QED BY <1>1, <1>2, <1>3, <2>1 DEF CallerMap
<1>12. CASE RecoverGivesUp(m) \/ RecoverFails(m) \/ RecoverRejected(m)
  <2>1. /\ CallerMap[m] = Caller("checked", loop[m].folder)
        /\ GoIdle(m) \/ Go(m, "failed")
        /\ UNCHANGED regVars
    BY <1>1, <1>12 DEF RecoverGivesUp, RecoverFails, RecoverRejected, CallerOf
  <2>2. CallerMap' = [CallerMap EXCEPT ![m] = Caller("idle", NoFolder)]
    BY <1>3, <1>4, <2>1 DEF CallerOf
  <2>3. Clients!TurnAway(m)
    BY <1>2, <2>1, <2>2 DEF Clients!TurnAway, Clients!Idle, Clients!IdleCaller,
       Caller
  <2> QED BY <1>1, <2>3 DEF Clients!Next, Clients!CallerStep
<1>13. CASE RecoverBind(m)
  <2>1. /\ CallerMap[m] = Caller("checked", loop[m].folder)
        /\ Go(m, "bound") /\ UNCHANGED regVars
    BY <1>1, <1>13 DEF RecoverBind, CallerOf
  <2>2. CallerMap' = [CallerMap EXCEPT ![m] = Caller("bound", loop[m].folder)]
    BY <1>4, <2>1 DEF CallerOf
  <2>3. Clients!Freeze(m)
    BY <1>2, <2>1, <2>2, FreezesNothing
  <2> QED BY <1>1, <2>3 DEF Clients!Next, Clients!CallerStep
<1>14. CASE RecoverEnqueue(m)
  <2>1. /\ CallerMap[m] = Caller("bound", loop[m].folder)
        /\ GoIdle(m)
        /\ \/ EnqueueSent(JobOf(loop[m].folder), FALSE)
           \/ EnqueueRefused(JobOf(loop[m].folder), FALSE)
    BY <1>1, <1>14 DEF RecoverEnqueue, CallerOf
  <2>2. Clients!EnqueueDirect(m)
    BY <1>2, <1>3, <2>1, EnqueuesDirectly
  <2> QED BY <1>1, <2>2 DEF Clients!Next, Clients!CallerStep
<1> QED
  BY <1>5, <1>7, <1>8, <1>9, <1>10, <1>11, <1>12, <1>13, <1>14
     DEF LoopStep, ClaimStep, RecoverStep
\* What the retry does is a step of its caller, or none.
LEMMA RetryStepMaps ==
  ASSUME TaskTypes, RetryStep \/ \E f \in Folders : RetryBegin(f)
  PROVE  [Clients!Next]_(Clients!vars)
<1> USE DEF Clients!vars, Clients!regVars, regVars
<1>1. /\ UNCHANGED <<loop, worker>> /\ UNCHANGED WorkerMap
      /\ RetryTask \in Monitors \cup {RetryTask}
  BY DEF RetryStep, RetryBegin, RetryGivesUp, RetryMove, RetryMark, RetryBind,
     RetryEnqueue,
         RetryRecord, WorkerMap
<1>2. /\ CallerMap[RetryTask] = CallerOf(retry)
      /\ CallerMap' = [CallerMap EXCEPT ![RetryTask] = CallerOf(retry')]
  BY <1>1, RetryCaller
<1>3. ASSUME NEW at, retry' = [retry EXCEPT !.at = at]
      PROVE  retry'.at = at /\ retry'.folder = retry.folder
  BY <1>3 DEF TaskTypes, RetryState
<1>4. ASSUME NEW f \in Folders, RetryBegin(f)
      PROVE  Clients!Next
  <2>1. /\ retry.at = "idle" /\ retry' = [at |-> "found", folder |-> f] /\ f \notin pending
        /\ UNCHANGED regVars
    BY <1>4 DEF RetryBegin
  <2>2. CallerOf(retry) = Caller("idle", NoFolder) /\ CallerOf(retry') = Caller("checked", f)
    BY <2>1 DEF CallerOf
  <2>3. Clients!Look(RetryTask, f)
    <3>1. CallerMap[RetryTask].at = "idle"
      BY <1>2, <2>2 DEF Caller
    <3>2. CallerMap' = [CallerMap EXCEPT ![RetryTask] = [at |-> "checked", folder |-> f,
                                                         account |-> NoAccount]]
      BY <1>2, <2>2 DEF Caller
    <3> QED BY <1>1, <2>1, <3>1, <3>2 DEF Clients!Look
  <2> QED BY <1>1, <2>3 DEF Clients!Next, Clients!CallerStep
<1>5. CASE RetryGivesUp
  <2>1. /\ CallerOf(retry) = Caller("checked", retry.folder)
        /\ CallerOf(retry') = Caller("idle", NoFolder)
        /\ UNCHANGED regVars
    BY <1>5 DEF RetryGivesUp, CallerOf, Idle
  <2>2. Clients!TurnAway(RetryTask)
    BY <1>1, <1>2, <2>1 DEF Clients!TurnAway, Clients!Idle, Clients!IdleCaller,
       Caller
  <2> QED BY <1>1, <2>2 DEF Clients!Next, Clients!CallerStep
<1>6. CASE RetryMove \/ RetryMark \/ RetryRecord
  <2>1. CallerOf(retry') = CallerOf(retry) /\ UNCHANGED regVars
    BY <1>3, <1>6 DEF RetryMove, RetryMark, RetryRecord, CallerOf, Idle
  <2> QED BY <1>1, <1>2, <2>1 DEF CallerMap
<1>7. CASE RetryBind
  <2>1. /\ CallerOf(retry) = Caller("checked", retry.folder)
        /\ CallerOf(retry') = Caller("bound", retry.folder)
        /\ UNCHANGED regVars
    BY <1>3, <1>7 DEF RetryBind, CallerOf
  <2>2. Clients!Freeze(RetryTask)
    BY <1>1, <1>2, <2>1, FreezesNothing
  <2> QED BY <1>1, <2>2 DEF Clients!Next, Clients!CallerStep
<1>8. CASE RetryEnqueue
  <2>1. /\ CallerOf(retry) = Caller("bound", retry.folder)
        /\ CallerOf(retry') = Caller("idle", NoFolder)
        /\ \/ EnqueueSent(JobOf(retry.folder), FALSE)
           \/ EnqueueRefused(JobOf(retry.folder), FALSE)
    <3>1. retry.at = "bound"
      BY <1>8 DEF RetryEnqueue
    <3>2. retry'.at = "queued" \/ retry' = Idle
      BY <1>3, <1>8 DEF RetryEnqueue
    <3>3. EnqueueSent(JobOf(retry.folder), FALSE) \/ EnqueueRefused(JobOf(retry.folder), FALSE)
      BY <1>8 DEF RetryEnqueue
    <3>4. CallerOf(retry) = Caller("bound", retry.folder)
      BY <3>1 DEF CallerOf
    <3>5. CallerOf(retry') = Caller("idle", NoFolder)
      BY <3>2 DEF CallerOf, Idle
    <3> QED BY <3>3, <3>4, <3>5
  <2>2. Clients!EnqueueDirect(RetryTask)
    BY <1>1, <1>2, <2>1, EnqueuesDirectly
  <2> QED BY <1>1, <2>2 DEF Clients!Next, Clients!CallerStep
<1> QED BY <1>4, <1>5, <1>6, <1>7, <1>8 DEF RetryStep

\* The worker's shape, which the mapping of its positions needs.
WorkerShape == worker = [at |-> worker.at, folder |-> worker.folder, outcome |-> worker.outcome]

\* The worker keeps its shape.
LEMMA WorkerShapeStep == WorkerShape /\ [Next]_vars => WorkerShape'
<1> SUFFICES ASSUME WorkerShape, [Next]_vars PROVE WorkerShape'
  OBVIOUS
<1>1. CASE UNCHANGED worker
  BY <1>1 DEF WorkerShape
<1>2. CASE WorkerStep \/ Crash
  BY <1>2 DEF WorkerShape, WorkerStep, WorkerTake, WorkerUnresolved, WorkerStart,
     Uploaded,
     UploadEnds, WorkerLink, WorkerNotify, WorkerRecord, WorkerReport, WorkerArchive,
     WorkerDone, AppendStart, AppendTell, AppendUnmark, AppendEnds, At, EndWith, IdleWorker, Crash
<1>3. [Next]_vars => UNCHANGED worker \/ WorkerStep \/ Crash
  BY DEF Next, vars, tasks, Studio, Deliver, RepairManifest, Resignal, LoopStep,
     ClaimStep,
     RecoverStep, ClaimRegister, ClaimRead, ClaimGivesUp, LookupFails, ClaimRejected, ClaimRename,
     ClaimEnqueue, ClaimReport, RecoverGivesUp, RecoverFails, RecoverRejected, RecoverBind,
     RecoverEnqueue, ArchiveFailed, ScanFolder, DiscardStale, GateRejects, GateAccepts,
     RecoverLook, Operator, OperatorCancel, RetryStep, RetryBegin, RetryGivesUp, RetryMove,
     RetryMark, RetryBind, RetryEnqueue, RetryRecord
<1> QED BY <1>1, <1>2, <1>3
\* What the worker does is a step of the registry's worker, or none.
LEMMA WorkerStepMaps ==
  ASSUME WorkerShape, WorkerStep
  PROVE  [Clients!Next]_(Clients!vars)
<1> USE DEF Clients!vars, Clients!regVars, regVars
<1>1. UNCHANGED <<loop, retry>> /\ UNCHANGED CallerMap
  BY DEF WorkerStep, WorkerTake, WorkerUnresolved, WorkerStart, Uploaded,
     UploadEnds, WorkerLink,
         WorkerNotify, WorkerRecord, WorkerReport, WorkerArchive, WorkerDone, AppendStart,
         AppendTell, AppendUnmark, AppendEnds, CallerMap
<1>2. ASSUME NEW at, At(at) \/ EndWith(at)
      PROVE  worker'.folder = worker.folder
  BY <1>2 DEF At, EndWith, WorkerShape
<1>3. CASE WorkerTake
  <2>1. /\ worker.at = "idle" /\ Receive
        /\ worker' = [at |-> "taken", folder |-> Head(jobs).folder, outcome |-> "open"]
    BY <1>3 DEF WorkerTake
  <2>2. /\ WorkerMap.at = "idle"
        /\ WorkerMap' = [at |-> "taken", folder |-> Head(jobs).folder]
    BY <2>1 DEF WorkerMap
  <2>3. Clients!WorkerReceive
    BY <1>1, <2>1, <2>2 DEF Clients!WorkerReceive, Clients!Receive, Receive
  <2> QED BY <2>3 DEF Clients!Next, Clients!WorkerStep
<1>4. CASE WorkerUnresolved
  <2>1. worker.at = "taken" /\ Unregister(worker.folder) /\ worker' = IdleWorker
    BY <1>4 DEF WorkerUnresolved
  <2>2. /\ WorkerMap.at = "taken" /\ WorkerMap.folder = worker.folder
        /\ WorkerMap' = Clients!IdleWorker
    BY <2>1 DEF WorkerMap, IdleWorker, Clients!IdleWorker
  <2>3. Clients!WorkerUnresolved
    BY <1>1, <2>1, <2>2, SameUnregister DEF Clients!WorkerUnresolved
  <2> QED BY <2>3 DEF Clients!Next, Clients!WorkerStep
<1>5. CASE WorkerStart \/ AppendStart
  <2>1. /\ worker.at = "taken" /\ MarkActive(worker.folder)
        /\ At("uploading") \/ At("appending")
    BY <1>5 DEF WorkerStart, AppendStart
  <2>2. worker'.at \in {"uploading", "appending"} /\ worker'.folder = worker.folder
    BY <2>1 DEF At, WorkerShape
  <2>3. /\ WorkerMap.at = "taken" /\ WorkerMap.folder = worker.folder
        /\ WorkerMap' = [WorkerMap EXCEPT !.at = "active"]
    BY <2>1, <2>2 DEF WorkerMap
  <2>4. Clients!WorkerActivate
    BY <1>1, <2>1, <2>3, SameMarkActive DEF Clients!WorkerActivate
  <2> QED BY <2>4 DEF Clients!Next, Clients!WorkerStep
<1>8. CASE AppendTell \/ AppendUnmark \/ AppendEnds
  <2>1. /\ worker.at \notin {"idle", "taken"} /\ UNCHANGED regVars
        /\ \/ At("told")
           \/ \E o : worker' = [worker EXCEPT !.at = "recorded", !.outcome = o]
    BY <1>8 DEF AppendTell, AppendUnmark, AppendEnds
  <2>2. worker'.at \notin {"idle", "taken"} /\ worker'.folder = worker.folder
    BY <2>1 DEF At, WorkerShape
  <2>3. UNCHANGED WorkerMap
    BY <2>1, <2>2 DEF WorkerMap
  <2> QED BY <1>1, <2>1, <2>3
<1>6. CASE Uploaded \/ UploadEnds \/ WorkerLink \/ WorkerNotify \/ WorkerRecord \/ WorkerReport
             \/ WorkerArchive
  <2>1. /\ worker.at \notin {"idle", "taken"} /\ UNCHANGED regVars
        /\ \E at \in {"linking", "notifying", "recorded", "reported", "archived"} : At(at)
           \/ \E outcome \in Outcomes : EndWith(outcome)
    BY <1>6 DEF Uploaded, UploadEnds, WorkerLink, WorkerNotify, WorkerRecord,
       WorkerReport,
       WorkerArchive, Outcomes
  <2>2. worker'.at \notin {"idle", "taken"} /\ worker'.folder = worker.folder
    BY <2>1 DEF At, EndWith, WorkerShape
  <2>3. UNCHANGED WorkerMap
    BY <2>1, <2>2 DEF WorkerMap
  <2> QED BY <1>1, <2>1, <2>3
<1>7. CASE WorkerDone
  <2>1. worker.at = "archived" /\ Unregister(worker.folder) /\ worker' = IdleWorker
    BY <1>7 DEF WorkerDone
  <2>2. /\ WorkerMap.at = "active" /\ WorkerMap.folder = worker.folder
        /\ WorkerMap' = Clients!IdleWorker
    BY <2>1 DEF WorkerMap, IdleWorker, Clients!IdleWorker
  <2>3. Clients!WorkerFinish
    BY <1>1, <2>1, <2>2, SameUnregister DEF Clients!WorkerFinish
  <2> QED BY <2>3 DEF Clients!Next, Clients!WorkerStep
<1> QED BY <1>3, <1>4, <1>5, <1>6, <1>7, <1>8 DEF WorkerStep

\* Every step maps to a step of the registry's callers, or to none.
LEMMA NextMaps ==
  TaskTypes /\ WorkerShape /\ [Next]_vars => [Clients!Next]_(Clients!vars)
<1> SUFFICES ASSUME TaskTypes, WorkerShape, [Next]_vars
             PROVE  [Clients!Next]_(Clients!vars)
  OBVIOUS
<1>1. ASSUME UNCHANGED <<regVars, loop, worker, retry>>
      PROVE  UNCHANGED Clients!vars
  BY <1>1 DEF Clients!vars, Clients!regVars, regVars, CallerMap, WorkerMap
<1>2. CASE UNCHANGED vars \/ Studio \/ OperatorCancel
  <2>1. UNCHANGED <<regVars, loop, worker, retry>>
    BY <1>2 DEF vars, tasks, Studio, Deliver, RepairManifest, Resignal,
       OperatorCancel
  <2> QED BY <1>1, <2>1
<1>3. CASE \E m \in Monitors : LoopStep(m)
  BY <1>3, LoopStepMaps
<1>4. CASE \E m \in Monitors : \E f \in Folders : ScanFolder(m, f)
  <2> PICK m \in Monitors, f \in Folders : ScanFolder(m, f)
    BY <1>4
  <2>1. CASE DiscardStale(m, f) \/ GateRejects(m, f)
    BY <1>1, <2>1 DEF DiscardStale, GateRejects, tasks
  <2>2. CallerMap[m] = CallerOf(loop[m]) /\ m \in Monitors \cup {RetryTask}
    BY RetryTaskAssumption DEF CallerMap
  <2>3. CASE GateAccepts(m, f)
    <3> DEFINE x == [at |-> "gated", folder |-> f]
    <3>1. /\ loop[m].at = "idle" /\ loop' = [loop EXCEPT ![m] = x]
          /\ UNCHANGED <<regVars, worker, retry>>
      BY <2>3 DEF GateAccepts
    <3>2. CallerMap' = [CallerMap EXCEPT ![m] = CallerOf(x)]
      BY <3>1, LoopCaller
    <3>3. CallerOf(x) = CallerOf(loop[m])
      BY <3>1 DEF CallerOf
    <3>4. UNCHANGED CallerMap
      BY <2>2, <3>2, <3>3 DEF CallerMap
    <3> QED BY <3>1, <3>4 DEF Clients!vars, Clients!regVars, regVars, WorkerMap
  <2>4. CASE RecoverLook(m, f)
    <3> DEFINE x == [at |-> "stalled", folder |-> f]
    <3>1. /\ loop[m].at = "idle" /\ loop' = [loop EXCEPT ![m] = x] /\ f \notin pending
          /\ UNCHANGED <<regVars, worker, retry>>
      BY <2>4 DEF RecoverLook
    <3>2. CallerMap' = [CallerMap EXCEPT ![m] = CallerOf(x)]
      BY <3>1, LoopCaller
    <3>3. /\ CallerMap[m].at = "idle"
          /\ CallerOf(x) = [at |-> "checked", folder |-> f, account |-> NoAccount]
      BY <2>2, <3>1 DEF CallerOf, Caller
    <3>4. Clients!Look(m, f)
      BY <3>1, <3>2, <3>3 DEF Clients!Look, Clients!regVars, regVars, WorkerMap
    <3> QED BY <2>2, <3>4 DEF Clients!Next, Clients!CallerStep
  <2> QED BY <2>1, <2>2, <2>3, <2>4 DEF ScanFolder
<1>5. CASE RetryStep \/ \E f \in Folders : RetryBegin(f)
  BY <1>5, RetryStepMaps
<1>6. CASE WorkerStep
  BY <1>6, WorkerStepMaps
<1>7. CASE Crash
  <2>1. CallerMap' = [c \in Monitors \cup {RetryTask} |-> Clients!IdleCaller]
    BY <1>7 DEF Crash, CallerMap, CallerOf, Caller, Idle, Clients!IdleCaller
  <2>2. WorkerMap' = Clients!IdleWorker
    BY <1>7 DEF Crash, WorkerMap, IdleWorker, Clients!IdleWorker
  <2>3. Clients!Restart
    BY <1>7, <2>1, <2>2 DEF Crash, RegRestart, Clients!Restart, Clients!RegRestart
  <2> QED BY <2>3 DEF Clients!Next
<1> QED
  BY <1>2, <1>3, <1>4, <1>5, <1>6, <1>7 DEF Next, Operator

\* The initial states map to initial states.
LEMMA InitMaps == Init => Clients!Init
<1> SUFFICES ASSUME Init PROVE Clients!Init
  OBVIOUS
<1>1. CallerMap = [c \in Monitors \cup {RetryTask} |-> Clients!IdleCaller]
  BY DEF Init, CallerMap, CallerOf, Caller, Idle, Clients!IdleCaller
<1>2. WorkerMap = Clients!IdleWorker
  BY DEF Init, WorkerMap, IdleWorker, Clients!IdleWorker
<1> QED BY <1>1, <1>2 DEF Init, RegInit, Clients!Init, Clients!RegInit

\* Monitor loops, retry, worker and restarts use the registry as RegistryClients says.
THEOREM PipelineImplementsClients == Spec => ImplementsClients
<1>1. Init => TaskTypes /\ WorkerShape
  BY DEF Init, TaskTypes, LoopState, RetryState, Idle, WorkerShape, IdleWorker
<1> QED
  BY <1>1, InitMaps, NextMaps, TaskTypesStep, WorkerShapeStep, PTL
     DEF Spec, ImplementsClients, Clients!Spec
\* RegistryProofs speaks of the same specification.
LEMMA SameSpec == ImplementsClients => Queue!Spec
<1>1. Clients!Init => Queue!Init
  BY DEF Clients!Init, Queue!Init, Clients!RegInit, Queue!RegInit,
     Clients!IdleCaller,
     Queue!IdleCaller, Clients!IdleWorker, Queue!IdleWorker
<1>2. [Clients!Next]_(Clients!vars) => [Queue!Next]_(Queue!vars)
  BY Zenon DEF Clients!Next, Queue!Next, Clients!vars, Queue!vars,
     Clients!regVars, Queue!regVars,
     Clients!CallerStep, Queue!CallerStep, Clients!Claim, Queue!Claim, Clients!Look,
     Queue!Look, Clients!Freeze, Queue!Freeze, Clients!GiveUp, Queue!GiveUp,
     Clients!EnqueueReserved, Queue!EnqueueReserved, Clients!EnqueueReservedDropped,
     Queue!EnqueueReservedDropped, Clients!TurnAway, Queue!TurnAway, Clients!EnqueueDirect,
     Queue!EnqueueDirect, Clients!WorkerStep, Queue!WorkerStep, Clients!WorkerReceive,
     Queue!WorkerReceive, Clients!WorkerUnresolved, Queue!WorkerUnresolved,
     Clients!WorkerActivate, Queue!WorkerActivate, Clients!WorkerFinish, Queue!WorkerFinish,
     Clients!WorkerDies, Queue!WorkerDies, Clients!Operator, Queue!Operator,
     Clients!DeleteGuard, Queue!DeleteGuard, Clients!DeleteCommit, Queue!DeleteCommit,
     Clients!Restart, Queue!Restart, Clients!RegRestart, Queue!RegRestart, Clients!Register,
     Queue!Register, Clients!Unregister, Queue!Unregister, Clients!MarkActive,
     Queue!MarkActive, Clients!EnqueueSent, Queue!EnqueueSent, Clients!EnqueueRefused,
     Queue!EnqueueRefused, Clients!EnqueueDropped, Queue!EnqueueDropped, Clients!Receive,
     Queue!Receive, Clients!DropReceiver, Queue!DropReceiver, Clients!Rows, Queue!Rows,
     Clients!FirstRow, Queue!FirstRow, Clients!RemoveAt, Queue!RemoveAt, Clients!BoundRows,
     Queue!BoundRows, Clients!Freezable, Queue!Freezable, Clients!Binding, Queue!Binding,
     Clients!Reserving, Queue!Reserving, Clients!JobOf, Queue!JobOf, Clients!Idle,
     Queue!Idle, Clients!IdleCaller, Queue!IdleCaller, Clients!IdleWorker, Queue!IdleWorker
<1> QED BY <1>1, <1>2, PTL DEF ImplementsClients, Clients!Spec, Queue!Spec

\* What is proved of the registry's callers holds of the pipeline: its registry keeps its
\* types, no folder has two holders, no reservation leaks, the snapshot is the work left.
LEMMA QueueFacts ==
  Spec => [](/\ RegTypeOK
             /\ Queue!OneHolder
             /\ Queue!NoLeakedReservation
             /\ Queue!SnapshotIsTheWork)
<1>1. Queue!TypeOK => RegTypeOK
  BY DEF Queue!TypeOK, Queue!RegTypeOK, RegTypeOK, Queue!QueueEntry, QueueEntry,
     Queue!Job, Job,
         Queue!Binding, Binding
<1>2. Queue!Spec => []Queue!TypeOK
  BY Queue!TypeCorrect, NoAccountAssumption, NoFolderAssumption, PTL
<1>3. Queue!Spec => []Queue!OneHolder
  BY Queue!HeldOnce, NoAccountAssumption, NoFolderAssumption, PTL
<1>4. Queue!Spec => []Queue!NoLeakedReservation
  BY Queue!NothingLeaks, NoAccountAssumption, NoFolderAssumption, PTL
<1>5. Queue!Spec => []Queue!SnapshotIsTheWork
  BY Queue!SnapshotCorrect, NoAccountAssumption, NoFolderAssumption, PTL
<1> QED
  BY <1>1, <1>2, <1>3, <1>4, <1>5, PipelineImplementsClients, SameSpec, PTL

-----------------------------------------------------------------------------
(***************************************************************************)
(* Type correctness of the whole pipeline.                                 *)
(***************************************************************************)

\* The worker's record: a folder while it works, an outcome once the upload has ended.
WorkerTypes ==
    /\ worker \in WorkerState
    /\ worker.at # "idle" => worker.folder \in Folders
    /\ worker.at \in {"ended", "recorded", "reported"} => worker.outcome \in Outcomes

\* The files, reports and counters.
FileTypes ==
    /\ place \in [Folders -> Archived \cup {"absent", "share"}]
    /\ marks \in [Folders -> SUBSET {"fertig", "processing"}]
    /\ manifest \in [Folders -> {"none", "ok", "bad"}]

ReportTypes ==
    /\ outbox \in [Folders -> {"none", "accepted", "rejected", "queued", "uploading",
                               "completed", "failed"}]
    /\ history \in [Folders -> Outcomes \cup {"none", "started"}]

CountTypes ==
    /\ cancel \in BOOLEAN
    /\ signals \in [Folders -> 0..MaxSignals]
    /\ notified \in [Folders -> Nat]
    /\ retries \in [Folders -> 0..MaxRetries]
    /\ lingers \in [Folders -> Nat]
    /\ crashes \in 0..MaxCrashes

Types == WorkerTypes /\ FileTypes /\ ReportTypes /\ CountTypes

LEMMA WorkerTypesStep ==
  ASSUME RegTypeOK, WorkerTypes, [Next]_vars
  PROVE  WorkerTypes'
<1>1. CASE UNCHANGED worker
  BY <1>1 DEF WorkerTypes
<1>2. CASE WorkerTake
  <2>1. jobs \in Seq(Job) /\ jobs # <<>>
    BY <1>2 DEF WorkerTake, Receive, RegTypeOK
  <2>2. Head(jobs) = jobs[1] /\ 1 \in DOMAIN jobs /\ \A i \in DOMAIN jobs : jobs[i] \in Job
    BY <2>1, HeadTailProperties, LenProperties
  <2>4. Head(jobs).folder \in Folders
    BY <2>2 DEF Job
  <2>3. worker' = [at |-> "taken", folder |-> Head(jobs).folder, outcome |-> "open"]
    BY <1>2 DEF WorkerTake
  <2> QED BY <2>3, <2>4 DEF WorkerTypes, WorkerState
<1>3. CASE WorkerUnresolved \/ WorkerDone \/ Crash
  BY <1>3 DEF WorkerUnresolved, WorkerDone, Crash, WorkerTypes, WorkerState,
     IdleWorker
<1>4. CASE WorkerStart \/ Uploaded \/ UploadEnds \/ WorkerLink \/ WorkerNotify \/ WorkerRecord
           \/ WorkerReport \/ WorkerArchive
  BY <1>4 DEF WorkerStart, Uploaded, UploadEnds, WorkerLink, WorkerNotify,
     WorkerRecord,
     WorkerReport, WorkerArchive, At, EndWith, WorkerTypes, WorkerState, Outcomes
<1>6. CASE AppendStart \/ AppendTell \/ AppendUnmark \/ AppendEnds
  BY <1>6 DEF AppendStart, AppendTell, AppendUnmark, AppendEnds, At, WorkerTypes, WorkerState,
     Outcomes
<1>5. UNCHANGED worker \/ WorkerStep \/ Crash
  BY DEF Next, vars, tasks, Studio, Deliver, RepairManifest, Resignal, LoopStep,
     ClaimStep,
     RecoverStep, ClaimRegister, ClaimRead, ClaimGivesUp, LookupFails, ClaimRejected, ClaimRename,
     ClaimEnqueue, ClaimReport, RecoverGivesUp, RecoverFails, RecoverRejected, RecoverBind,
     RecoverEnqueue, ArchiveFailed, ScanFolder, DiscardStale, GateRejects, GateAccepts,
     RecoverLook, Operator, OperatorCancel, RetryStep, RetryBegin, RetryGivesUp, RetryMove,
     RetryMark, RetryBind, RetryEnqueue, RetryRecord
<1> QED BY <1>1, <1>2, <1>3, <1>4, <1>5, <1>6 DEF WorkerStep

\* The markers, their removal and archive_directory keep the types of the files.
LEMMA FilesKeepTypes ==
  ASSUME FileTypes, NEW f \in Folders
  PROVE  /\ RemoveMarkers(f) =>
               /\ marks' \in [Folders -> SUBSET {"fertig", "processing"}]
               /\ \A g \in Folders : g # f => marks'[g] = marks[g]
         /\ \A s \in SUBSET {"fertig", "processing"} :
               Mark(f, s) => /\ marks' \in [Folders -> SUBSET {"fertig", "processing"}]
                             /\ \A g \in Folders : marks'[g] = IF g = f THEN s ELSE marks[g]
         /\ \A to \in Archived : ArchiveDirectory(f, to) =>
               /\ place' \in [Folders -> Archived \cup {"absent", "share"}]
               /\ marks' \in [Folders -> SUBSET {"fertig", "processing"}]
               /\ \A g \in Folders : g # f => place'[g] = place[g] /\ marks'[g] = marks[g]
<1>1. ASSUME NEW s \in SUBSET {"fertig", "processing"}, Mark(f, s)
      PROVE  /\ marks' \in [Folders -> SUBSET {"fertig", "processing"}]
             /\ \A g \in Folders : marks'[g] = IF g = f THEN s ELSE marks[g]
  BY <1>1 DEF Mark, FileTypes
<1>3. ASSUME RemoveMarkers(f)
      PROVE  /\ marks' \in [Folders -> SUBSET {"fertig", "processing"}]
             /\ \A g \in Folders : g # f => marks'[g] = marks[g]
  <2>1. PICK s \in SUBSET {"fertig", "processing"} : Mark(f, s)
    BY <1>3 DEF RemoveMarkers, FileTypes
  <2> QED BY <1>1, <2>1
<1>2. ASSUME NEW to \in Archived, ArchiveDirectory(f, to)
      PROVE  /\ place' \in [Folders -> Archived \cup {"absent", "share"}]
             /\ marks' \in [Folders -> SUBSET {"fertig", "processing"}]
             /\ \A g \in Folders : g # f => place'[g] = place[g] /\ marks'[g] = marks[g]
  BY <1>2, <1>3 DEF ArchiveDirectory, FileTypes
<1> QED BY <1>1, <1>2, <1>3

LEMMA FileTypesStep ==
  ASSUME WorkerTypes, TaskTypes, FileTypes, [Next]_vars
  PROVE  FileTypes'
<1> USE DEF FileTypes
<1>1. CASE UNCHANGED files
  BY <1>1 DEF files
<1>2. ASSUME NEW f \in Folders, Deliver(f) \/ RepairManifest(f) \/ Resignal(f) PROVE FileTypes'
  BY <1>2, ManifestsAssumption DEF Deliver, RepairManifest, Resignal, Mark
<1>3. ASSUME NEW f \in Folders, Mark(f, {}) \/ Mark(f, {"processing"})
                                \/ Mark(f, marks[f] \cup {"processing"}),
             UNCHANGED <<place, manifest>>
      PROVE  FileTypes'
  BY <1>3 DEF Mark
<1>4. ASSUME NEW f \in Folders, NEW to \in Archived, ArchiveDirectory(f, to), UNCHANGED manifest
      PROVE  FileTypes'
  BY <1>4, FilesKeepTypes
<1>5. CASE \E m \in Monitors : ClaimRename(m)
  <2>1. PICK m \in Monitors : ClaimRename(m)
    BY <1>5
  <2>2. loop[m].folder \in Folders
    BY <2>1 DEF ClaimRename, TaskTypes
  <2>3. Mark(loop[m].folder, {"processing"}) \/ UNCHANGED marks
    BY <2>1 DEF ClaimRename
  <2> QED BY <1>1, <1>3, <2>1, <2>2, <2>3 DEF ClaimRename, files
<1>6. CASE \E m \in Monitors : ArchiveFailed(m)
  <2>1. PICK m \in Monitors : ArchiveFailed(m)
    BY <1>6
  <2>2. loop[m].folder \in Folders /\ "error" \in Archived
    BY <2>1 DEF ArchiveFailed, TaskTypes, Archived
  <2> QED BY <1>4, <2>1, <2>2 DEF ArchiveFailed
<1>7. CASE \E m \in Monitors, f \in Folders : DiscardStale(m, f) \/ RecoverLook(m, f)
  BY <1>1, <1>3, <1>7 DEF DiscardStale, RecoverLook, files
<1>8. CASE Uploaded \/ AppendUnmark
  <2>1. RemoveMarkers(worker.folder) /\ worker.folder \in Folders /\ UNCHANGED <<place, manifest>>
    BY <1>8 DEF Uploaded, AppendUnmark, WorkerTypes
  <2> QED BY <2>1, FilesKeepTypes
<1>9. CASE WorkerArchive
  <2>1. worker.folder \in Folders /\ worker.outcome \in Outcomes
    BY <1>9 DEF WorkerArchive, WorkerTypes
  <2>2. PICK to \in Archived : ArchiveDirectory(worker.folder, to)
    BY <1>9, <2>1 DEF WorkerArchive, Outcomes, Archived
  <2> QED BY <1>4, <1>9, <2>1, <2>2 DEF WorkerArchive
<1>10. CASE RetryMove \/ RetryMark
  <2>1. retry.folder \in Folders
    BY <1>10 DEF RetryMove, RetryMark, TaskTypes
  <2>2. CASE RetryMove
    BY <2>1, <2>2 DEF RetryMove
  <2>3. CASE RetryMark
    BY <1>1, <1>3, <2>1, <2>3 DEF RetryMark, files
  <2> QED BY <1>10, <2>2, <2>3
<1>11. \/ UNCHANGED files
       \/ \E f \in Folders : Deliver(f) \/ RepairManifest(f) \/ Resignal(f)
       \/ \E m \in Monitors : ClaimRename(m) \/ ArchiveFailed(m)
       \/ \E m \in Monitors, f \in Folders : DiscardStale(m, f) \/ RecoverLook(m, f)
       \/ Uploaded \/ AppendUnmark \/ WorkerArchive \/ RetryMove \/ RetryMark
  BY DEF Next, vars, Studio, LoopStep, ClaimStep, RecoverStep, ClaimRegister,
     ClaimRead,
     ClaimGivesUp, LookupFails, ClaimRejected, ClaimEnqueue, ClaimReport, RecoverGivesUp,
     RecoverFails, RecoverRejected, RecoverBind, RecoverEnqueue, ScanFolder, GateRejects,
     GateAccepts, WorkerStep, WorkerTake, WorkerUnresolved, WorkerStart, UploadEnds, WorkerLink,
     WorkerNotify, WorkerRecord, WorkerReport, WorkerDone, AppendStart, AppendTell, AppendEnds,
     Operator, OperatorCancel, RetryStep, RetryBegin, RetryGivesUp, RetryBind, RetryEnqueue, RetryRecord, Crash
<1> QED BY <1>1, <1>2, <1>5, <1>6, <1>7, <1>8, <1>9, <1>10, <1>11

LEMMA ReportTypesStep ==
  ASSUME WorkerTypes, TaskTypes, ReportTypes, [Next]_vars
  PROVE  ReportTypes'
<1> USE DEF ReportTypes
<1>1. CASE UNCHANGED reports
  BY <1>1 DEF reports
<1>2. ASSUME NEW f \in Folders, WriteOutbox(f, "accepted") \/ WriteOutbox(f, "rejected")
                \/ WriteOutbox(f, "queued") \/ WriteOutbox(f, "uploading")
                \/ WriteOutbox(f, "completed") \/ WriteOutbox(f, "failed")
      PROVE  outbox' \in [Folders -> {"none", "accepted", "rejected", "queued", "uploading",
                                      "completed", "failed"}]
  BY <1>2 DEF WriteOutbox
<1>3. ASSUME NEW f \in Folders, NEW s \in Outcomes \cup {"started"}, WriteHistory(f, s)
      PROVE  history' \in [Folders -> Outcomes \cup {"none", "started"}]
  BY <1>3 DEF WriteHistory
<1>9. CASE \E m \in Monitors : ClaimRename(m) \/ RecoverBind(m)
  <2>1. PICK m \in Monitors : RecordMarker(loop[m].folder) /\ loop[m].at # "idle" /\ UNCHANGED outbox
    BY <1>9 DEF ClaimRename, RecoverBind
  <2> QED BY <2>1 DEF RecordMarker, TaskTypes
<1>4. CASE \E m \in Monitors, f \in Folders : GateRejects(m, f) \/ GateAccepts(m, f)
  BY <1>2, <1>4 DEF GateRejects, GateAccepts
<1>5. CASE \E m \in Monitors : LookupFails(m) \/ ClaimRejected(m) \/ ClaimReport(m)
                               \/ RecoverFails(m) \/ RecoverRejected(m)
  <2>1. PICK m \in Monitors : LookupFails(m) \/ ClaimRejected(m) \/ ClaimReport(m)
                               \/ RecoverFails(m) \/ RecoverRejected(m)
    BY <1>5
  <2>2. loop[m].folder \in Folders /\ "failed" \in Outcomes
    BY <2>1 DEF LookupFails, ClaimRejected, ClaimReport, RecoverFails,
       RecoverRejected, TaskTypes,
                Outcomes
  <2>3. CASE LookupFails(m)
    BY <1>2, <1>3, <2>2, <2>3 DEF LookupFails
  <2>4. CASE ClaimRejected(m) \/ ClaimReport(m) \/ RecoverRejected(m)
    BY <1>2, <2>2, <2>4 DEF ClaimRejected, ClaimReport, RecoverRejected
  <2>5. CASE RecoverFails(m)
    BY <1>2, <1>3, <2>2, <2>5 DEF RecoverFails
  <2> QED BY <2>1, <2>3, <2>4, <2>5
<1>6. CASE WorkerUnresolved \/ WorkerRecord \/ WorkerStart \/ WorkerReport
  <2>1. worker.folder \in Folders /\ (WorkerRecord => worker.outcome \in Outcomes)
    BY <1>6 DEF WorkerUnresolved, WorkerRecord, WorkerStart, WorkerReport,
       WorkerTypes
  <2>2. CASE WorkerUnresolved
    BY <1>3, <2>1, <2>2 DEF WorkerUnresolved, Outcomes
  <2>3. CASE WorkerRecord
    BY <1>3, <2>1, <2>3 DEF WorkerRecord
  <2>4. CASE WorkerStart
    BY <1>2, <1>3, <2>1, <2>4 DEF WorkerStart
  <2>5. CASE WorkerReport
    <3>1. WriteOutbox(worker.folder, "completed") \/ WriteOutbox(worker.folder, "failed")
      BY <2>5 DEF WorkerReport
    <3> QED BY <1>2, <2>1, <2>5, <3>1 DEF WorkerReport
  <2> QED BY <1>6, <2>2, <2>3, <2>4, <2>5
<1>10. CASE AppendStart
  BY <1>2, <1>10 DEF AppendStart, WorkerTypes
<1>7. CASE RetryRecord
  BY <1>3, <1>7 DEF RetryRecord, TaskTypes
<1>8. \/ UNCHANGED reports
      \/ \E m \in Monitors, f \in Folders : GateRejects(m, f) \/ GateAccepts(m, f)
      \/ \E m \in Monitors : LookupFails(m) \/ ClaimRejected(m) \/ ClaimReport(m)
                             \/ RecoverFails(m) \/ RecoverRejected(m)
                             \/ ClaimRename(m) \/ RecoverBind(m)
      \/ WorkerUnresolved \/ WorkerRecord \/ WorkerStart \/ AppendStart \/ WorkerReport
      \/ RetryRecord
  BY DEF Next, vars, Studio, Deliver, RepairManifest, Resignal, LoopStep,
     ClaimStep, RecoverStep,
     ClaimRegister, ClaimRead, ClaimGivesUp, ClaimEnqueue, RecoverGivesUp, RecoverEnqueue, ArchiveFailed, ScanFolder, DiscardStale, RecoverLook,
     WorkerStep, WorkerTake, Uploaded, UploadEnds, WorkerLink, WorkerNotify, WorkerArchive,
     WorkerDone, AppendTell, AppendUnmark, AppendEnds, Operator, OperatorCancel, RetryStep,
     RetryBegin, RetryGivesUp, RetryMove, RetryMark, RetryBind, RetryEnqueue, Crash
<1> QED BY <1>1, <1>4, <1>5, <1>6, <1>7, <1>8, <1>9, <1>10

LEMMA CountTypesStep ==
  ASSUME WorkerTypes, TaskTypes, CountTypes, [Next]_vars
  PROVE  CountTypes'
<1> USE BoundsAssumption DEF CountTypes
<1>1. CASE \E f \in Folders : Deliver(f) \/ Resignal(f) \/ RetryBegin(f)
  BY <1>1 DEF Deliver, Resignal, RetryBegin
<1>2. CASE OperatorCancel \/ WorkerStart \/ AppendStart
  BY <1>2 DEF OperatorCancel, WorkerStart, AppendStart, counts
<1>7. ASSUME NEW f \in Folders, Linger(f) PROVE lingers' \in [Folders -> Nat]
  BY <1>7 DEF Linger
<1>8. CASE \E m \in Monitors : ArchiveFailed(m)
  <2>1. PICK m \in Monitors : ArchiveFailed(m)
    BY <1>8
  <2>2. loop[m].folder \in Folders
    BY <2>1 DEF ArchiveFailed, TaskTypes
  <2>3. Linger(loop[m].folder) \/ UNCHANGED lingers
    BY <2>1 DEF ArchiveFailed, ArchiveDirectory, RemoveMarkers
  <2> QED BY <1>7, <2>1, <2>2, <2>3 DEF ArchiveFailed
<1>9. CASE Uploaded \/ AppendUnmark \/ WorkerArchive
  <2>1. worker.folder \in Folders
    BY <1>9 DEF Uploaded, AppendUnmark, WorkerArchive, WorkerTypes
  <2>2. Linger(worker.folder) \/ UNCHANGED lingers
    BY <1>9 DEF Uploaded, AppendUnmark, WorkerArchive, ArchiveDirectory, RemoveMarkers
  <2> QED BY <1>7, <1>9, <2>1, <2>2 DEF Uploaded, AppendUnmark, WorkerArchive
<1>6. CASE Crash
  <2>1. /\ crashes < MaxCrashes /\ crashes' = crashes + 1 /\ cancel' = FALSE
        /\ UNCHANGED <<signals, notified, retries>>
    BY <1>6 DEF Crash
  <2>2. MaxCrashes \in Nat /\ crashes \in Nat
    OBVIOUS
  <2>3. crashes' \in 0..MaxCrashes
    BY <2>1, <2>2
  <2>4. cancel' \in BOOLEAN
    BY <2>1
  <2>5. /\ signals' \in [Folders -> 0..MaxSignals] /\ notified' \in [Folders -> Nat]
        /\ retries' \in [Folders -> 0..MaxRetries]
    BY <2>1
  <2>6. lingers' \in [Folders -> Nat]
    <3>1. \/ UNCHANGED lingers
          \/ worker.at = "told" /\ Linger(worker.folder)
      BY <1>6 DEF Crash
    <3>2. worker.at = "told" => worker.folder \in Folders
      BY DEF WorkerTypes
    <3> QED BY <1>7, <3>1, <3>2
  <2> QED BY <2>3, <2>4, <2>5, <2>6
<1>3. CASE WorkerNotify \/ AppendTell
  BY <1>3 DEF WorkerNotify, AppendTell, WorkerTypes
<1>4. CASE UNCHANGED <<cancel, counts>>
  BY <1>4 DEF counts
<1>5. \/ UNCHANGED <<cancel, counts>>
      \/ \E f \in Folders : Deliver(f) \/ Resignal(f) \/ RetryBegin(f)
      \/ OperatorCancel \/ WorkerStart \/ AppendStart \/ Crash \/ WorkerNotify \/ AppendTell
      \/ \E m \in Monitors : ArchiveFailed(m)
      \/ Uploaded \/ AppendUnmark \/ WorkerArchive
  BY DEF Next, vars, Studio, RepairManifest, LoopStep, ClaimStep, RecoverStep,
     ClaimRegister,
     ClaimRead, ClaimGivesUp, LookupFails, ClaimRejected, ClaimRename, ClaimEnqueue, ClaimReport,
     RecoverGivesUp, RecoverFails, RecoverRejected, RecoverBind, RecoverEnqueue,
     ScanFolder, DiscardStale, GateRejects, GateAccepts, RecoverLook, WorkerStep, WorkerTake,
     WorkerUnresolved, UploadEnds, WorkerLink, WorkerRecord, WorkerReport,
     WorkerDone, AppendEnds, Operator, RetryStep, RetryGivesUp, RetryMove, RetryMark,
     RetryBind, RetryEnqueue, RetryRecord
<1> QED BY <1>1, <1>2, <1>3, <1>4, <1>5, <1>6, <1>8, <1>9

\* The pipeline never leaves its types, whatever happens in which order.
THEOREM PipelineTypes == Spec => [](TypeOK /\ WorkerTypes)
<1>1. Init => Types
  <2> SUFFICES ASSUME Init PROVE Types
    OBVIOUS
  <2>1. WorkerTypes
    BY DEF Init, WorkerTypes, WorkerState, IdleWorker
  <2>2. FileTypes /\ ReportTypes
    BY DEF Init, FileTypes, ReportTypes
  <2>3. 0 \in 0..MaxSignals /\ 0 \in 0..MaxRetries /\ 0 \in 0..MaxCrashes
    BY BoundsAssumption
  <2>4. CountTypes
    BY <2>3 DEF Init, CountTypes
  <2> QED BY <2>1, <2>2, <2>4 DEF Types
<1>2. RegTypeOK /\ TaskTypes /\ Types /\ [Next]_vars => Types'
  BY WorkerTypesStep, FileTypesStep, ReportTypesStep, CountTypesStep DEF Types
<1>3. RegTypeOK /\ TaskTypes /\ Types => TypeOK /\ WorkerTypes
  BY DEF Types, TypeOK, TaskTypes, WorkerTypes, FileTypes, ReportTypes, CountTypes
<1> QED BY <1>1, <1>2, <1>3, TasksTyped, QueueFacts, PTL DEF Spec
=============================================================================
