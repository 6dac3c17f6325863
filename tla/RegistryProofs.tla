---------------------------- MODULE RegistryProofs ----------------------------
(***************************************************************************)
(* Proofs about RegistryClients, for any number of folders, callers and    *)
(* profiles and any length of the queue.                                   *)
(***************************************************************************)
EXTENDS RegistryClients, SequenceTheorems, TLAPS

-----------------------------------------------------------------------------
(***************************************************************************)
(* Facts about sequences of records with a folder.                         *)
(***************************************************************************)

\* RemoveAt drops one element and keeps the others in order.
LEMMA RemoveAtElements ==
  ASSUME NEW S, NEW s \in Seq(S), NEW k \in 1..Len(s)
  PROVE  /\ RemoveAt(s, k) \in Seq(S)
         /\ Len(RemoveAt(s, k)) = Len(s) - 1
         /\ \A i \in 1..(Len(s) - 1) :
               RemoveAt(s, k)[i] = IF i < k THEN s[i] ELSE s[i + 1]
<1> DEFINE front == SubSeq(s, 1, k - 1)
           back == SubSeq(s, k + 1, Len(s))
<1>0. Len(s) \in Nat /\ k \in Int
  BY LenProperties
<1>1. /\ front \in Seq(S)
      /\ Len(front) = k - 1
      /\ \A i \in 1..(k - 1) : front[i] = s[i]
  <2>1. \A i \in 1..(k - 1) : s[i] \in S
    BY ElementOfSeq, <1>0
  <2>2. /\ front \in Seq(S)
        /\ Len(front) = IF 1 <= k - 1 THEN k - 1 - 1 + 1 ELSE 0
        /\ \A i \in 1..(k - 1 - 1 + 1) : front[i] = s[1 + i - 1]
    BY <2>1, <1>0, SubSeqProperties
  <2> QED BY <2>2, <1>0
<1>2. /\ back \in Seq(S)
      /\ Len(back) = Len(s) - k
      /\ \A i \in 1..(Len(s) - k) : back[i] = s[k + i]
  <2>1. \A i \in (k + 1)..Len(s) : s[i] \in S
    BY ElementOfSeq, <1>0
  <2>2. /\ back \in Seq(S)
        /\ Len(back) = IF k + 1 <= Len(s) THEN Len(s) - (k + 1) + 1 ELSE 0
        /\ \A i \in 1..(Len(s) - (k + 1) + 1) : back[i] = s[k + 1 + i - 1]
    BY <2>1, <1>0, SubSeqProperties
  <2> QED BY <2>2, <1>0
<1>3. RemoveAt(s, k) = front \o back
  BY DEF RemoveAt
<1> HIDE DEF front, back
<1>4. /\ front \o back \in Seq(S)
      /\ Len(front \o back) = Len(front) + Len(back)
      /\ \A i \in 1..(Len(front) + Len(back)) :
            (front \o back)[i] = IF i <= Len(front) THEN front[i] ELSE back[i - Len(front)]
  BY <1>1, <1>2, ConcatProperties
<1> QED
  BY <1>0, <1>1, <1>2, <1>3, <1>4

\* Removing the row of a folder from a list with one row per folder.
LEMMA RemoveRow ==
  ASSUME NEW S, NEW s \in Seq(S), OneEach(s), NEW k \in DOMAIN s, NEW r, r = RemoveAt(s, k)
  PROVE  /\ r \in Seq(S)
         /\ OneEach(r)
         /\ FoldersOf(r) = FoldersOf(s) \ {s[k].folder}
         /\ \A i \in DOMAIN r : \E j \in DOMAIN s : j # k /\ r[i] = s[j]
         /\ \A j \in DOMAIN s : j # k => \E i \in DOMAIN r : r[i] = s[j]
<1>0. Len(s) \in Nat /\ DOMAIN s = 1..Len(s)
  BY LenProperties
<1>1. /\ r \in Seq(S)
      /\ Len(r) = Len(s) - 1
      /\ \A i \in 1..(Len(s) - 1) : r[i] = IF i < k THEN s[i] ELSE s[i + 1]
  BY <1>0, RemoveAtElements
<1>2. DOMAIN r = 1..(Len(s) - 1)
  BY <1>1, LenProperties
<1>3. OneEach(r)
  <2> DEFINE pos(i) == IF i < k THEN i ELSE i + 1
  <2>1. \A i \in DOMAIN r : pos(i) \in DOMAIN s /\ r[i] = s[pos(i)]
    BY <1>0, <1>1, <1>2
  <2>2. \A i, j \in DOMAIN r : pos(i) = pos(j) => i = j
    BY <1>0, <1>2
  <2> HIDE DEF pos
  <2> QED BY <2>1, <2>2 DEF OneEach
<1>4. \A i \in DOMAIN r : \E j \in DOMAIN s : j # k /\ r[i] = s[j]
  <2> TAKE i \in DOMAIN r
  <2>1. CASE i < k
    BY <2>1, <1>0, <1>1, <1>2
  <2>2. CASE ~(i < k)
    <3>1. i + 1 \in DOMAIN s /\ i + 1 # k /\ r[i] = s[i + 1]
      BY <2>2, <1>0, <1>1, <1>2
    <3> QED BY <3>1
  <2> QED BY <2>1, <2>2
<1>5. \A j \in DOMAIN s : j # k => \E i \in DOMAIN r : r[i] = s[j]
  <2> SUFFICES ASSUME NEW j \in DOMAIN s, j # k PROVE \E i \in DOMAIN r : r[i] = s[j]
    OBVIOUS
  <2>1. CASE j < k
    BY <2>1, <1>0, <1>1, <1>2
  <2>2. CASE ~(j < k)
    <3>1. j - 1 \in DOMAIN r /\ r[j - 1] = s[j]
      BY <2>2, <1>0, <1>1, <1>2
    <3> QED BY <3>1
  <2> QED BY <2>1, <2>2
<1>6. FoldersOf(r) = FoldersOf(s) \ {s[k].folder}
  BY <1>4, <1>5 DEF OneEach, FoldersOf
<1> QED
  BY <1>1, <1>3, <1>4, <1>5, <1>6

\* A record whose folder is new follows the others.
LEMMA AppendRow ==
  ASSUME NEW S, NEW s \in Seq(S), OneEach(s), NEW e, e.folder \notin FoldersOf(s),
         NEW r \in Seq(S), Len(r) = Len(s) + 1, \A i \in 1..Len(s) : r[i] = s[i],
         r[Len(s) + 1] = e
  PROVE  /\ OneEach(r)
         /\ FoldersOf(r) = FoldersOf(s) \cup {e.folder}
         /\ \A i \in DOMAIN r : r[i] = e \/ \E j \in DOMAIN s : r[i] = s[j]
<1>0. Len(s) \in Nat /\ DOMAIN s = 1..Len(s)
  BY LenProperties
<1>2. DOMAIN r = 1..(Len(s) + 1)
  BY LenProperties
<1>3. \A i \in DOMAIN r : (i \in DOMAIN s /\ r[i] = s[i]) \/ (i = Len(s) + 1 /\ r[i] = e)
  BY <1>0, <1>2
<1>4. \A i \in DOMAIN s : i \in DOMAIN r /\ r[i] = s[i]
  BY <1>0, <1>2
<1>5. Len(s) + 1 \in DOMAIN r
  BY <1>0, <1>2
<1>6. OneEach(r)
  BY <1>3 DEF OneEach, FoldersOf
<1>7. FoldersOf(r) = FoldersOf(s) \cup {e.folder}
  BY <1>3, <1>4, <1>5 DEF FoldersOf
<1> QED
  BY <1>3, <1>6, <1>7

\* Taking the first record of a list with one per folder.
LEMMA TailRows ==
  ASSUME NEW S, NEW s \in Seq(S), OneEach(s), s # <<>>
  PROVE  /\ Tail(s) \in Seq(S)
         /\ Head(s) \in S
         /\ OneEach(Tail(s))
         /\ Head(s).folder \in FoldersOf(s)
         /\ FoldersOf(Tail(s)) = FoldersOf(s) \ {Head(s).folder}
<1>0. /\ Len(s) \in Nat /\ DOMAIN s = 1..Len(s)
      /\ Len(s) # 0
  BY LenProperties, EmptySeq
<1>1. /\ Head(s) \in S
      /\ Head(s) = s[1]
      /\ Tail(s) \in Seq(S)
      /\ Len(Tail(s)) = Len(s) - 1
      /\ \A i \in 1..(Len(s) - 1) : Tail(s)[i] = s[i + 1]
  BY HeadTailProperties
<1>2. DOMAIN Tail(s) = 1..(Len(s) - 1)
  BY <1>1, LenProperties
<1>3. 1 \in DOMAIN s
  BY <1>0
<1>4. \A i \in DOMAIN Tail(s) : i + 1 \in DOMAIN s /\ i + 1 # 1 /\ Tail(s)[i] = s[i + 1]
  BY <1>0, <1>1, <1>2
<1>5. \A j \in DOMAIN s : j # 1 => j - 1 \in DOMAIN Tail(s) /\ Tail(s)[j - 1] = s[j]
  BY <1>0, <1>1, <1>2
<1>6. OneEach(Tail(s))
  BY <1>0, <1>2, <1>4 DEF OneEach
<1>7. FoldersOf(Tail(s)) = FoldersOf(s) \ {s[1].folder}
  <2>1. ASSUME NEW i \in DOMAIN Tail(s)
        PROVE  Tail(s)[i].folder \in FoldersOf(s) \ {s[1].folder}
    BY <2>1, <1>3, <1>4 DEF OneEach, FoldersOf
  <2>2. ASSUME NEW j \in DOMAIN s, s[j].folder # s[1].folder
        PROVE  s[j].folder \in FoldersOf(Tail(s))
    <3>1. j # 1
      BY <2>2
    <3>2. j - 1 \in DOMAIN Tail(s) /\ Tail(s)[j - 1] = s[j]
      BY <3>1, <1>5
    <3> QED BY <3>2 DEF FoldersOf
  <2> QED BY <2>1, <2>2 DEF FoldersOf
<1>8. s[1].folder \in FoldersOf(s)
  BY <1>3 DEF FoldersOf
<1> QED
  BY <1>1, <1>6, <1>7, <1>8

-----------------------------------------------------------------------------
(***************************************************************************)
(* The inductive invariant: the run's invariants, and where the folder of  *)
(* a busy caller or worker comes from.                                     *)
(***************************************************************************)
Busy ==
    /\ worker.at = "dead" <=> closed
    /\ closed => jobs = <<>>
    /\ worker.at \in {"taken", "active"} => worker.folder \in Folders
    /\ \A c \in Callers : caller[c].at # "idle" => caller[c].folder \in Folders

IInv == TypeOK /\ OneHolder /\ NoLeakedReservation /\ SnapshotIsTheWork /\ Busy

\* The row of a folder is the only one, so that FirstRow finds it.
LEMMA FirstRowIsTheRow ==
  ASSUME entries \in Seq(QueueEntry), OneEach(entries), NEW i \in DOMAIN entries
  PROVE  /\ Rows(entries[i].folder) # {}
         /\ FirstRow(entries[i].folder) = i
<1>1. Rows(entries[i].folder) = {i}
  BY DEF Rows, OneEach
<1>2. FirstRow(entries[i].folder) \in {i}
  <2>1. \A j \in {i} : i <= j
    BY LenProperties
  <2> QED BY <1>1, <2>1 DEF FirstRow
<1> QED BY <1>1, <1>2

\* unregister() takes the folder, and nothing else, out of the reservations and the rows.
LEMMA UnregisterEffect ==
  ASSUME IInv, NEW f, Unregister(f)
  PROVE  /\ pending' = pending \ {f}
         /\ entries' \in Seq(QueueEntry)
         /\ OneEach(entries')
         /\ EntryFolders' = EntryFolders \ {f}
         /\ \A i \in DOMAIN entries' :
               \E j \in DOMAIN entries : entries'[i] = entries[j]
         /\ \A j \in DOMAIN entries : entries[j].folder # f =>
               \E i \in DOMAIN entries' : entries'[i] = entries[j]
         /\ UNCHANGED <<jobs, closed>>
<1>0. entries \in Seq(QueueEntry) /\ OneEach(entries)
  BY DEF IInv, TypeOK, RegTypeOK, SnapshotIsTheWork
<1>1. CASE Rows(f) = {}
  <2>1. entries' = entries
    BY <1>1 DEF Unregister
  <2>2. f \notin EntryFolders
    BY <1>1 DEF Rows, EntryFolders, FoldersOf
  <2> QED BY <1>0, <2>1, <2>2 DEF Unregister, EntryFolders
<1>2. CASE Rows(f) # {}
  <2>1. PICK k \in DOMAIN entries : entries[k].folder = f
    BY <1>2 DEF Rows
  <2>2. FirstRow(f) = k
    BY <1>0, <2>1, FirstRowIsTheRow
  <2>3. entries' = RemoveAt(entries, k)
    BY <1>2, <2>2 DEF Unregister
  <2>4. /\ entries' \in Seq(QueueEntry)
        /\ OneEach(entries')
        /\ FoldersOf(entries') = FoldersOf(entries) \ {entries[k].folder}
        /\ \A i \in DOMAIN entries' : \E j \in DOMAIN entries : j # k /\ entries'[i] = entries[j]
        /\ \A j \in DOMAIN entries : j # k => \E i \in DOMAIN entries' : entries'[i] = entries[j]
    BY <1>0, <2>3, RemoveRow
  <2> QED BY <2>1, <2>4 DEF Unregister, EntryFolders
<1> QED BY <1>1, <1>2

\* enqueue() adds one waiting row and one job for a folder that had neither.
LEMMA EnqueueEffect ==
  ASSUME IInv, NEW job \in Job, NEW reserved, EnqueueSent(job, reserved),
         job.folder \notin EntryFolders, job.folder \notin QueuedFolders
  PROVE  /\ pending' = pending \cup {job.folder}
         /\ entries' \in Seq(QueueEntry)
         /\ jobs' \in Seq(Job)
         /\ OneEach(entries') /\ OneEach(jobs')
         /\ EntryFolders' = EntryFolders \cup {job.folder}
         /\ QueuedFolders' = QueuedFolders \cup {job.folder}
         /\ \A i \in DOMAIN entries' :
               \/ entries'[i].folder = job.folder /\ entries'[i].state = "waiting"
               \/ \E j \in DOMAIN entries : entries'[i] = entries[j]
         /\ ~closed /\ UNCHANGED closed
<1> DEFINE row == [folder |-> job.folder, account |-> job.account, state |-> "waiting"]
<1>0. /\ entries \in Seq(QueueEntry) /\ OneEach(entries)
      /\ jobs \in Seq(Job) /\ OneEach(jobs)
  BY DEF IInv, TypeOK, RegTypeOK, SnapshotIsTheWork, OneHolder
<1>1. row \in QueueEntry /\ row.folder = job.folder /\ row.state = "waiting"
  BY DEF QueueEntry, Job
<1>2. entries' = Append(entries, row) /\ jobs' = Append(jobs, job)
  BY DEF EnqueueSent
<1>3. row.folder \notin FoldersOf(entries) /\ job.folder \notin FoldersOf(jobs)
  BY <1>1 DEF EntryFolders, QueuedFolders
<1> HIDE DEF row
<1>4. /\ entries' \in Seq(QueueEntry)
      /\ Len(entries') = Len(entries) + 1
      /\ \A i \in 1..Len(entries) : entries'[i] = entries[i]
      /\ entries'[Len(entries) + 1] = row
  BY <1>0, <1>1, <1>2, AppendProperties
<1>5. /\ jobs' \in Seq(Job)
      /\ Len(jobs') = Len(jobs) + 1
      /\ \A i \in 1..Len(jobs) : jobs'[i] = jobs[i]
      /\ jobs'[Len(jobs) + 1] = job
  BY <1>0, <1>2, AppendProperties
<1>6. /\ entries' \in Seq(QueueEntry)
      /\ OneEach(entries')
      /\ FoldersOf(entries') = FoldersOf(entries) \cup {row.folder}
      /\ \A i \in DOMAIN entries' :
            entries'[i] = row \/ \E j \in DOMAIN entries : entries'[i] = entries[j]
  BY <1>0, <1>3, <1>4, AppendRow
<1>7. /\ jobs' \in Seq(Job)
      /\ OneEach(jobs')
      /\ FoldersOf(jobs') = FoldersOf(jobs) \cup {job.folder}
  BY <1>0, <1>3, <1>5, AppendRow
<1> QED
  BY <1>1, <1>6, <1>7 DEF EnqueueSent, EntryFolders, QueuedFolders

-----------------------------------------------------------------------------
(***************************************************************************)
(* The effect of the callers' steps on who reserves what.                  *)
(***************************************************************************)

\* What a caller that becomes idle leaves behind.
LEMMA IdleEffect ==
  ASSUME IInv, NEW c \in Callers, Idle(c)
  PROVE  /\ caller' \in [Callers -> CallerState]
         /\ \A d \in Callers : caller'[d] = IF d = c THEN IdleCaller ELSE caller[d]
         /\ \A d \in Callers : Reserving(d)' <=> (Reserving(d) /\ d # c)
         /\ ReservedFolders' = IF Reserving(c) THEN ReservedFolders \ {caller[c].folder}
                                               ELSE ReservedFolders
<1>1. caller \in [Callers -> CallerState] /\ IdleCaller \in CallerState
  BY DEF IInv, TypeOK, IdleCaller, CallerState, Binding
<1>2. /\ caller' \in [Callers -> CallerState]
      /\ \A d \in Callers : caller'[d] = IF d = c THEN IdleCaller ELSE caller[d]
  BY <1>1 DEF Idle
<1>3. \A d \in Callers : Reserving(d)' <=> (Reserving(d) /\ d # c)
  BY <1>2 DEF Reserving, IdleCaller
<1>4. \A d \in Callers : Reserving(c) /\ Reserving(d) /\ caller[c].folder = caller[d].folder => c = d
  BY DEF IInv, OneHolder
<1>5. ReservedFolders' = {caller[d].folder : d \in {e \in Callers : Reserving(e) /\ e # c}}
  BY <1>2, <1>3 DEF ReservedFolders
<1>6. ReservedFolders' = IF Reserving(c) THEN ReservedFolders \ {caller[c].folder}
                                         ELSE ReservedFolders
  BY <1>4, <1>5 DEF ReservedFolders
<1> QED BY <1>2, <1>3, <1>6

\* While nobody becomes or ceases to be a holder, the reserved folders stay.
LEMMA SameReservations ==
  ASSUME \A d \in Callers : Reserving(d)' <=> Reserving(d),
         \A d \in Callers : Reserving(d) => caller'[d].folder = caller[d].folder
  PROVE  ReservedFolders' = ReservedFolders
BY DEF ReservedFolders

\* The work in the channel and with the worker is in the snapshot, and all of it is
\* reserved.
LEMMA WorkIsPending ==
  ASSUME IInv
  PROVE  /\ QueuedFolders \cup WorkerFolder \subseteq EntryFolders
         /\ EntryFolders \subseteq pending
         /\ ReservedFolders \subseteq pending
<1>1. closed => QueuedFolders = {} /\ WorkerFolder = {}
  BY DEF IInv, Busy, QueuedFolders, FoldersOf, WorkerFolder
<1> QED BY <1>1 DEF IInv, SnapshotIsTheWork, NoLeakedReservation

-----------------------------------------------------------------------------
(***************************************************************************)
(* Every step preserves the invariant, one lemma per action.               *)
(***************************************************************************)
\* A program that has just started.
Fresh ==
    /\ RegInit
    /\ caller = [c \in Callers |-> IdleCaller]
    /\ worker = IdleWorker
    /\ profiles \in SUBSET Accounts
    /\ deleting = NoAccount

\* The invariant holds when the program starts, for the first time or again.
LEMMA FreshIInv == Fresh => IInv
<1> SUFFICES ASSUME Fresh PROVE IInv
  OBVIOUS
<1> USE DEF Fresh, RegInit
<1>1. TypeOK
  BY EmptySeq DEF TypeOK, RegTypeOK, CallerState, WorkerState, IdleCaller,
     IdleWorker, Binding
<1>2. ReservedFolders = {} /\ EntryFolders = {} /\ QueuedFolders = {} /\ WorkerFolder = {}
  BY DEF ReservedFolders, Reserving, EntryFolders, QueuedFolders, FoldersOf,
     WorkerFolder,
         IdleCaller, IdleWorker
<1>3. OneEach(jobs) /\ OneEach(entries)
  BY DEF OneEach
<1>4. OneHolder
  BY <1>2, <1>3 DEF OneHolder, Reserving, IdleCaller
<1>5. NoLeakedReservation
  BY <1>2 DEF NoLeakedReservation
<1>6. SnapshotIsTheWork
  BY <1>2, <1>3 DEF SnapshotIsTheWork
<1>7. Busy
  BY DEF Busy, IdleCaller, IdleWorker
<1> QED BY <1>1, <1>4, <1>5, <1>6, <1>7 DEF IInv

\* register(): a folder that was not pending gets exactly one holder.
LEMMA ClaimIInv ==
  ASSUME IInv, NEW c \in Callers, NEW f \in Folders, Claim(c, f)
  PROVE  IInv'
<1> DEFINE claimed == [at |-> "reserved", folder |-> f, account |-> NoAccount]
<1>1. /\ f \notin pending /\ pending' = pending \cup {f}
      /\ UNCHANGED <<entries, jobs, closed, worker, profiles, deleting>>
      /\ caller[c].at = "idle"
  BY DEF Claim, Register
<1>2. claimed \in CallerState
  BY DEF CallerState, Binding
<1>3. /\ caller \in [Callers -> CallerState]
      /\ caller' = [caller EXCEPT ![c] = claimed]
  BY DEF IInv, TypeOK, Claim
<1>4. /\ caller' \in [Callers -> CallerState]
      /\ \A d \in Callers : caller'[d] = IF d = c THEN claimed ELSE caller[d]
  BY <1>2, <1>3
<1>5. \A d \in Callers : Reserving(d)' <=> (Reserving(d) \/ d = c)
  BY <1>4 DEF Reserving
<1>6. ReservedFolders' = ReservedFolders \cup {f}
  BY <1>1, <1>4, <1>5 DEF ReservedFolders, Reserving
<1>7. EntryFolders' = EntryFolders /\ QueuedFolders' = QueuedFolders /\ WorkerFolder' = WorkerFolder
  BY <1>1 DEF EntryFolders, QueuedFolders, WorkerFolder
<1>8. TypeOK'
  BY <1>1, <1>4 DEF IInv, TypeOK, RegTypeOK
<1>9. \A d, e \in Callers :
         Reserving(d)' /\ Reserving(e)' /\ caller'[d].folder = caller'[e].folder => d = e
  <2>1. \A d \in Callers : Reserving(d) => caller[d].folder \in pending
    BY WorkIsPending DEF ReservedFolders
  <2> QED BY <1>1, <1>4, <1>5, <2>1 DEF IInv, OneHolder
<1>10. OneHolder'
  <2>1. f \notin QueuedFolders \cup WorkerFolder
    BY <1>1, WorkIsPending
  <2> QED BY <1>1, <1>6, <1>7, <1>9, <2>1 DEF IInv, OneHolder
<1>11. NoLeakedReservation'
  BY <1>1, <1>6, <1>7, WorkIsPending DEF IInv, NoLeakedReservation
<1>12. SnapshotIsTheWork'
  BY <1>1, <1>7 DEF IInv, SnapshotIsTheWork
<1>13. Busy'
  BY <1>1, <1>4 DEF IInv, Busy
<1> QED BY <1>8, <1>10, <1>11, <1>12, <1>13 DEF IInv

\* Steps of a caller that change neither the registry nor the reservations.
LEMMA QuietCallerIInv ==
  ASSUME IInv, NEW c \in Callers,
         UNCHANGED <<regVars, worker>>,
         profiles' \in SUBSET Accounts,
         deleting' \in Binding,
         caller' \in [Callers -> CallerState],
         \A d \in Callers : d # c => caller'[d] = caller[d],
         caller'[c].at # "idle" => caller'[c].folder \in Folders,
         Reserving(c)' <=> Reserving(c),
         Reserving(c) => caller'[c].folder = caller[c].folder
  PROVE  IInv'
<1>1. UNCHANGED <<pending, entries, jobs, closed>>
  BY DEF regVars
<1>2. /\ \A d \in Callers : Reserving(d)' <=> Reserving(d)
      /\ \A d \in Callers : Reserving(d) => caller'[d].folder = caller[d].folder
  BY DEF Reserving
<1>3. ReservedFolders' = ReservedFolders
  BY <1>2, SameReservations
<1>4. EntryFolders' = EntryFolders /\ QueuedFolders' = QueuedFolders /\ WorkerFolder' = WorkerFolder
  BY <1>1 DEF EntryFolders, QueuedFolders, WorkerFolder
<1>5. TypeOK'
  BY <1>1 DEF IInv, TypeOK, RegTypeOK
<1>6. OneHolder'
  BY <1>1, <1>2, <1>3, <1>4 DEF IInv, OneHolder
<1>7. NoLeakedReservation'
  BY <1>1, <1>3, <1>4 DEF IInv, NoLeakedReservation
<1>8. SnapshotIsTheWork'
  BY <1>1, <1>4 DEF IInv, SnapshotIsTheWork
<1>9. Busy'
  BY <1>1 DEF IInv, Busy
<1> QED BY <1>5, <1>6, <1>7, <1>8, <1>9 DEF IInv

\* Freezing the profile changes neither the registry nor who holds what.
LEMMA FreezeIInv ==
  ASSUME IInv, NEW c \in Callers, Freeze(c)
  PROVE  IInv'
<1>1. PICK a \in Binding :
         caller' = [caller EXCEPT ![c] =
                      [at |-> IF caller[c].at = "reserved" THEN "frozen" ELSE "bound",
                       folder |-> caller[c].folder, account |-> a]]
  BY DEF Freeze
<1> DEFINE next == IF caller[c].at = "reserved" THEN "frozen" ELSE "bound"
<1>2. caller \in [Callers -> CallerState]
  BY DEF IInv, TypeOK
<1>3. /\ caller' \in [Callers -> CallerState]
      /\ \A d \in Callers : d # c => caller'[d] = caller[d]
      /\ caller'[c].folder = caller[c].folder
      /\ caller'[c].at = next
  BY <1>1, <1>2 DEF CallerState
<1>4. caller[c].at \in {"reserved", "checked"} /\ caller[c].folder \in Folders
  BY DEF Freeze, IInv, Busy
<1>5. Reserving(c)' <=> Reserving(c)
  BY <1>3, <1>4 DEF Reserving
<1> QED
  BY <1>3, <1>4, <1>5, QuietCallerIInv DEF Freeze, IInv, TypeOK

\* is_registered(): looking reserves nothing.
LEMMA LookIInv ==
  ASSUME IInv, NEW c \in Callers, NEW f \in Folders, Look(c, f)
  PROVE  IInv'
<1> DEFINE seen == [at |-> "checked", folder |-> f, account |-> NoAccount]
<1>1. caller \in [Callers -> CallerState] /\ seen \in CallerState
  BY DEF IInv, TypeOK, CallerState, Binding
<1>2. /\ caller' \in [Callers -> CallerState]
      /\ \A d \in Callers : caller'[d] = IF d = c THEN seen ELSE caller[d]
  BY <1>1 DEF Look
<1>3. ~Reserving(c) /\ ~Reserving(c)'
  BY <1>2 DEF Look, Reserving
<1> QED
  BY <1>2, <1>3, QuietCallerIInv DEF Look, IInv, TypeOK

\* A caller that holds no reservation stops.
LEMMA StopIInv ==
  ASSUME IInv, NEW c \in Callers, ~Reserving(c), Idle(c),
         UNCHANGED <<regVars, worker, profiles, deleting>>
  PROVE  IInv'
<1>1. /\ caller' \in [Callers -> CallerState]
      /\ \A d \in Callers : caller'[d] = IF d = c THEN IdleCaller ELSE caller[d]
      /\ ~Reserving(c)'
  BY IdleEffect
<1>2. caller'[c].at = "idle"
  BY <1>1 DEF IdleCaller
<1> QED
  BY <1>1, <1>2, QuietCallerIInv DEF IInv, TypeOK

\* A caller gives its reservation back.
LEMMA GiveBackIInv ==
  ASSUME IInv, NEW c \in Callers, Reserving(c), Unregister(caller[c].folder), Idle(c),
         UNCHANGED <<worker, profiles, deleting>>
  PROVE  IInv'
<1> DEFINE f == caller[c].folder
<1>1. f \in ReservedFolders /\ f \notin EntryFolders
  BY DEF ReservedFolders, IInv, NoLeakedReservation
<1>2. f \notin QueuedFolders /\ f \notin WorkerFolder
  BY <1>1, WorkIsPending
<1>3. /\ pending' = pending \ {f}
      /\ entries' \in Seq(QueueEntry)
      /\ EntryFolders' = EntryFolders \ {f}
      /\ UNCHANGED <<jobs, closed>>
  BY UnregisterEffect
<1>4. entries' = entries
  BY <1>1 DEF Unregister, Rows, EntryFolders, FoldersOf
<1>5. /\ caller' \in [Callers -> CallerState]
      /\ \A d \in Callers : caller'[d] = IF d = c THEN IdleCaller ELSE caller[d]
      /\ \A d \in Callers : Reserving(d)' <=> (Reserving(d) /\ d # c)
      /\ ReservedFolders' = ReservedFolders \ {f}
  BY IdleEffect
<1> HIDE DEF f
<1>6. QueuedFolders' = QueuedFolders /\ WorkerFolder' = WorkerFolder /\ EntryFolders' = EntryFolders
  BY <1>3, <1>4 DEF QueuedFolders, WorkerFolder, EntryFolders
<1>7. TypeOK'
  BY <1>3, <1>5 DEF IInv, TypeOK, RegTypeOK
<1>8. OneHolder'
  BY <1>3, <1>5, <1>6 DEF IInv, OneHolder
<1>9. NoLeakedReservation'
  BY <1>1, <1>3, <1>5, <1>6 DEF IInv, NoLeakedReservation
<1>10. SnapshotIsTheWork'
  BY <1>3, <1>4, <1>6 DEF IInv, SnapshotIsTheWork
<1>11. Busy'
  BY <1>3, <1>5 DEF IInv, Busy, IdleCaller
<1> QED BY <1>7, <1>8, <1>9, <1>10, <1>11 DEF IInv

\* A caller's job enters the queue.
LEMMA SubmitIInv ==
  ASSUME IInv, NEW c \in Callers, caller[c].at \in {"frozen", "bound"},
         EnqueueSent(JobOf(c), caller[c].at = "frozen"), Idle(c),
         UNCHANGED <<worker, profiles, deleting>>
  PROVE  IInv'
<1> DEFINE f == caller[c].folder
<1>1. /\ JobOf(c) \in Job
      /\ JobOf(c).folder = f
  BY DEF JobOf, Job, IInv, TypeOK, Busy, CallerState
<1>2. Reserving(c) <=> f \in pending
  BY <1>1 DEF EnqueueSent, Reserving
<1>3. f \notin EntryFolders /\ f \notin QueuedFolders /\ f \notin WorkerFolder
  <2>1. CASE Reserving(c)
    <3>1. f \in ReservedFolders
      BY <2>1 DEF ReservedFolders
    <3> QED BY <3>1, WorkIsPending DEF IInv, NoLeakedReservation
  <2>2. CASE ~Reserving(c)
    BY <1>2, <2>2, WorkIsPending
  <2> QED BY <2>1, <2>2
<1>4. /\ pending' = pending \cup {f}
      /\ entries' \in Seq(QueueEntry)
      /\ jobs' \in Seq(Job)
      /\ OneEach(entries') /\ OneEach(jobs')
      /\ EntryFolders' = EntryFolders \cup {f}
      /\ QueuedFolders' = QueuedFolders \cup {f}
      /\ \A i \in DOMAIN entries' :
            \/ entries'[i].folder = f /\ entries'[i].state = "waiting"
            \/ \E j \in DOMAIN entries : entries'[i] = entries[j]
      /\ ~closed /\ UNCHANGED closed
  BY <1>1, <1>3, EnqueueEffect
<1>5. /\ caller' \in [Callers -> CallerState]
      /\ \A d \in Callers : caller'[d] = IF d = c THEN IdleCaller ELSE caller[d]
      /\ \A d \in Callers : Reserving(d)' <=> (Reserving(d) /\ d # c)
      /\ ReservedFolders' = IF Reserving(c) THEN ReservedFolders \ {f} ELSE ReservedFolders
  BY IdleEffect
<1>6. f \notin ReservedFolders'
  BY <1>2, <1>5, WorkIsPending
<1>7. WorkerFolder' = WorkerFolder
  BY DEF WorkerFolder
<1>8. f \in Folders
  BY DEF IInv, Busy
<1> HIDE DEF f
<1>9. TypeOK'
  BY <1>4, <1>5, <1>8 DEF IInv, TypeOK, RegTypeOK
<1>10. OneHolder'
  <2>1. OneEach(jobs)'
    BY <1>4 DEF OneEach
  <2>2. /\ (QueuedFolders \cap WorkerFolder = {})'
        /\ (ReservedFolders \cap (QueuedFolders \cup WorkerFolder) = {})'
    BY <1>3, <1>4, <1>5, <1>6, <1>7 DEF IInv, OneHolder
  <2>3. (\A d, e \in Callers :
           Reserving(d) /\ Reserving(e) /\ caller[d].folder = caller[e].folder => d = e)'
    BY <1>5 DEF IInv, OneHolder
  <2> QED BY <2>1, <2>2, <2>3 DEF OneHolder
<1>11. NoLeakedReservation'
  BY <1>3, <1>4, <1>5, <1>6, <1>2 DEF IInv, NoLeakedReservation, f
<1>12. SnapshotIsTheWork'
  <2>1. OneEach(entries)'
    BY <1>4 DEF OneEach
  <2>2. (EntryFolders = QueuedFolders \cup WorkerFolder)'
    BY <1>4, <1>7 DEF IInv, SnapshotIsTheWork
  <2>3. ASSUME NEW i \in DOMAIN entries'
        PROVE  entries'[i].state = "active"
                 <=> worker.at = "active" /\ entries'[i].folder = worker.folder
    <3>1. CASE entries'[i].folder = f /\ entries'[i].state = "waiting"
      BY <1>3, <3>1 DEF WorkerFolder
    <3>2. CASE \E j \in DOMAIN entries : entries'[i] = entries[j]
      BY <1>4, <3>2 DEF IInv, SnapshotIsTheWork
    <3> QED BY <1>4, <3>1, <3>2
  <2> QED BY <2>1, <2>2, <2>3 DEF SnapshotIsTheWork
<1>13. Busy'
  BY <1>4, <1>5 DEF IInv, Busy, IdleCaller
<1> QED BY <1>9, <1>10, <1>11, <1>12, <1>13 DEF IInv

\* Callers do not move while the worker or the operator does.
LEMMA CallersStay ==
  ASSUME UNCHANGED caller
  PROVE  ReservedFolders' = ReservedFolders /\ \A d \in Callers : Reserving(d)' <=> Reserving(d)
BY DEF ReservedFolders, Reserving

\* recv(): the folder moves from the channel to the worker and keeps its row.
LEMMA ReceiveIInv ==
  ASSUME IInv, WorkerReceive
  PROVE  IInv'
<1> DEFINE f == Head(jobs).folder
<1>1. /\ worker.at = "idle" /\ ~closed /\ jobs # <<>>
      /\ jobs' = Tail(jobs)
      /\ worker' = [at |-> "taken", folder |-> f]
      /\ UNCHANGED <<pending, entries, closed, caller, profiles, deleting>>
  BY DEF WorkerReceive, Receive
<1>2. /\ jobs' \in Seq(Job)
      /\ OneEach(jobs')
      /\ f \in Folders
      /\ f \in QueuedFolders
      /\ QueuedFolders' = QueuedFolders \ {f}
  <2>1. jobs \in Seq(Job) /\ OneEach(jobs)
    BY DEF IInv, TypeOK, RegTypeOK, OneHolder
  <2>2. /\ jobs' \in Seq(Job)
        /\ OneEach(jobs')
        /\ Head(jobs) \in Job
        /\ Head(jobs).folder \in FoldersOf(jobs)
        /\ FoldersOf(jobs') = FoldersOf(jobs) \ {Head(jobs).folder}
    BY <1>1, <2>1, TailRows
  <2> QED BY <2>2 DEF QueuedFolders, Job
<1>3. WorkerFolder = {} /\ WorkerFolder' = {f}
  BY <1>1 DEF WorkerFolder
<1>4. /\ ReservedFolders' = ReservedFolders
      /\ \A d \in Callers : Reserving(d)' <=> Reserving(d)
  BY <1>1, CallersStay
<1>5. EntryFolders' = EntryFolders
  BY <1>1 DEF EntryFolders
<1> HIDE DEF f
<1>6. TypeOK'
  BY <1>1, <1>2 DEF IInv, TypeOK, RegTypeOK, WorkerState
<1>7. OneHolder'
  <2>1. OneEach(jobs)'
    BY <1>2 DEF OneEach
  <2> QED BY <1>1, <1>2, <1>3, <1>4, <2>1 DEF IInv, OneHolder
<1>8. NoLeakedReservation'
  BY <1>1, <1>4, <1>5 DEF IInv, NoLeakedReservation
<1>9. SnapshotIsTheWork'
  BY <1>1, <1>2, <1>3, <1>5 DEF IInv, SnapshotIsTheWork
<1>10. Busy'
  BY <1>1, <1>2 DEF IInv, Busy
<1> QED BY <1>6, <1>7, <1>8, <1>9, <1>10 DEF IInv

\* mark_active(): the row that becomes active is the one of the worker's folder.
LEMMA ActivateIInv ==
  ASSUME IInv, WorkerActivate
  PROVE  IInv'
<1> DEFINE f == worker.folder
<1>1. /\ worker.at = "taken" /\ ~closed
      /\ f \in Folders
      /\ UNCHANGED <<pending, jobs, closed, caller, profiles, deleting>>
  BY DEF WorkerActivate, MarkActive, IInv, Busy
<1>2. worker' = [at |-> "active", folder |-> f]
  BY DEF WorkerActivate, IInv, TypeOK, WorkerState
<1>3. entries \in Seq(QueueEntry) /\ OneEach(entries)
  BY DEF IInv, TypeOK, RegTypeOK, SnapshotIsTheWork
<1>4. WorkerFolder = {f} /\ WorkerFolder' = {f}
  BY <1>1, <1>2 DEF WorkerFolder
<1>5. PICK k \in DOMAIN entries : entries[k].folder = f
  BY <1>1, <1>4 DEF IInv, SnapshotIsTheWork, EntryFolders, FoldersOf
<1>6. entries' = [entries EXCEPT ![k].state = "active"]
  BY <1>3, <1>5, FirstRowIsTheRow DEF WorkerActivate, MarkActive
<1>7. /\ DOMAIN entries' = DOMAIN entries
      /\ \A i \in DOMAIN entries :
            /\ entries'[i].folder = entries[i].folder
            /\ entries'[i].state = IF i = k THEN "active" ELSE entries[i].state
  BY <1>3, <1>6, ElementOfSeq, LenProperties DEF QueueEntry
<1>8. entries' \in Seq(QueueEntry)
  <2>1. [entries[k] EXCEPT !.state = "active"] \in QueueEntry
    <3>1. entries[k] \in QueueEntry
      BY <1>3, <1>5, ElementOfSeq, LenProperties
    <3>2. ASSUME NEW e \in QueueEntry PROVE [e EXCEPT !.state = "active"] \in QueueEntry
      BY DEF QueueEntry
    <3> QED BY <3>1, <3>2
  <2>2. k \in 1..Len(entries)
    BY <1>3, LenProperties
  <2>3. entries' = [entries EXCEPT ![k] = [entries[k] EXCEPT !.state = "active"]]
    BY <1>6
  <2> QED BY <1>3, <2>1, <2>2, <2>3, ExceptSeq
<1>9. EntryFolders' = EntryFolders /\ QueuedFolders' = QueuedFolders
  BY <1>1, <1>7 DEF EntryFolders, QueuedFolders, FoldersOf
<1>10. /\ ReservedFolders' = ReservedFolders
       /\ \A d \in Callers : Reserving(d)' <=> Reserving(d)
  BY <1>1, CallersStay
<1>11. TypeOK'
  BY <1>1, <1>2, <1>8 DEF IInv, TypeOK, RegTypeOK, WorkerState
<1>12. OneHolder'
  BY <1>1, <1>4, <1>9, <1>10 DEF IInv, OneHolder
<1>13. NoLeakedReservation'
  BY <1>1, <1>9, <1>10 DEF IInv, NoLeakedReservation
<1>14. SnapshotIsTheWork'
  <2>1. OneEach(entries)'
    BY <1>3, <1>7 DEF OneEach
  <2>2. (EntryFolders = QueuedFolders \cup WorkerFolder)'
    BY <1>1, <1>4, <1>9 DEF IInv, SnapshotIsTheWork
  <2>3. ASSUME NEW i \in DOMAIN entries
        PROVE  entries'[i].state = "active" <=> entries'[i].folder = f
    <3>1. CASE i = k
      BY <1>5, <1>7, <3>1
    <3>2. CASE i # k
      <4>1. entries[i].folder # f
        BY <1>3, <1>5, <3>2 DEF OneEach
      <4>2. entries[i].state # "active"
        BY <1>1 DEF IInv, SnapshotIsTheWork
      <4> QED BY <1>7, <3>2, <4>1, <4>2
    <3> QED BY <3>1, <3>2
  <2> QED BY <1>2, <1>7, <2>1, <2>2, <2>3 DEF SnapshotIsTheWork
<1>15. Busy'
  BY <1>1, <1>2 DEF IInv, Busy
<1> QED BY <1>11, <1>12, <1>13, <1>14, <1>15 DEF IInv

\* The worker is done with its folder, uploaded or not.
LEMMA DoneIInv ==
  ASSUME IInv, worker.at \in {"taken", "active"}, Unregister(worker.folder),
         worker' = IdleWorker, UNCHANGED <<caller, profiles, deleting>>
  PROVE  IInv'
<1> DEFINE f == worker.folder
<1>1. ~closed /\ WorkerFolder = {f} /\ WorkerFolder' = {}
  BY DEF IInv, Busy, WorkerFolder, IdleWorker
<1>2. /\ f \notin QueuedFolders /\ f \notin ReservedFolders
      /\ EntryFolders = QueuedFolders \cup {f}
  BY <1>1 DEF IInv, OneHolder, SnapshotIsTheWork
<1>3. /\ pending' = pending \ {f}
      /\ entries' \in Seq(QueueEntry)
      /\ OneEach(entries')
      /\ EntryFolders' = EntryFolders \ {f}
      /\ \A i \in DOMAIN entries' : \E j \in DOMAIN entries : entries'[i] = entries[j]
      /\ UNCHANGED <<jobs, closed>>
  BY UnregisterEffect
<1>4. /\ ReservedFolders' = ReservedFolders
      /\ \A d \in Callers : Reserving(d)' <=> Reserving(d)
  BY CallersStay
<1>5. QueuedFolders' = QueuedFolders
  BY <1>3 DEF QueuedFolders
<1> HIDE DEF f
<1>6. TypeOK'
  BY <1>3 DEF IInv, TypeOK, RegTypeOK, WorkerState, IdleWorker
<1>7. OneHolder'
  BY <1>1, <1>3, <1>4, <1>5 DEF IInv, OneHolder
<1>8. NoLeakedReservation'
  BY <1>2, <1>3, <1>4 DEF IInv, NoLeakedReservation
<1>9. SnapshotIsTheWork'
  <2>1. OneEach(entries)'
    BY <1>3 DEF OneEach
  <2>2. (EntryFolders = QueuedFolders \cup WorkerFolder)'
    BY <1>1, <1>2, <1>3, <1>5
  <2>3. ASSUME NEW i \in DOMAIN entries' PROVE entries'[i].state # "active"
    <3>1. PICK j \in DOMAIN entries : entries'[i] = entries[j]
      BY <1>3
    <3>2. entries'[i].folder \in EntryFolders'
      BY DEF EntryFolders, FoldersOf
    <3>3. entries[j].folder # f
      BY <1>3, <3>1, <3>2
    <3>4. entries[j].state # "active"
      BY <1>1, <3>3 DEF IInv, SnapshotIsTheWork, f
    <3> QED BY <3>1, <3>4
  <2>4. worker'.at # "active"
    BY DEF IdleWorker
  <2> QED BY <2>1, <2>2, <2>3, <2>4 DEF SnapshotIsTheWork
<1>10. Busy'
  BY <1>1, <1>3 DEF IInv, Busy, IdleWorker
<1> QED BY <1>6, <1>7, <1>8, <1>9, <1>10 DEF IInv

\* A worker that dies takes the channel with it; reservations and rows agree as before.
LEMMA DiesIInv ==
  ASSUME IInv, WorkerDies
  PROVE  IInv'
<1>1. /\ worker' = [at |-> "dead", folder |-> NoFolder]
      /\ closed' = TRUE
      /\ jobs' = <<>>
      /\ UNCHANGED <<pending, entries, caller, profiles, deleting>>
  BY DEF WorkerDies, DropReceiver
<1>2. WorkerFolder' = {} /\ QueuedFolders' = {} /\ EntryFolders' = EntryFolders
  BY <1>1 DEF WorkerFolder, QueuedFolders, EntryFolders, FoldersOf
<1>3. /\ ReservedFolders' = ReservedFolders
      /\ \A d \in Callers : Reserving(d)' <=> Reserving(d)
  BY <1>1, CallersStay
<1>4. TypeOK'
  BY <1>1, EmptySeq DEF IInv, TypeOK, RegTypeOK, WorkerState
<1>5. OneHolder'
  <2>1. OneEach(jobs)'
    BY <1>1 DEF OneEach
  <2> QED BY <1>1, <1>2, <1>3, <2>1 DEF IInv, OneHolder
<1>6. NoLeakedReservation'
  BY <1>1, <1>2, <1>3 DEF IInv, NoLeakedReservation
<1>7. SnapshotIsTheWork'
  BY <1>1 DEF IInv, SnapshotIsTheWork
<1>8. Busy'
  BY <1>1 DEF IInv, Busy
<1> QED BY <1>4, <1>5, <1>6, <1>7, <1>8 DEF IInv

\* Steps of neither a caller nor the worker, the operator's deletion of a profile among them.
LEMMA ElsewhereIInv ==
  ASSUME IInv, UNCHANGED <<pending, entries, jobs, closed, caller, worker>>,
         profiles' \in SUBSET Accounts, deleting' \in Binding
  PROVE  IInv'
<1>1. /\ ReservedFolders' = ReservedFolders
      /\ \A d \in Callers : Reserving(d)' <=> Reserving(d)
  BY CallersStay
<1>2. EntryFolders' = EntryFolders /\ QueuedFolders' = QueuedFolders /\ WorkerFolder' = WorkerFolder
  BY DEF EntryFolders, QueuedFolders, WorkerFolder
<1>3. TypeOK'
  BY DEF IInv, TypeOK, RegTypeOK
<1>4. OneHolder'
  BY <1>1, <1>2 DEF IInv, OneHolder
<1>5. NoLeakedReservation'
  BY <1>1, <1>2 DEF IInv, NoLeakedReservation
<1>6. SnapshotIsTheWork'
  BY <1>2 DEF IInv, SnapshotIsTheWork
<1>7. Busy'
  BY DEF IInv, Busy
<1> QED BY <1>3, <1>4, <1>5, <1>6, <1>7 DEF IInv

\* The operator's deletion of a profile does not touch the registry.
LEMMA OperatorIInv ==
  ASSUME IInv, Operator
  PROVE  IInv'
<1>1. UNCHANGED <<pending, entries, jobs, closed, caller, worker>>
  BY DEF Operator, DeleteCommit, DeleteGuard, regVars
<1>2. profiles' \in SUBSET Accounts /\ deleting' \in Binding
  BY DEF Operator, DeleteCommit, DeleteGuard, IInv, TypeOK, Binding
<1> QED BY <1>1, <1>2, ElsewhereIInv

\* A restart loses everything the invariant relates.
LEMMA RestartIInv ==
  ASSUME IInv, Restart
  PROVE  IInv'
<1>1. Fresh'
  BY DEF Restart, RegRestart, Fresh, RegInit, IInv, TypeOK
<1>2. (Fresh => IInv)'
  BY FreshIInv, PTL
<1> QED BY <1>1, <1>2

\* Every step of the claim, recovery and retry paths preserves the invariant.
LEMMA CallerStepIInv ==
  ASSUME IInv, NEW c \in Callers, CallerStep(c)
  PROVE  IInv'
<1>1. CASE \E f \in Folders : Claim(c, f) \/ Look(c, f)
  BY <1>1, ClaimIInv, LookIInv
<1>2. CASE Freeze(c)
  BY <1>2, FreezeIInv
<1>3. CASE GiveUp(c)
  BY <1>3, GiveBackIInv DEF GiveUp
<1>4. CASE EnqueueReserved(c)
  <2>1. caller[c].at = "frozen"
    BY <1>4 DEF EnqueueReserved
  <2>2. EnqueueSent(JobOf(c), caller[c].at = "frozen")
    BY <1>4, <2>1 DEF EnqueueReserved, EnqueueSent
  <2> QED BY <1>4, <2>1, <2>2, SubmitIInv DEF EnqueueReserved
<1>5. CASE EnqueueReservedDropped(c)
  <2>1. Reserving(c)
    BY <1>5 DEF EnqueueReservedDropped, Reserving
  <2> QED BY <1>5, <2>1, GiveBackIInv DEF EnqueueReservedDropped
<1>6. CASE TurnAway(c)
  <2>1. ~Reserving(c)
    BY <1>6 DEF TurnAway, Reserving
  <2> QED BY <1>6, <2>1, StopIInv DEF TurnAway
<1>7. CASE EnqueueDirect(c)
  <2>1. /\ caller[c].at = "bound" /\ ~Reserving(c)
        /\ Idle(c)
        /\ UNCHANGED <<worker, profiles, deleting>>
    BY <1>7 DEF EnqueueDirect, Reserving
  <2>2. CASE EnqueueSent(JobOf(c), FALSE)
    <3>1. EnqueueSent(JobOf(c), caller[c].at = "frozen")
      BY <2>1, <2>2 DEF EnqueueSent
    <3> QED BY <2>1, <3>1, SubmitIInv
  <2>3. CASE EnqueueRefused(JobOf(c), FALSE)
    BY <2>1, <2>3, StopIInv DEF EnqueueRefused
  <2>4. CASE EnqueueDropped(JobOf(c), FALSE)
    <3>1. UNCHANGED regVars
      BY <2>4 DEF EnqueueDropped, regVars
    <3> QED BY <2>1, <3>1, StopIInv
  <2> QED BY <1>7, <2>2, <2>3, <2>4 DEF EnqueueDirect
<1> QED
  BY <1>1, <1>2, <1>3, <1>4, <1>5, <1>6, <1>7 DEF CallerStep

\* Every step preserves the invariant.
LEMMA NextIInv == IInv /\ [Next]_vars => IInv'
<1> SUFFICES ASSUME IInv, [Next]_vars PROVE IInv'
  OBVIOUS
<1>1. CASE \E c \in Callers : CallerStep(c)
  BY <1>1, CallerStepIInv
<1>2. CASE WorkerReceive
  BY <1>2, ReceiveIInv
<1>3. CASE WorkerUnresolved
  BY <1>3, DoneIInv DEF WorkerUnresolved
<1>4. CASE WorkerActivate
  BY <1>4, ActivateIInv
<1>5. CASE WorkerFinish
  BY <1>5, DoneIInv DEF WorkerFinish
<1>6. CASE WorkerDies
  BY <1>6, DiesIInv
<1>7. CASE Operator
  BY <1>7, OperatorIInv
<1>8. CASE Restart
  BY <1>8, RestartIInv
<1>9. CASE UNCHANGED vars
  BY <1>9, ElsewhereIInv DEF vars, regVars, IInv, TypeOK
<1> QED
  BY <1>1, <1>2, <1>3, <1>4, <1>5, <1>6, <1>7, <1>8, <1>9 DEF Next, WorkerStep

-----------------------------------------------------------------------------
\* The invariant holds in every reachable state of every instance.
THEOREM Invariance == Spec => []IInv
<1>1. Init => IInv
  BY FreshIInv DEF Init, Fresh
<1> QED BY <1>1, NextIInv, PTL DEF Spec

\* The registry, its channel, the callers and the worker keep their types.
THEOREM TypeCorrect == Spec => []TypeOK
<1>1. IInv => TypeOK
  BY DEF IInv
<1> QED BY Invariance, <1>1, PTL

\* No folder is ever held twice, by the channel, the worker or the callers that reserve.
THEOREM HeldOnce == Spec => []OneHolder
<1>1. IInv => OneHolder
  BY DEF IInv
<1> QED BY Invariance, <1>1, PTL

\* No early return, refusal or closed channel leaves a reservation behind.
THEOREM NothingLeaks == Spec => []NoLeakedReservation
<1>1. IInv => NoLeakedReservation
  BY DEF IInv
<1> QED BY Invariance, <1>1, PTL

\* The snapshot shows exactly the work that is left.
THEOREM SnapshotCorrect == Spec => []SnapshotIsTheWork
<1>1. IInv => SnapshotIsTheWork
  BY DEF IInv
<1> QED BY Invariance, <1>1, PTL

-----------------------------------------------------------------------------
(***************************************************************************)
(* Refinement: every step is a step of one folder's slot, or none.         *)
(***************************************************************************)
SlotMap == [f \in Folders |-> SlotOf(f)]

\* While the worker lives, the active row is the one of the folder it uploads.
LEMMA ActiveIsTheWorkers ==
  IInv /\ ~closed => ActiveFolders = IF worker.at = "active" THEN {worker.folder} ELSE {}
<1> SUFFICES ASSUME IInv, ~closed
             PROVE  ActiveFolders = IF worker.at = "active" THEN {worker.folder} ELSE {}
  OBVIOUS
<1>1. \A i \in DOMAIN entries :
         entries[i].state = "active" <=> worker.at = "active" /\ entries[i].folder = worker.folder
  BY DEF IInv, SnapshotIsTheWork
<1>2. CASE worker.at = "active"
  <2>1. worker.folder \in EntryFolders
    BY <1>2, WorkIsPending DEF WorkerFolder
  <2> QED BY <1>1, <1>2, <2>1 DEF ActiveFolders, EntryFolders, FoldersOf
<1>3. CASE worker.at # "active"
  BY <1>1, <1>3 DEF ActiveFolders
<1> QED BY <1>2, <1>3

\* The same in the next state.
LEMMA ActiveIsTheWorkersNext ==
  (IInv /\ ~closed => ActiveFolders = IF worker.at = "active" THEN {worker.folder} ELSE {})'
BY ActiveIsTheWorkers, PTL

\* The slots are a function of three sets.
LEMMA SlotsFollowSets ==
  ASSUME NEW f \in Folders,
         \A g \in Folders \ {f} : /\ g \in ActiveFolders' <=> g \in ActiveFolders
                                  /\ g \in EntryFolders' <=> g \in EntryFolders
                                  /\ g \in pending' <=> g \in pending
  PROVE  SlotMap' = [SlotMap EXCEPT ![f] = SlotOf(f)']
<1>1. \A g \in Folders \ {f} : SlotOf(g)' = SlotOf(g)
  BY DEF SlotOf
<1> QED BY <1>1 DEF SlotMap

\* Steps that leave rows and reservations alone leave every slot alone.
LEMMA SlotsStay ==
  ASSUME UNCHANGED <<ActiveFolders, EntryFolders, pending>>
  PROVE  SlotMap' = SlotMap
BY DEF SlotMap, SlotOf

\* The active folders are among those with a row.
LEMMA ActiveAreRows == ActiveFolders \subseteq EntryFolders
BY DEF ActiveFolders, EntryFolders, FoldersOf

\* A folder becomes free again.
LEMMA UnregisterSlot ==
  ASSUME IInv, NEW f \in Folders, Unregister(f), f \in pending
  PROVE  /\ SlotMap' = [SlotMap EXCEPT ![f] = "free"]
         /\ f \notin EntryFolders => SlotOf(f) = "reserved"
         /\ f \in EntryFolders => SlotOf(f) \in {"waiting", "active"}
<1>1. /\ pending' = pending \ {f}
      /\ EntryFolders' = EntryFolders \ {f}
      /\ \A i \in DOMAIN entries' : \E j \in DOMAIN entries : entries'[i] = entries[j]
      /\ \A j \in DOMAIN entries : entries[j].folder # f =>
            \E i \in DOMAIN entries' : entries'[i] = entries[j]
  BY UnregisterEffect
<1>2. ASSUME NEW g \in Folders \ {f}
      PROVE  g \in ActiveFolders' <=> g \in ActiveFolders
  BY <1>1 DEF ActiveFolders
<1>3. f \notin EntryFolders' /\ f \notin ActiveFolders' /\ f \notin pending'
  <2>1. f \notin ActiveFolders'
    BY <1>1 DEF ActiveFolders, EntryFolders, FoldersOf
  <2> QED BY <1>1, <2>1
<1>4. SlotOf(f)' = "free"
  BY <1>3 DEF SlotOf
<1>5. SlotMap' = [SlotMap EXCEPT ![f] = SlotOf(f)']
  BY <1>1, <1>2, SlotsFollowSets
<1> QED
  BY <1>4, <1>5, ActiveAreRows DEF SlotOf

\* enqueue(): a free or reserved folder becomes a waiting one.
LEMMA SubmitSlot ==
  ASSUME IInv, IInv', NEW job \in Job, NEW reserved, EnqueueSent(job, reserved),
         job.folder \notin EntryFolders, UNCHANGED worker
  PROVE  Slots!Submit(job.folder)
<1> DEFINE f == job.folder
<1>1. f \in Folders
  BY DEF Job
<1>2. f \notin QueuedFolders
  BY WorkIsPending
<1>3. /\ pending' = pending \cup {f}
      /\ EntryFolders' = EntryFolders \cup {f}
      /\ ~closed /\ UNCHANGED closed
  BY <1>2, EnqueueEffect
<1>4. ActiveFolders' = ActiveFolders
  BY <1>3, ActiveIsTheWorkers, ActiveIsTheWorkersNext
<1>5. SlotOf(f) \in {"free", "reserved"} /\ SlotOf(f)' = "waiting"
  BY <1>3, <1>4, ActiveAreRows DEF SlotOf
<1>6. SlotMap' = [SlotMap EXCEPT ![f] = SlotOf(f)']
  BY <1>1, <1>3, <1>4, SlotsFollowSets
<1> QED
  BY <1>1, <1>5, <1>6 DEF Slots!Submit, Slots!Move, SlotMap

\* A step of a claim, a recovery or a retry is a step of one slot, or none.
LEMMA CallerStepSlots ==
  ASSUME IInv, IInv', NEW c \in Callers, CallerStep(c)
  PROVE  [Slots!Next]_SlotMap
<1> USE DEF SlotMap
<1>1. ASSUME NEW f \in Folders, Claim(c, f)
      PROVE  Slots!Reserve(f)
  <2>1. /\ f \notin pending /\ pending' = pending \cup {f} /\ UNCHANGED entries
    BY <1>1 DEF Claim, Register
  <2>2. /\ EntryFolders' = EntryFolders /\ ActiveFolders' = ActiveFolders
        /\ f \notin EntryFolders /\ f \notin ActiveFolders
    BY <2>1, WorkIsPending, ActiveAreRows DEF EntryFolders, ActiveFolders
  <2>3. SlotOf(f) = "free" /\ SlotOf(f)' = "reserved"
    BY <2>1, <2>2 DEF SlotOf
  <2>4. SlotMap' = [SlotMap EXCEPT ![f] = SlotOf(f)']
    BY <2>1, <2>2, SlotsFollowSets
  <2> QED BY <2>3, <2>4 DEF Slots!Reserve, Slots!Move
<1>2. ASSUME UNCHANGED <<pending, entries>>
      PROVE  UNCHANGED SlotMap
  BY <1>2, SlotsStay DEF EntryFolders, ActiveFolders
<1>3. ASSUME Reserving(c), Unregister(caller[c].folder)
      PROVE  Slots!GiveUp(caller[c].folder)
  <2> DEFINE f == caller[c].folder
  <2>1. f \in Folders /\ f \in pending /\ f \notin EntryFolders
    BY <1>3 DEF IInv, Busy, Reserving, NoLeakedReservation, ReservedFolders
  <2>2. SlotMap' = [SlotMap EXCEPT ![f] = "free"] /\ SlotOf(f) = "reserved"
    BY <1>3, <2>1, UnregisterSlot
  <2> QED BY <2>1, <2>2 DEF Slots!GiveUp, Slots!Move
<1>4. ASSUME caller[c].at \in {"frozen", "bound"}
      PROVE  JobOf(c) \in Job
  BY <1>4 DEF JobOf, Job, IInv, TypeOK, Busy, CallerState
<1>5. CASE \E f \in Folders : Claim(c, f)
  BY <1>1, <1>5 DEF Slots!Next
<1>6. CASE (\E f \in Folders : Look(c, f)) \/ Freeze(c) \/ TurnAway(c)
  BY <1>2, <1>6 DEF Look, Freeze, TurnAway, regVars
<1>7. CASE GiveUp(c) \/ EnqueueReservedDropped(c)
  <2>1. Reserving(c) /\ Unregister(caller[c].folder) /\ caller[c].folder \in Folders
    BY <1>7 DEF GiveUp, EnqueueReservedDropped, Reserving, IInv, Busy
  <2> QED BY <1>3, <2>1 DEF Slots!Next
<1>8. CASE EnqueueReserved(c)
  <2>1. /\ EnqueueSent(JobOf(c), TRUE) /\ UNCHANGED worker
        /\ caller[c].at = "frozen"
    BY <1>8 DEF EnqueueReserved
  <2>2. JobOf(c) \in Job
    BY <1>4, <2>1
  <2>3. JobOf(c).folder \notin EntryFolders
    BY <2>1 DEF JobOf, IInv, NoLeakedReservation, ReservedFolders, Reserving
  <2>4. Slots!Submit(JobOf(c).folder)
    BY <2>1, <2>2, <2>3, SubmitSlot
  <2>5. JobOf(c).folder \in Folders
    BY <2>2 DEF Job
  <2> QED BY <2>4, <2>5 DEF Slots!Next
<1>9. CASE EnqueueDirect(c)
  <2>1. JobOf(c) \in Job /\ UNCHANGED worker
    BY <1>4, <1>9 DEF EnqueueDirect
  <2>2. CASE EnqueueSent(JobOf(c), FALSE)
    <3>1. JobOf(c).folder \notin EntryFolders
      BY <2>2, WorkIsPending DEF EnqueueSent
    <3>2. Slots!Submit(JobOf(c).folder)
      BY <2>1, <2>2, <3>1, SubmitSlot
    <3>3. JobOf(c).folder \in Folders
      BY <2>1 DEF Job
    <3> QED BY <3>2, <3>3 DEF Slots!Next
  <2>3. CASE EnqueueRefused(JobOf(c), FALSE) \/ EnqueueDropped(JobOf(c), FALSE)
    BY <1>2, <2>3 DEF EnqueueRefused, EnqueueDropped, regVars
  <2> QED BY <1>9, <2>2, <2>3 DEF EnqueueDirect
<1> QED
  BY <1>5, <1>6, <1>7, <1>8, <1>9 DEF CallerStep

\* So is a step of the worker and of the operator.
LEMMA WorkerStepSlots ==
  ASSUME IInv, IInv', WorkerStep \/ WorkerDies \/ Operator
  PROVE  [Slots!Next]_SlotMap
<1> USE DEF SlotMap
<1>1. ASSUME UNCHANGED <<pending, entries>>
      PROVE  UNCHANGED SlotMap
  BY <1>1, SlotsStay DEF EntryFolders, ActiveFolders
<1>2. CASE WorkerReceive \/ WorkerDies \/ Operator
  BY <1>1, <1>2 DEF WorkerReceive, Receive, WorkerDies, DropReceiver, Operator,
     DeleteCommit,
                    DeleteGuard, regVars
<1>3. CASE WorkerUnresolved \/ WorkerFinish
  <2> DEFINE f == worker.folder
  <2>1. worker.at \in {"taken", "active"} /\ Unregister(f) /\ f \in Folders
    BY <1>3 DEF WorkerUnresolved, WorkerFinish, IInv, Busy
  <2>2. f \in pending /\ f \in EntryFolders
    BY <2>1, WorkIsPending DEF WorkerFolder
  <2>3. SlotMap' = [SlotMap EXCEPT ![f] = "free"] /\ SlotOf(f) \in {"waiting", "active"}
    BY <2>1, <2>2, UnregisterSlot
  <2>4. Slots!Finish(f)
    BY <2>1, <2>3 DEF Slots!Finish, Slots!Move
  <2> QED BY <2>1, <2>4 DEF Slots!Next
<1>4. CASE WorkerActivate
  <2>0. PICK f \in Folders : f = worker.folder
    BY <1>4 DEF WorkerActivate, IInv, Busy
  <2>1. /\ worker.at = "taken" /\ ~closed /\ UNCHANGED <<pending, closed>>
        /\ f = worker.folder
    BY <1>4, <2>0 DEF WorkerActivate, MarkActive, IInv, Busy
  <2>2. worker'.at = "active" /\ worker'.folder = f
    BY <1>4, <2>1 DEF WorkerActivate, IInv, TypeOK, WorkerState
  <2>3. ActiveFolders = {} /\ ActiveFolders' = {f}
    BY <2>1, <2>2, ActiveIsTheWorkers, ActiveIsTheWorkersNext
  <2>4. EntryFolders' = EntryFolders
    <3>1. EntryFolders = QueuedFolders \cup {f}
      BY <2>1 DEF IInv, SnapshotIsTheWork, WorkerFolder
    <3>2. EntryFolders' = QueuedFolders' \cup {f}
      BY <2>1, <2>2 DEF IInv, SnapshotIsTheWork, WorkerFolder
    <3>3. QueuedFolders' = QueuedFolders
      BY <1>4 DEF WorkerActivate, MarkActive, QueuedFolders
    <3> QED BY <3>1, <3>2, <3>3
  <2>5. f \in EntryFolders
    BY <2>1, WorkIsPending DEF WorkerFolder
  <2> HIDE DEF SlotMap
  <2>6. SlotOf(f) = "waiting" /\ SlotOf(f)' = "active" /\ \A g \in Folders : SlotOf(g) # "active"
    BY <2>3, <2>4, <2>5 DEF SlotOf
  <2>7. SlotMap' = [SlotMap EXCEPT ![f] = SlotOf(f)']
    BY <2>1, <2>3, <2>4, SlotsFollowSets
  <2>8. Slots!Start(f)
    BY <2>1, <2>6, <2>7 DEF Slots!Start, Slots!Move, SlotMap
  <2> QED BY <2>1, <2>8 DEF Slots!Next
<1> QED
  BY <1>2, <1>3, <1>4 DEF WorkerStep

\* The registry with all its callers implements the one-slot-per-folder queue.
THEOREM QueueImplementsSlots == Spec => ImplementsSlots
<1>1. Init => Slots!Init
  <2> SUFFICES ASSUME Init PROVE Slots!Init
    OBVIOUS
  <2>1. EntryFolders = {} /\ ActiveFolders = {} /\ pending = {}
    BY DEF Init, RegInit, EntryFolders, ActiveFolders, FoldersOf
  <2> QED BY <2>1 DEF Slots!Init, SlotOf
<1>2. IInv /\ IInv' /\ [Next]_vars => [Slots!Next]_SlotMap
  <2>1. ASSUME UNCHANGED vars PROVE UNCHANGED SlotMap
    BY <2>1, SlotsStay DEF vars, regVars, EntryFolders, ActiveFolders
  <2>2. ASSUME Restart PROVE Slots!Restart
    <3>1. (EntryFolders = {} /\ ActiveFolders = {} /\ pending = {})'
      BY <2>2 DEF Restart, RegRestart, EntryFolders, ActiveFolders, FoldersOf
    <3> QED BY <3>1 DEF Slots!Restart, SlotOf
  <2> QED BY <2>1, <2>2, CallerStepSlots, WorkerStepSlots DEF Next, Slots!Next
<1> QED
  BY <1>1, <1>2, Invariance, PTL DEF Spec, ImplementsSlots, Slots!Spec, SlotMap

=============================================================================
