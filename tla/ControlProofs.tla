----------------------------- MODULE ControlProofs ------------------------------
(***************************************************************************)
(* Pause and cancel hold for any number of parallel transfers, commands    *)
(* and jobs, and whichever stores of the three flags interleave: a         *)
(* transfer that waited when cancel was stored does not go on, and the     *)
(* mark "Pausiert" is always some waiting transfer's.                      *)
(***************************************************************************)
EXTENDS UploadControl, SequenceTheorems, TLAPS

\* The stores an operation works off; only a transfer itself sets holding.
Stores == {On("pause"), On("cancel")} \cup {Off(f) : f \in Flags}

Places == {"out", "work", "done", "cancelled",
           "loop", "paused", "announce", "withdraw", "clear", "check"}

TypeOK ==
    /\ flags \in [Flags -> BOOLEAN]
    /\ todo \in [Actors -> Seq(Stores)]
    /\ task \in [Tasks -> [at : Places, announced : BOOLEAN]]
    /\ worker \in {"idle", "resetting", "uploading"}
    /\ append \in {"idle", "resolving", "resetting", "uploading"}

\* Transfers are out unless the worker or the append that launched them is uploading.
OthersAreOut ==
    /\ worker # "uploading" => \A t \in JobTasks : task[t] = Out
    /\ append # "uploading" => \A t \in AppendTasks : task[t] = Out

\* Whoever waited when cancel was stored is waiting still or has failed, and cancel is
\* still set: clearing the flag forgets who was owed it.
OwedAreLeaving ==
    /\ \A t \in owed : t \in Tasks /\ (Waiting(t) \/ task[t].at = "cancelled")
    /\ owed # {} => flags["cancel"]

IInv == TypeOK /\ OthersAreOut /\ OwedAreLeaving /\ HoldingIsSomeones

-----------------------------------------------------------------------------
\* Every operation is a list of such stores.
LEMMA OperationsAreStores ==
  /\ reset_for_new_job \in Seq(Stores) /\ request_pause \in Seq(Stores)
  /\ request_resume \in Seq(Stores) /\ request_cancel \in Seq(Stores)
BY DEF Stores, Flags, On, Off, reset_for_new_job, request_pause, request_resume,
   request_cancel

\* A store sets one of the three flags, and never sets holding.
LEMMA StoreFacts ==
  ASSUME NEW s \in Stores
  PROVE  /\ s.flag \in Flags /\ s.to \in BOOLEAN
         /\ s.flag = "holding" => ~s.to
         /\ s.flag = "cancel" => s = On("cancel") \/ s = Off("cancel")
         /\ s = On("cancel") => s.flag = "cancel" /\ s.to
         /\ On("cancel") # Off("cancel")
<1>1. \A f : On(f).flag = f /\ On(f).to = TRUE /\ Off(f).flag = f /\ Off(f).to = FALSE
  BY DEF On, Off
<1>2. s = On("pause") \/ s = On("cancel") \/ \E f \in Flags : s = Off(f)
  BY DEF Stores
<1>3. On("cancel") # Off("cancel") /\ On("cancel") # On("pause")
  BY <1>1
<1>4. s.flag \in Flags /\ s.to \in BOOLEAN
  BY <1>1, <1>2 DEF Flags
<1>5. s.flag = "holding" => ~s.to
  BY <1>1, <1>2
<1>6. s.flag = "cancel" => s = On("cancel") \/ s = Off("cancel")
  BY <1>1, <1>2
<1> QED BY <1>1, <1>3, <1>4, <1>5, <1>6

\* At the start no transfer runs and no flag is set.
LEMMA InitIInv == Init => IInv
BY DEF Init, IInv, TypeOK, OthersAreOut, OwedAreLeaving, HoldingIsSomeones, Out,
   Places,
       Flags, Actors, Tasks

\* A store of the UI, of the worker's reset or of the append's leaves the transfers alone:
\* storing cancel makes the waiting transfers owed, clearing it forgets them.
LEMMA DoStoreIInv ==
  ASSUME IInv, NEW a \in Actors, DoStore(a)
  PROVE  IInv'
<1> DEFINE s == Head(todo[a])
<1>1. /\ todo[a] \in Seq(Stores) /\ todo[a] # <<>> /\ flags \in [Flags -> BOOLEAN]
      /\ UNCHANGED <<task, worker, append>>
      /\ flags' = [flags EXCEPT ![s.flag] = s.to]
      /\ todo' = [todo EXCEPT ![a] = Tail(@)]
  BY DEF IInv, TypeOK, DoStore, SetFlag
<1>2. s \in Stores /\ Tail(todo[a]) \in Seq(Stores)
  BY <1>1, HeadTailProperties
<1>3. /\ s.flag \in Flags /\ s.to \in BOOLEAN
      /\ s.flag = "holding" => ~s.to
      /\ s.flag = "cancel" => s = On("cancel") \/ s = Off("cancel")
      /\ s = On("cancel") => s.flag = "cancel" /\ s.to
      /\ On("cancel") # Off("cancel")
  BY <1>2, StoreFacts
<1>4. owed' = IF s = On("cancel") THEN owed \cup {t \in Tasks : Waiting(t)}
              ELSE IF s = Off("cancel") THEN {} ELSE owed
  BY DEF DoStore
<1> HIDE DEF s
<1>5. TypeOK'
  BY <1>1, <1>2, <1>3 DEF IInv, TypeOK
<1>6. OthersAreOut'
  BY <1>1 DEF IInv, OthersAreOut
<1>7. HoldingIsSomeones'
  <2>1. flags'["holding"] => flags["holding"]
    BY <1>1, <1>3 DEF Flags
  <2> QED BY <1>1, <2>1 DEF IInv, HoldingIsSomeones
<1>8. OwedAreLeaving'
  <2>1. CASE s = On("cancel")
    <3>1. owed' = owed \cup {t \in Tasks : Waiting(t)} /\ flags'["cancel"]
      BY <1>1, <1>3, <1>4, <2>1 DEF Flags
    <3> QED BY <1>1, <3>1 DEF IInv, OwedAreLeaving, Waiting
  <2>2. CASE s = Off("cancel")
    <3>1. owed' = {}
      BY <1>3, <1>4, <2>2
    <3> QED BY <3>1 DEF OwedAreLeaving
  <2>3. CASE s # On("cancel") /\ s # Off("cancel")
    <3>1. owed' = owed /\ flags'["cancel"] = flags["cancel"]
      BY <1>1, <1>3, <1>4, <2>3 DEF Flags
    <3> QED BY <1>1, <3>1 DEF IInv, OwedAreLeaving, Waiting
  <2> QED BY <2>1, <2>2, <2>3
<1> QED BY <1>5, <1>6, <1>7, <1>8 DEF IInv

\* Issuing a command, taking up work and looking at the queue move no transfer.
LEMMA QuietIInv ==
  ASSUME IInv, UNCHANGED <<flags, task, owed>>,
         todo' \in [Actors -> Seq(Stores)],
         \/ UNCHANGED <<worker, append>>
         \/ worker # "uploading" /\ worker' = "resetting" /\ UNCHANGED append
         \/ /\ append # "uploading" /\ append' \in {"resolving", "resetting"}
            /\ UNCHANGED worker
  PROVE  IInv'
<1>1. TypeOK'
  BY DEF IInv, TypeOK
<1>2. OthersAreOut'
  BY DEF IInv, OthersAreOut
<1>3. OwedAreLeaving' /\ HoldingIsSomeones'
  BY DEF IInv, OwedAreLeaving, HoldingIsSomeones, Waiting
<1> QED BY <1>1, <1>2, <1>3 DEF IInv

\* Launching the transfers of one side: they were out, so neither owed nor announced.
LEMMA LaunchIInv ==
  ASSUME IInv, NEW ts, Launch(ts), UNCHANGED <<flags, todo, owed>>,
         \/ /\ ts = JobTasks /\ worker = "resetting" /\ worker' = "uploading"
            /\ UNCHANGED append
         \/ /\ ts = AppendTasks /\ append = "resetting" /\ append' = "uploading"
            /\ UNCHANGED worker
  PROVE  IInv'
<1>1. task \in [Tasks -> [at : Places, announced : BOOLEAN]]
  BY DEF IInv, TypeOK
<1>2. /\ ts \subseteq Tasks /\ \A t \in ts : task[t] = Out
  BY DEF IInv, OthersAreOut, Tasks
<1>3. /\ \A t \in ts : task'[t] = [at |-> "work", announced |-> FALSE]
      /\ \A t \in Tasks \ ts : task'[t] = task[t]
  BY <1>2 DEF Launch
<1>4. TypeOK'
  BY <1>1 DEF IInv, TypeOK, Launch, Places
<1>5. OthersAreOut'
  BY <1>3, TasksAssumption DEF IInv, OthersAreOut, Tasks
<1>6. OwedAreLeaving'
  BY <1>2, <1>3 DEF IInv, OwedAreLeaving, Waiting, Out
<1>7. HoldingIsSomeones'
  BY <1>2, <1>3 DEF IInv, HoldingIsSomeones, Out
<1> QED BY <1>4, <1>5, <1>6, <1>7 DEF IInv

\* Ending a side's upload: its transfers are done or failed, so none of them is the one
\* that holds.
LEMMA CollectIInv ==
  ASSUME IInv, NEW ts, Collect(ts), UNCHANGED <<flags, todo>>,
         \/ ts = JobTasks /\ worker' = "idle" /\ UNCHANGED append
         \/ ts = AppendTasks /\ append' = "idle" /\ UNCHANGED worker
  PROVE  IInv'
<1>1. task \in [Tasks -> [at : Places, announced : BOOLEAN]]
  BY DEF IInv, TypeOK
<1>2. ts \subseteq Tasks
  BY DEF Tasks
<1>3. /\ \A t \in ts : task[t].at \in {"done", "cancelled"} /\ task'[t] = Out
      /\ \A t \in Tasks \ ts : task'[t] = task[t]
      /\ owed' = owed \ ts
  BY <1>2 DEF Collect
<1>4. TypeOK'
  BY <1>1 DEF IInv, TypeOK, Collect, Places, Out
<1>5. OthersAreOut'
  BY <1>3 DEF IInv, OthersAreOut, Tasks
<1>6. OwedAreLeaving'
  BY <1>3 DEF IInv, OwedAreLeaving, Waiting
<1>7. HoldingIsSomeones'
  BY <1>3 DEF IInv, HoldingIsSomeones
<1> QED BY <1>4, <1>5, <1>6, <1>7 DEF IInv

\* One step of a transfer that ends in x, and what it must respect: it was launched, it
\* does not take up work while it is owed the cancel, and if it leaves the pause it had
\* announced, or has not announced it, it leaves holding cleared or as it was.
LEMMA TransferIInv ==
  ASSUME IInv, NEW t \in Tasks, task[t] # Out,
         NEW x \in [at : Places, announced : BOOLEAN],
         task' = [task EXCEPT ![t] = x], UNCHANGED <<todo, worker, append, owed>>,
         flags' \in [Flags -> BOOLEAN], flags'["cancel"] = flags["cancel"],
         t \in owed => x.at \in {"loop", "paused", "announce", "withdraw", "clear",
                                 "check", "cancelled"},
         \/ ~flags'["holding"]
         \/ x.announced /\ x.at \in {"loop", "paused", "withdraw", "clear"}
         \/ /\ flags'["holding"] = flags["holding"]
            /\ task[t].announced => task[t].at \notin {"loop", "paused", "withdraw", "clear"}
  PROVE  IInv'
<1>1. task \in [Tasks -> [at : Places, announced : BOOLEAN]]
  BY DEF IInv, TypeOK
<1>2. task'[t] = x /\ \A u \in Tasks \ {t} : task'[u] = task[u]
  BY <1>1
<1>3. TypeOK'
  BY <1>1 DEF IInv, TypeOK
<1>4. OthersAreOut'
  BY <1>2 DEF IInv, OthersAreOut, Tasks
<1>5. OwedAreLeaving'
  BY <1>2 DEF IInv, OwedAreLeaving, Waiting
<1>6. HoldingIsSomeones'
  BY <1>2 DEF IInv, HoldingIsSomeones
<1> QED BY <1>3, <1>4, <1>5, <1>6 DEF IInv

\* The steps of a transfer outside wait_if_paused: it works on a chunk, so is not owed.
LEMMA WorkIInv ==
  ASSUME IInv, NEW t \in Tasks, CallWait(t) \/ EndTransfer(t)
  PROVE  IInv'
<1>1. /\ flags \in [Flags -> BOOLEAN]
      /\ task \in [Tasks -> [at : Places, announced : BOOLEAN]]
  BY DEF IInv, TypeOK
<1>2. task[t].at = "work" /\ task[t] # Out
  BY DEF CallWait, EndTransfer, Out
<1>3. t \notin owed
  BY <1>2 DEF IInv, OwedAreLeaving, Waiting
<1>4. CASE CallWait(t)
  <2> DEFINE x == [at |-> "loop", announced |-> FALSE]
  <2>1. x \in [at : Places, announced : BOOLEAN]
    BY DEF Places
  <2>2. /\ task' = [task EXCEPT ![t] = x] /\ UNCHANGED <<flags, todo, worker, append, owed>>
    BY <1>4 DEF CallWait, OnlyTask
  <2> HIDE DEF x
  <2> QED BY <1>1, <1>2, <1>3, <2>1, <2>2, TransferIInv
<1>5. CASE EndTransfer(t)
  <2> DEFINE x == [task[t] EXCEPT !.at = "done"]
  <2>1. x \in [at : Places, announced : BOOLEAN]
    BY <1>1 DEF Places
  <2>2. /\ task' = [task EXCEPT ![t] = x] /\ UNCHANGED <<flags, todo, worker, append, owed>>
    BY <1>1, <1>5 DEF EndTransfer, Goto, OnlyTask
  <2> HIDE DEF x
  <2> QED BY <1>1, <1>2, <1>3, <2>1, <2>2, TransferIInv
<1> QED BY <1>4, <1>5

\* The steps of wait_if_paused.  The one that reads cancel after the wait is the step that
\* makes cancel win: who is owed it finds the flag set.
LEMMA WaitIInv ==
  ASSUME IInv, NEW t \in Tasks, InWait(t)
  PROVE  IInv'
<1>1. /\ flags \in [Flags -> BOOLEAN]
      /\ task \in [Tasks -> [at : Places, announced : BOOLEAN]]
      /\ t \in owed => flags["cancel"]
  BY DEF IInv, TypeOK, OwedAreLeaving
<1>2. task[t] # Out
  <2>1. Out.at = "out"
    BY DEF Out
  <2>2. task[t].at \in {"loop", "paused", "announce", "withdraw", "clear", "check"}
    BY DEF InWait, LoadPause, LoadCancel, Announce, Withdraw, ClearHolding,
       check_cancelled
  <2> QED BY <2>1, <2>2
<1>3. \A at : Goto(t, at) => task' = [task EXCEPT ![t] = [at |-> at, announced |-> task[t].announced]]
  BY <1>1 DEF Goto
<1>4. CASE LoadPause(t)
  <2>1. PICK at \in {"paused", "clear", "check"} :
          /\ Goto(t, at) /\ task[t].at = "loop"
          /\ at # "check" \/ ~task[t].announced
    <3>1. CASE flags["pause"]
      BY <1>4, <3>1 DEF LoadPause
    <3>2. CASE ~flags["pause"]
      BY <1>4, <3>2 DEF LoadPause
    <3> QED BY <3>1, <3>2
  <2>2. UNCHANGED <<flags, todo, worker, append, owed>>
    BY <1>4 DEF LoadPause, OnlyTask
  <2>3. [at |-> at, announced |-> task[t].announced] \in [at : Places, announced : BOOLEAN]
    BY <1>1 DEF Places
  <2> QED BY <1>1, <1>2, <1>3, <2>1, <2>2, <2>3, TransferIInv
<1>5. CASE LoadCancel(t)
  <2>1. PICK at \in {"withdraw", "cancelled", "loop", "announce"} :
          /\ Goto(t, at) /\ task[t].at = "paused"
          /\ at \in {"cancelled", "announce"} => ~task[t].announced
    BY <1>5 DEF LoadCancel
  <2>2. UNCHANGED <<flags, todo, worker, append, owed>>
    BY <1>5 DEF LoadCancel, OnlyTask
  <2>3. [at |-> at, announced |-> task[t].announced] \in [at : Places, announced : BOOLEAN]
    BY <1>1 DEF Places
  <2> QED BY <1>1, <1>2, <1>3, <2>1, <2>2, <2>3, TransferIInv
<1>6. CASE Announce(t)
  <2>1. /\ task' = [task EXCEPT ![t] = [at |-> "loop", announced |-> TRUE]]
        /\ flags' = [flags EXCEPT !["holding"] = TRUE]
        /\ UNCHANGED <<todo, worker, append, owed>>
    BY <1>6 DEF Announce, SetFlag, OnlyTask
  <2>2. [at |-> "loop", announced |-> TRUE] \in [at : Places, announced : BOOLEAN]
    BY DEF Places
  <2>3. flags' \in [Flags -> BOOLEAN] /\ flags'["cancel"] = flags["cancel"]
    BY <1>1, <2>1 DEF Flags
  <2> QED BY <1>2, <2>1, <2>2, <2>3, TransferIInv
<1>7. CASE Withdraw(t) \/ ClearHolding(t)
  <2>1. PICK at \in {"cancelled", "check"} : Goto(t, at)
    BY <1>7 DEF Withdraw, ClearHolding
  <2>2. /\ flags' = [flags EXCEPT !["holding"] = FALSE]
        /\ UNCHANGED <<todo, worker, append, owed>>
    BY <1>7 DEF Withdraw, ClearHolding, SetFlag, OnlyTask
  <2>3. /\ flags' \in [Flags -> BOOLEAN] /\ flags'["cancel"] = flags["cancel"]
        /\ ~flags'["holding"]
    BY <1>1, <2>2 DEF Flags
  <2>4. [at |-> at, announced |-> task[t].announced] \in [at : Places, announced : BOOLEAN]
    BY <1>1 DEF Places
  <2> QED BY <1>2, <1>3, <2>1, <2>2, <2>3, <2>4, TransferIInv
<1>8. CASE check_cancelled(t)
  <2>1. PICK at \in {"cancelled", "work"} :
          /\ Goto(t, at) /\ task[t].at = "check"
          /\ flags["cancel"] => at = "cancelled"
    BY <1>8 DEF check_cancelled
  <2>2. UNCHANGED <<flags, todo, worker, append, owed>>
    BY <1>8 DEF check_cancelled, OnlyTask
  <2>3. [at |-> at, announced |-> task[t].announced] \in [at : Places, announced : BOOLEAN]
    BY <1>1 DEF Places
  <2> QED BY <1>1, <1>2, <1>3, <2>1, <2>2, <2>3, TransferIInv
<1> QED BY <1>4, <1>5, <1>6, <1>7, <1>8 DEF InWait

\* Every step preserves the invariant.
LEMMA NextIInv == IInv /\ [Next]_vars => IInv'
<1> SUFFICES ASSUME IInv, [Next]_vars PROVE IInv'
  OBVIOUS
<1>1. todo \in [Actors -> Seq(Stores)]
  BY DEF IInv, TypeOK
<1>2. CASE UI
  <2>1. PICK stores \in {request_pause, request_resume, request_cancel} : Command(stores)
    BY <1>2 DEF UI
  <2>2. todo' \in [Actors -> Seq(Stores)]
    BY <1>1, <2>1, OperationsAreStores DEF Command
  <2> QED BY <2>1, <2>2, QuietIInv DEF Command
<1>3. CASE \E a \in Actors : DoStore(a)
  BY <1>3, DoStoreIInv
<1>4. CASE Enqueue
  BY <1>1, <1>4, QuietIInv DEF Enqueue
<1>5. CASE StartJob
  <2>1. todo' \in [Actors -> Seq(Stores)]
    BY <1>1, <1>5, OperationsAreStores DEF StartJob
  <2> QED BY <1>5, <2>1, QuietIInv DEF StartJob
<1>6. CASE JobTransfers
  BY <1>6, LaunchIInv DEF JobTransfers
<1>7. CASE EndJob
  BY <1>7, CollectIInv DEF EndJob
<1>8. CASE BeginAppend
  BY <1>1, <1>8, QuietIInv DEF BeginAppend
<1>9. CASE ResetForAppend
  <2>1. todo' \in [Actors -> Seq(Stores)]
    BY <1>1, <1>9, OperationsAreStores DEF ResetForAppend
  <2> QED BY <1>9, <2>1, QuietIInv DEF ResetForAppend
<1>10. CASE AppendTransfers
  BY <1>10, LaunchIInv DEF AppendTransfers
<1>11. CASE EndAppend
  BY <1>11, CollectIInv DEF EndAppend
<1>12. CASE \E t \in Tasks : CallWait(t) \/ EndTransfer(t) \/ InWait(t)
  BY <1>12, WorkIInv, WaitIInv
<1>13. CASE UNCHANGED vars
  BY <1>1, <1>13, QuietIInv DEF vars
<1> QED
  BY <1>2, <1>3, <1>4, <1>5, <1>6, <1>7, <1>8, <1>9, <1>10, <1>11, <1>12, <1>13
  DEF Next, WorkerStep, AppendStep

-----------------------------------------------------------------------------
\* The invariant holds in every behaviour, fair or not.
THEOREM ControlInvariance == Spec => []IInv
BY InitIInv, NextIInv, PTL DEF Spec

\* control.rs: cancel still wins over pause, for every transfer that was waiting when it
\* was requested and every interleaving of the flags' stores, a pause requested again after
\* the cancel included.
THEOREM CancelAlwaysWins == Spec => []CancelWins
<1>1. IInv => CancelWins
  BY DEF IInv, OwedAreLeaving, CancelWins, Waiting
<1> QED BY <1>1, ControlInvariance, PTL

\* The mark "Pausiert" is never left behind by the transfer that set it.
THEOREM HoldingIsAlwaysSomeones == Spec => []HoldingIsSomeones
<1>1. IInv => HoldingIsSomeones
  BY DEF IInv
<1> QED BY <1>1, ControlInvariance, PTL
=============================================================================
