----------------------------- MODULE HandoffProofs ------------------------------
(***************************************************************************)
(* The handoff entries and the folders they announce, for any number of    *)
(* folders, loops, announcements and restarts of the monitor: a folder     *)
(* that a loop has queued is never told that it was rejected, no two       *)
(* loops hold the same folder, and only an announcement makes an entry.    *)
(***************************************************************************)
EXTENDS HandoffPending, TLAPS

Entries == {"none", "open", "late", "lost", "rejected", "expired"}
Shares == {"absent", "copying", "ready", "claimed", "archived"}
LoopPlaces == {"none", "top", "pass", "scan", "decide", "arm", "asleep", "ending"}
States == {"none", "accepted", "queued", "rejected", "failed", "completed"}

LoopState ==
    [at : LoopPlaces, copy : [Folders -> Entries], visit : SUBSET Folders,
     gated : Folders \cup {NoFolder}, claims : Folders \cup {NoFolder}]

TypeOK ==
    /\ share \in [Folders -> Shares]
    /\ reserved \subseteq Folders
    /\ outbox \in [Folders -> States]
    /\ entry \in [Folders -> Entries]
    /\ loop \in [Loops -> LoopState]

\* The folder a loop has registered is in the registry and on the share, not yet claimed.
ClaimIsHeld ==
    \A l \in Loops : loop[l].claims # NoFolder =>
        loop[l].claims \in reserved /\ share[loop[l].claims] = "ready"

\* register() lets one of them in: no folder is in the hands of two loops.
OneClaimant ==
    \A k, l \in Loops : loop[k].claims # NoFolder /\ loop[k].claims = loop[l].claims => k = l

\* Nothing is written for a folder announced without a correlation id.
OnlyIdentifiedReported == \A f \in Folders \ Identified : outbox[f] = "none"

IInv == TypeOK /\ ClaimIsHeld /\ OneClaimant /\ OnlyIdentifiedReported /\ ClaimedNotRejected

-----------------------------------------------------------------------------
\* What report does to the outbox, identified or not.
LEMMA ReportEffect ==
  ASSUME outbox \in [Folders -> States], OnlyIdentifiedReported,
         NEW f \in Folders, NEW state \in States, Report(f, state)
  PROVE  /\ outbox' \in [Folders -> States]
         /\ \A g \in Folders \ {f} : outbox'[g] = outbox[g]
         /\ outbox'[f] \in {state, "none"}
         /\ OnlyIdentifiedReported'
BY IdentifiedAssumption DEF Report, OnlyIdentifiedReported

\* A loop that goes to a place of its own holds nothing any more.
LEMMA LoopAtTypes ==
  /\ Blank \in [Folders -> Entries]
  /\ \A at \in LoopPlaces : LoopAt(at) \in LoopState /\ LoopAt(at).claims = NoFolder
  /\ \A at \in LoopPlaces, copy \in [Folders -> Entries], visit \in SUBSET Folders :
        /\ LoopWith(at, copy, visit) \in LoopState
        /\ LoopWith(at, copy, visit).claims = NoFolder
BY DEF Blank, LoopAt, LoopWith, LoopState, Entries

\* A step that moves no folder, leaves the registry and the outbox alone, and lets each loop
\* at most give up what it had registered.
LEMMA QuietIInv ==
  ASSUME IInv, UNCHANGED <<share, reserved, outbox>>,
         entry' \in [Folders -> Entries], loop' \in [Loops -> LoopState],
         \A l \in Loops : loop'[l].claims \in {loop[l].claims, NoFolder}
  PROVE  IInv'
<1>1. TypeOK'
  BY DEF IInv, TypeOK
<1>2. ClaimIsHeld' /\ OneClaimant'
  BY DEF IInv, ClaimIsHeld, OneClaimant
<1>3. OnlyIdentifiedReported' /\ ClaimedNotRejected'
  BY DEF IInv, OnlyIdentifiedReported, ClaimedNotRejected
<1> QED BY <1>1, <1>2, <1>3 DEF IInv

\* The same for the steps of one loop.
LEMMA QuietLoopIInv ==
  ASSUME IInv, NEW l \in Loops, NEW x \in LoopState, loop' = [loop EXCEPT ![l] = x],
         x.claims \in {loop[l].claims, NoFolder}, UNCHANGED <<share, reserved, outbox>>,
         entry' \in [Folders -> Entries]
  PROVE  IInv'
<1>1. loop \in [Loops -> LoopState]
  BY DEF IInv, TypeOK
<1>2. loop' \in [Loops -> LoopState]
  BY <1>1
<1>3. \A k \in Loops : loop'[k].claims \in {loop[k].claims, NoFolder}
  BY <1>1
<1> QED BY <1>2, <1>3, QuietIInv

-----------------------------------------------------------------------------
\* At the start nothing is announced, claimed or reported.
LEMMA InitIInv == Init => IInv
<1> SUFFICES ASSUME Init PROVE IInv
  OBVIOUS
<1>1. \A l \in Loops : loop[l] \in LoopState /\ loop[l].claims = NoFolder
  BY LoopAtTypes DEF Init, LoopPlaces
<1>2. TypeOK
  BY <1>1, LoopAtTypes DEF Init, TypeOK, Shares, States, Entries, Blank
<1>3. ClaimIsHeld /\ OneClaimant
  BY <1>1 DEF ClaimIsHeld, OneClaimant
<1>4. OnlyIdentifiedReported /\ ClaimedNotRejected
  BY DEF Init, Blank, OnlyIdentifiedReported, ClaimedNotRejected
<1> QED BY <1>2, <1>3, <1>4 DEF IInv

\* The studio copies and finishes folders: neither is one that a loop has registered.
LEMMA StudioIInv ==
  ASSUME IInv, NEW f \in Folders, Copy(f) \/ Finish(f)
  PROVE  IInv'
<1>1. /\ share[f] \in {"absent", "copying"}
      /\ \E to \in {"copying", "ready"} : share' = [share EXCEPT ![f] = to]
      /\ UNCHANGED <<reserved, outbox, entry, loop>>
  BY DEF Copy, Finish, SetShare
<1>2. TypeOK'
  BY <1>1 DEF IInv, TypeOK, Shares
<1>3. ClaimIsHeld' /\ OneClaimant'
  BY <1>1 DEF IInv, TypeOK, LoopState, ClaimIsHeld, OneClaimant
<1>4. OnlyIdentifiedReported' /\ ClaimedNotRejected'
  BY <1>1 DEF IInv, TypeOK, OnlyIdentifiedReported, ClaimedNotRejected
<1> QED BY <1>2, <1>3, <1>4 DEF IInv

\* A sleeper that is woken holds nothing.
LEMMA WakeTypes ==
  ASSUME IInv, NotifyWaiters
  PROVE  /\ loop' \in [Loops -> LoopState]
         /\ \A l \in Loops : loop'[l].claims \in {loop[l].claims, NoFolder}
BY LoopAtTypes DEF IInv, TypeOK, NotifyWaiters, Awake, LoopPlaces

\* Announcements and time.
LEMMA BridgeIInv ==
  ASSUME IInv, NEW f \in Folders, Ready(f) \/ Age(f)
  PROVE  IInv'
<1>1. CASE Ready(f)
  <2>1. entry' \in [Folders -> Entries] /\ UNCHANGED <<share, reserved, outbox>>
    BY <1>1 DEF Ready, SetEntry, IInv, TypeOK, Entries
  <2> QED BY <1>1, <2>1, WakeTypes, QuietIInv DEF Ready
<1>2. CASE Age(f)
  <2>1. entry' \in [Folders -> Entries] /\ UNCHANGED <<share, reserved, outbox, loop>>
    BY <1>2 DEF Age, SetEntry, IInv, TypeOK, Entries, studio
  <2> QED BY <2>1, QuietIInv DEF IInv, TypeOK
<1> QED BY <1>1, <1>2

\* handoff_cancel reports "failed", whoever holds the folder.
LEMMA CancelIInv ==
  ASSUME IInv, NEW f \in Folders, Cancel(f)
  PROVE  IInv'
<1>1. /\ UNCHANGED <<share, reserved>> /\ Report(f, "failed")
      /\ entry' \in [Folders -> Entries]
  BY DEF Cancel, SetEntry, IInv, TypeOK, Entries, studio
<1>2. /\ outbox' \in [Folders -> States] /\ OnlyIdentifiedReported'
      /\ \A g \in Folders : outbox'[g] = "rejected" => outbox[g] = "rejected"
  BY <1>1, ReportEffect DEF IInv, TypeOK, States
<1>3. /\ loop' \in [Loops -> LoopState]
      /\ \A l \in Loops : loop'[l].claims \in {loop[l].claims, NoFolder}
  BY WakeTypes DEF Cancel
<1>4. TypeOK'
  BY <1>1, <1>2, <1>3 DEF IInv, TypeOK
<1>5. ClaimIsHeld' /\ OneClaimant'
  BY <1>1, <1>3 DEF IInv, ClaimIsHeld, OneClaimant
<1>6. ClaimedNotRejected'
  BY <1>1, <1>2 DEF IInv, ClaimedNotRejected
<1> QED BY <1>2, <1>4, <1>5, <1>6 DEF IInv

\* The worker is through with a folder that no loop has registered any more.
LEMMA WorkerIInv ==
  ASSUME IInv, NEW f \in Folders, WorkerEnds(f)
  PROVE  IInv'
<1>1. PICK state \in {"completed", "failed"} : Report(f, state)
  BY DEF WorkerEnds
<1>2. /\ outbox' \in [Folders -> States] /\ OnlyIdentifiedReported'
      /\ \A g \in Folders : outbox'[g] = "rejected" => outbox[g] = "rejected"
  BY <1>1, ReportEffect DEF IInv, TypeOK, States
<1>3. /\ share[f] = "claimed" /\ share' = [share EXCEPT ![f] = "archived"]
      /\ reserved' = reserved \ {f} /\ UNCHANGED <<entry, loop>>
  BY DEF WorkerEnds, SetShare
<1>4. TypeOK'
  BY <1>2, <1>3 DEF IInv, TypeOK, Shares
<1>5. ClaimIsHeld' /\ OneClaimant'
  <2>1. \A l \in Loops : loop[l].claims # f
    BY <1>3, NoneAssumption DEF IInv, ClaimIsHeld
  <2> QED BY <1>3, <2>1 DEF IInv, TypeOK, LoopState, ClaimIsHeld, OneClaimant
<1>6. ClaimedNotRejected'
  BY <1>2, <1>3 DEF IInv, TypeOK, ClaimedNotRejected
<1> QED BY <1>2, <1>4, <1>5, <1>6 DEF IInv

\* Starting and stopping monitoring: an aborted loop holds nothing, though what it had
\* registered stays in the registry.
LEMMA ControlIInv ==
  ASSUME IInv, Start \/ Stop \/ StopTakesHandle \/ StopReturns
  PROVE  IInv'
<1>1. CASE Start
  <2>1. entry' \in [Folders -> Entries]
    BY <1>1 DEF Start, Arm, IInv, TypeOK, Entries
  <2>2. PICK l \in Loops :
          loop' = [k \in Loops |-> IF k = l THEN LoopAt("top")
                                   ELSE IF k = handle THEN LoopAt("none") ELSE loop[k]]
    BY <1>1 DEF Start
  <2>3. /\ loop' \in [Loops -> LoopState]
        /\ \A k \in Loops : loop'[k].claims \in {loop[k].claims, NoFolder}
    BY <2>2, LoopAtTypes DEF IInv, TypeOK, LoopPlaces
  <2> QED BY <1>1, <2>1, <2>3, QuietIInv DEF Start, studio
<1>2. CASE Stop
  BY <1>2, WakeTypes, QuietIInv DEF Stop, studio, IInv, TypeOK
<1>3. CASE StopTakesHandle
  BY <1>3, QuietIInv DEF StopTakesHandle, studio, IInv, TypeOK
<1>4. CASE StopReturns
  BY <1>4, LoopAtTypes, QuietIInv DEF StopReturns, studio, IInv, TypeOK
<1> QED BY <1>1, <1>2, <1>3, <1>4

-----------------------------------------------------------------------------
\* What a folder that was looked at or returned leaves in the loop's state.
LEMMA LookedTypes ==
  ASSUME IInv, NEW l \in Loops, NEW f \in Folders, NEW e \in Entries
  PROVE  /\ Looked(l, f, e) => \E x \in LoopState :
               loop' = [loop EXCEPT ![l] = x] /\ x.claims = loop[l].claims
         /\ Return(l, f, e) => \E x \in LoopState :
               loop' = [loop EXCEPT ![l] = x] /\ x.claims = NoFolder
<1>1. loop \in [Loops -> LoopState] /\ loop[l] \in LoopState
  BY DEF IInv, TypeOK
<1>2. ASSUME Looked(l, f, e)
      PROVE \E x \in LoopState : loop' = [loop EXCEPT ![l] = x] /\ x.claims = loop[l].claims
  <2> DEFINE x == [loop[l] EXCEPT !.visit = @ \ {f}, !.copy[f] = e]
  <2>1. x \in LoopState /\ x.claims = loop[l].claims
    BY <1>1 DEF LoopState
  <2>2. loop' = [loop EXCEPT ![l] = x]
    BY <1>1, <1>2 DEF Looked, LoopState
  <2> QED BY <2>1, <2>2
<1>3. ASSUME Return(l, f, e)
      PROVE \E x \in LoopState : loop' = [loop EXCEPT ![l] = x] /\ x.claims = NoFolder
  <2> DEFINE x == LoopWith(loop[l].at, [loop[l].copy EXCEPT ![f] = e], loop[l].visit \ {f})
  <2>1. x \in LoopState /\ x.claims = NoFolder
    BY <1>1, LoopAtTypes DEF LoopState
  <2>2. loop' = [loop EXCEPT ![l] = x]
    BY <1>1, <1>3 DEF Return
  <2> QED BY <2>1, <2>2
<1> QED BY <1>2, <1>3

\* The steps of a pass and of a scan that write nothing: they work on the loop's own copy,
\* or write the entries back.
LEMMA PassIInv ==
  ASSUME IInv, NEW l \in Loops,
         \/ ShareMissing(l) \/ BeginPass(l) \/ LoopEnds(l) \/ LoopClears(l)
         \/ EndPass(l) \/ EndScan(l) \/ Decide(l) \/ Sleep(l) \/ SleepEnds(l)
  PROVE  IInv'
<1>1. entry \in [Folders -> Entries] /\ loop[l].copy \in [Folders -> Entries]
  BY DEF IInv, TypeOK, LoopState
<1>2. UNCHANGED <<share, reserved, outbox>>
  BY DEF ShareMissing, BeginPass, LoopEnds, LoopClears, EndPass, EndScan, Decide,
     Sleep,
         SleepEnds, studio
<1>3. entry' \in [Folders -> Entries]
  <2>1. CASE EndPass(l)
    BY <1>1, <2>1 DEF EndPass, WriteBack, Older, Open, Entries
  <2>2. CASE EndScan(l)
    BY <1>1, <2>2 DEF EndScan, Pruned, Entries
  <2>3. CASE LoopClears(l)
    BY <2>3, LoopAtTypes DEF LoopClears
  <2>4. CASE \/ ShareMissing(l) \/ BeginPass(l) \/ LoopEnds(l) \/ Decide(l) \/ Sleep(l)
             \/ SleepEnds(l)
    BY <1>1, <2>4 DEF ShareMissing, BeginPass, LoopEnds, Decide, Sleep, SleepEnds
  <2> QED BY <2>1, <2>2, <2>3, <2>4
<1>4. PICK x \in LoopState : loop' = [loop EXCEPT ![l] = x] /\ x.claims = NoFolder
  <2>1. CASE BeginPass(l)
    <3>1. LoopWith("pass", entry, {f \in Folders : entry[f] \in Open}) \in LoopState
      BY <1>1, LoopAtTypes DEF LoopPlaces
    <3> QED BY <1>1, <2>1, <3>1, LoopAtTypes DEF BeginPass, LoopWith
  <2>2. CASE EndPass(l)
    <3>1. LoopWith("scan", Blank, {f \in Folders : Present(f)}) \in LoopState
      BY LoopAtTypes DEF LoopPlaces
    <3> QED BY <2>2, <3>1, LoopAtTypes DEF EndPass, LoopWith
  <2>3. CASE \/ ShareMissing(l) \/ LoopEnds(l) \/ LoopClears(l) \/ EndScan(l)
             \/ Decide(l) \/ Sleep(l) \/ SleepEnds(l)
    <3>1. PICK at \in LoopPlaces : Go(l, at)
      BY <2>3 DEF ShareMissing, LoopEnds, LoopClears, EndScan, Decide, Sleep,
         SleepEnds,
                  LoopPlaces
    <3> QED BY <3>1, LoopAtTypes DEF Go
  <2> QED BY <2>1, <2>2, <2>3
<1> QED BY <1>2, <1>3, <1>4, QuietLoopIInv

\* Looking at a folder that is not ready, and the gate: a folder is told "rejected" only
\* while it is not claimed.
LEMMA VisitIInv ==
  ASSUME IInv, NEW l \in Loops, NEW f \in Folders,
         \/ SkipProcessing(l, f) \/ NotReady(l, f) \/ ScanSkips(l, f)
         \/ Accept(l, f) \/ Reject(l, f)
  PROVE  IInv'
<1>1. /\ loop \in [Loops -> LoopState] /\ loop[l] \in LoopState
      /\ loop[l].copy[f] \in Entries
  BY DEF IInv, TypeOK, LoopState
<1>2. UNCHANGED <<share, reserved, entry>>
  BY DEF SkipProcessing, NotReady, ScanSkips, Accept, Reject, studio
<1>3. PICK x \in LoopState : loop' = [loop EXCEPT ![l] = x] /\ x.claims = loop[l].claims
  <2>1. CASE Accept(l, f)
    <3> DEFINE x == [loop[l] EXCEPT !.gated = f]
    <3>1. x \in LoopState /\ x.claims = loop[l].claims
      BY <1>1 DEF LoopState
    <3>2. loop' = [loop EXCEPT ![l] = x]
      BY <1>1, <2>1 DEF Accept
    <3> QED BY <3>1, <3>2
  <2>2. CASE SkipProcessing(l, f) \/ NotReady(l, f) \/ ScanSkips(l, f) \/ Reject(l, f)
    <3>1. PICK e \in Entries : Looked(l, f, e)
      BY <1>1, <2>2 DEF SkipProcessing, NotReady, ScanSkips, Reject, Outcome,
         Entries
    <3> QED BY <3>1, LookedTypes
  <2> QED BY <2>1, <2>2
<1>4. /\ outbox' \in [Folders -> States] /\ OnlyIdentifiedReported'
      /\ \A g \in Folders :
            outbox'[g] = "rejected" => outbox[g] = "rejected" \/ share[g] # "claimed"
  <2>1. CASE UNCHANGED outbox
    BY <2>1 DEF IInv, TypeOK, OnlyIdentifiedReported
  <2>2. CASE Report(f, "accepted")
    BY <2>2, ReportEffect DEF IInv, TypeOK, States
  <2>3. CASE Report(f, "rejected") /\ share[f] # "claimed"
    BY <2>3, ReportEffect DEF IInv, TypeOK, States
  <2> QED BY <2>1, <2>2, <2>3
          DEF SkipProcessing, NotReady, ScanSkips, Accept, Reject, HasProcessing
<1>5. TypeOK'
  BY <1>1, <1>2, <1>3, <1>4 DEF IInv, TypeOK
<1>6. \A k \in Loops : loop'[k].claims = loop[k].claims
  BY <1>1, <1>3
<1>7. ClaimIsHeld' /\ OneClaimant'
  BY <1>2, <1>6 DEF IInv, ClaimIsHeld, OneClaimant
<1>8. ClaimedNotRejected'
  BY <1>2, <1>4 DEF IInv, ClaimedNotRejected
<1> QED BY <1>4, <1>5, <1>7, <1>8 DEF IInv

\* register(): the one that gets in finds the folder unreserved, so nobody else has it.
LEMMA RegisterIInv ==
  ASSUME IInv, NEW l \in Loops, Register(l)
  PROVE  IInv'
<1> DEFINE f == loop[l].gated
<1>1. /\ loop \in [Loops -> LoopState] /\ loop[l] \in LoopState
      /\ f \in Folders /\ loop[l].copy[f] \in Entries
      /\ UNCHANGED <<share, outbox, entry>>
  BY DEF IInv, TypeOK, LoopState, Register, studio
<1>2. CASE Free(f)
  <2> DEFINE x == [loop[l] EXCEPT !.claims = f, !.gated = NoFolder]
  <2>1. x \in LoopState /\ x.claims = f
    BY <1>1 DEF LoopState
  <2>2. loop' = [loop EXCEPT ![l] = x] /\ reserved' = reserved \cup {f}
    BY <1>1, <1>2 DEF Register
  <2>3. f \notin reserved /\ share[f] = "ready"
    BY <1>2 DEF Free
  <2>4. \A k \in Loops : loop[k].claims # f
    BY <1>1, <2>3, NoneAssumption DEF IInv, ClaimIsHeld
  <2> HIDE DEF x, f
  <2>5. TypeOK'
    BY <1>1, <2>1, <2>2 DEF IInv, TypeOK
  <2>6. loop'[l].claims = f /\ \A k \in Loops \ {l} : loop'[k].claims = loop[k].claims
    BY <1>1, <2>1, <2>2
  <2>7. ClaimIsHeld'
    BY <1>1, <2>2, <2>3, <2>6 DEF IInv, ClaimIsHeld
  <2>8. OneClaimant'
    BY <2>4, <2>6 DEF IInv, OneClaimant
  <2>9. OnlyIdentifiedReported' /\ ClaimedNotRejected'
    BY <1>1 DEF IInv, OnlyIdentifiedReported, ClaimedNotRejected
  <2> QED BY <2>5, <2>7, <2>8, <2>9 DEF IInv
<1>3. CASE ~Free(f)
  <2>1. Return(l, f, loop[l].copy[f]) /\ UNCHANGED reserved
    BY <1>3 DEF Register
  <2>2. PICK x \in LoopState : loop' = [loop EXCEPT ![l] = x] /\ x.claims = NoFolder
    BY <1>1, <2>1, LookedTypes
  <2> QED BY <1>1, <2>1, <2>2, QuietLoopIInv DEF IInv, TypeOK
<1> QED BY <1>2, <1>3

\* The claim returns: the folder is claimed and queued, archived as failed, or given back.
\* It was in this loop's hands only, so no other loop's claim is disturbed.
LEMMA ReturnIInv ==
  ASSUME IInv, NEW l \in Loops, Queued(l) \/ LookupFailed(l) \/ Refused(l)
  PROVE  IInv'
<1> DEFINE f == loop[l].claims
<1>1. /\ loop \in [Loops -> LoopState] /\ loop[l] \in LoopState
      /\ f \in Folders /\ f # NoFolder /\ loop[l].copy[f] \in Entries
      /\ f \in reserved /\ share[f] = "ready"
      /\ UNCHANGED entry
  BY DEF IInv, TypeOK, LoopState, ClaimIsHeld, Queued, LookupFailed, Refused
<1>2. PICK x \in LoopState : loop' = [loop EXCEPT ![l] = x] /\ x.claims = NoFolder
  <2>1. PICK e \in Entries : Return(l, f, e)
    BY <1>1 DEF Queued, LookupFailed, Refused, Outcome, Entries
  <2> QED BY <1>1, <2>1, LookedTypes
<1>3. /\ loop'[l].claims = NoFolder
      /\ \A k \in Loops \ {l} : loop'[k].claims = loop[k].claims /\ loop[k].claims # f
  BY <1>1, <1>2 DEF IInv, OneClaimant
<1>4. /\ share' \in [Folders -> Shares]
      /\ \A g \in Folders \ {f} : share'[g] = share[g]
      /\ reserved' \in {reserved, reserved \ {f}}
  BY <1>1 DEF Queued, LookupFailed, Refused, SetShare, IInv, TypeOK, Shares,
     studio
<1>5. /\ outbox' \in [Folders -> States] /\ OnlyIdentifiedReported'
      /\ \A g \in Folders \ {f} : outbox'[g] = outbox[g]
      /\ share'[f] = "claimed" => outbox'[f] # "rejected"
  <2>1. CASE Queued(l)
    BY <1>1, <2>1, ReportEffect DEF Queued, IInv, TypeOK, States
  <2>2. CASE LookupFailed(l)
    BY <1>1, <2>2, ReportEffect DEF LookupFailed, IInv, TypeOK, States
  <2>3. CASE Refused(l) /\ Report(f, "rejected")
    BY <1>1, <2>3, ReportEffect DEF Refused, IInv, TypeOK, States, studio
  <2>4. CASE Refused(l) /\ UNCHANGED outbox
    BY <1>1, <2>4 DEF Refused, IInv, TypeOK, OnlyIdentifiedReported, studio
  <2> QED BY <2>1, <2>2, <2>3, <2>4 DEF Refused
<1> HIDE DEF f
<1>6. TypeOK'
  BY <1>1, <1>2, <1>4, <1>5 DEF IInv, TypeOK
<1>7. ClaimIsHeld'
  <2> SUFFICES ASSUME NEW k \in Loops, loop'[k].claims # NoFolder
               PROVE  loop'[k].claims \in reserved' /\ share'[loop'[k].claims] = "ready"
    BY DEF ClaimIsHeld
  <2>1. k # l /\ loop'[k].claims = loop[k].claims /\ loop[k].claims # f
    BY <1>3
  <2>2. loop[k].claims \in reserved /\ share[loop[k].claims] = "ready"
    BY <2>1 DEF IInv, ClaimIsHeld
  <2> QED BY <1>4, <2>1, <2>2 DEF IInv, TypeOK
<1>8. OneClaimant'
  BY <1>3 DEF IInv, OneClaimant
<1>9. ClaimedNotRejected'
  BY <1>4, <1>5 DEF IInv, ClaimedNotRejected
<1> QED BY <1>5, <1>6, <1>7, <1>8, <1>9 DEF IInv

\* Every step preserves the invariant.
LEMMA NextIInv == IInv /\ [Next]_vars => IInv'
<1> SUFFICES ASSUME IInv, [Next]_vars PROVE IInv'
  OBVIOUS
<1>1. ASSUME NEW f \in Folders,
             Copy(f) \/ Finish(f) \/ Ready(f) \/ Cancel(f) \/ Age(f) \/ WorkerEnds(f)
      PROVE  IInv'
  BY <1>1, StudioIInv, BridgeIInv, CancelIInv, WorkerIInv
<1>2. CASE Start \/ Stop \/ StopTakesHandle \/ StopReturns
  BY <1>2, ControlIInv
<1>3. ASSUME NEW l \in Loops, LoopStep(l) PROVE IInv'
  <2>1. CASE Visit(l)
    BY <2>1, VisitIInv DEF Visit
  <2>2. CASE Claim(l)
    BY <2>2, RegisterIInv, ReturnIInv DEF Claim
  <2> QED BY <1>3, <2>1, <2>2, PassIInv DEF LoopStep
<1>4. CASE UNCHANGED vars
  BY <1>4, QuietIInv DEF vars, studio, IInv, TypeOK
<1> QED BY <1>1, <1>2, <1>3, <1>4 DEF Next

-----------------------------------------------------------------------------
\* The invariant holds in every behaviour: two loops never hold the same folder, and what
\* one holds is registered and on the share.
THEOREM HandoffInvariance == Spec => []IInv
BY InitIInv, NextIInv, PTL DEF Spec

\* monitor/service.rs, "Upload won": a folder that a loop has queued is not reported as
\* rejected, however many loops pass over copies of its entry and whatever its clock says.
THEOREM QueuedIsNotRejected == Spec => []ClaimedNotRejected
<1>1. IInv => ClaimedNotRejected
  BY DEF IInv
<1> QED BY <1>1, HandoffInvariance, PTL

\* What a step does to the entries that do not exist.
LEMMA EntryAppears ==
  ASSUME IInv, [Next]_vars, NEW f \in Folders, entry[f] = "none", entry'[f] # "none"
  PROVE  Ready(f)
<1>1. entry \in [Folders -> Entries]
  BY DEF IInv, TypeOK
<1>2. ASSUME NEW g \in Folders, Ready(g) PROVE g = f
  BY <1>1, <1>2 DEF Ready, SetEntry
<1>3. ASSUME NEW g \in Folders,
             Copy(g) \/ Finish(g) \/ Cancel(g) \/ Age(g) \/ WorkerEnds(g)
      PROVE  FALSE
  BY <1>1, <1>3 DEF Copy, Finish, Cancel, Age, WorkerEnds, SetEntry
<1>4. ASSUME Start \/ Stop \/ StopTakesHandle \/ StopReturns PROVE FALSE
  BY <1>1, <1>4 DEF Start, Stop, StopTakesHandle, StopReturns, Arm, Open, Blank
<1>5. ASSUME NEW l \in Loops, LoopStep(l) PROVE FALSE
  <2>1. ASSUME Visit(l) \/ Claim(l) PROVE FALSE
    BY <2>1 DEF Visit, Claim, SkipProcessing, NotReady, ScanSkips, Accept,
       Reject, Register,
                Queued, LookupFailed, Refused
  <2>2. ASSUME EndPass(l) \/ EndScan(l) \/ LoopClears(l) PROVE FALSE
    BY <1>1, <2>2 DEF EndPass, WriteBack, EndScan, Pruned, LoopClears, Blank
  <2>3. ASSUME \/ ShareMissing(l) \/ BeginPass(l) \/ LoopEnds(l) \/ Decide(l) \/ Sleep(l)
               \/ SleepEnds(l)
        PROVE  FALSE
    BY <2>3 DEF ShareMissing, BeginPass, LoopEnds, Decide, Sleep, SleepEnds
  <2> QED BY <1>5, <2>1, <2>2, <2>3 DEF LoopStep
<1>6. ~UNCHANGED vars
  BY DEF vars
<1> QED BY <1>2, <1>3, <1>4, <1>5, <1>6 DEF Next

\* No pass, prune, start or stop brings an entry back that the studio has cancelled or the
\* monitor has dropped: the copy a pass works on makes no entry.
THEOREM OnlyReadyMakesEntries == Spec => OnlyReadyAnnounces
<1>1. IInv /\ [Next]_vars
      => [\A f \in Folders : entry[f] = "none" /\ entry'[f] # "none" => Ready(f)]_vars
  BY EntryAppears
<1> QED BY <1>1, HandoffInvariance, PTL DEF Spec, OnlyReadyAnnounces
=============================================================================
