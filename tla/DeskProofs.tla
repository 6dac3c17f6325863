----------------------------- MODULE DeskProofs -----------------------------
(* Theorems about the components that Desk runs side by side, and about the   *)
(* routing of appended folders, each for every value of its constants.  A     *)
(* section is about one component; the names it shares with others (row,      *)
(* now, faults) are that component's there.  The last section carries the     *)
(* results over to behaviours of DeskSpec.                                    *)
(*                                                                            *)
(*   CompletedIsAlwaysTrue    JobStatus: ATS hears of no job that it is       *)
(*                            completed before it was;                        *)
(*   BridgeIsAlwaysSound      BridgeClients: every listening bridge is held   *)
(*                            or about to be, and the one held listens;       *)
(*   FlagsNeverGoBack         BookingFlags: no slow answer of the customer    *)
(*                            API is written over a newer one;                *)
(*   ClaimedIsQuiet           FolderStability: a folder claimed after its     *)
(*                            wait was quiet for the set time when it was     *)
(*                            found stable;                                   *)
(*   NoHalfAssignmentClaimed  FolderAssign: the monitor claims no folder half *)
(*                            way through an assignment;                      *)
(*   ProfilesAreAlwaysSound   DropboxAccounts: a profile stands for one       *)
(*                            account, and settings and clients agree;        *)
(*   StageIsAlwaysSound       AppendStaging: what goes up is all that was     *)
(*                            picked, with previews of what is not paid;      *)
(*   OneOrderAlways           AppendRouting: the folders of a booking make    *)
(*                            one order;                                      *)
(*   DeskShowsPresence        AtsBridge: an installation is shown with the    *)
(*                            jobs it announced and with all it did;          *)
(*   DeskProposesFairly       FolderAssign: the batch proposal is one to one  *)
(*                            and passes nobody over;                         *)
(*   DeskReadsFlags           MediaFlags: what is paid is booked and what is  *)
(*                            named is booked, whatever shape an answer has;  *)
(*   DeskReadsItsNames        CrewNames: a folder's name with a confirmed     *)
(*                            crew is read back as that crew.                 *)
EXTENDS Desk, Integers, Sequences, FiniteSetTheorems, SequenceTheorems,
        WellFoundedInduction, TLAPS

CONSTANTS Booking, Explicit, Parent, MaxSignals, MaxDeletes
VARIABLES status, queue, work, signals, deletes

Routing == INSTANCE AppendRouting WITH None <- Nobody

-----------------------------------------------------------------------------
(* JobStatus.  Whatever an answer can be made of says that the job is         *)
(* completed only when it was: its row, once a poll finds it, the state in    *)
(* the outbox and those that wait for their rename, the row a poll has read.  *)

StatusTypes ==
    /\ DOMAIN outbox = Jobs /\ DOMAIN replacing = Jobs /\ DOMAIN stage = Jobs
    /\ DOMAIN poll = Jobs /\ DOMAIN told = Jobs
    /\ row \in [Jobs -> [status : {"none", "Gestartet"} \cup Status!Ends, cid : BOOLEAN]]

Says(c) ==
    \/ row[c].cid
    \/ outbox[c] = "completed" \/ "completed" \in replacing[c]
    \/ stage[c] = "Erfolgreich"
    \/ poll[c].on /\ poll[c].row.cid
    \/ told[c] = "completed"

StatusInv == StatusTypes /\ \A c \in Jobs : Says(c) => c \in completed

(* A job not yet announced.                                                   *)
LEMMA StatusInit == Status!Init => StatusInv
BY DEF Status!Init, Status!NoRow, Status!NoPoll, Status!Ends, StatusInv,
   StatusTypes, Says

(* Every step of the bridge, of the upload job and of the operator keeps it.  *)
LEMMA StatusStep == StatusInv /\ [Status!Next]_(Status!vars) => StatusInv'
<1>. SUFFICES ASSUME StatusInv, [Status!Next]_(Status!vars)
              PROVE  StatusInv'
  OBVIOUS
<1>. USE DEF StatusInv, StatusTypes, Says
<1>1. ASSUME NEW c \in Jobs, Status!handoff_cancel(c)
      PROVE  StatusInv'
  BY <1>1 DEF Status!handoff_cancel, Status!write_status_outbox
<1>2. ASSUME NEW c \in Jobs, Status!PollBegins(c)
      PROVE  StatusInv'
  BY <1>2 DEF Status!PollBegins
<1>3. ASSUME NEW c \in Jobs, Status!job_status(c)
      PROVE  StatusInv'
  BY <1>3 DEF Status!job_status, Status!write_status_outbox, Status!NoPoll,
     Status!status_outbox_from_history, Status!merge_history_cancel_override
<1>4. ASSUME NEW c \in Jobs, Status!Renamed(c)
      PROVE  StatusInv'
  BY <1>4 DEF Status!Renamed
<1>5. ASSUME NEW c \in Jobs, Status!Taken(c) \/ Status!Started(c)
      PROVE  StatusInv'
  <2>1. CASE Status!Taken(c)
    BY <2>1 DEF Status!Taken, Status!JobAt, Status!write_status_outbox
  <2>2. CASE Status!Started(c)
    <3>1. \A d \in Jobs : row'[d].cid = row[d].cid
      BY <2>2 DEF Status!Started
    <3>2. row' \in [Jobs -> [status : {"none", "Gestartet"} \cup Status!Ends, cid : BOOLEAN]]
      BY <2>2 DEF Status!Started
    <3>. QED
      BY <2>2, <3>1, <3>2 DEF Status!Started, Status!JobAt
  <2>. QED
    BY <1>5, <2>1, <2>2
<1>6. ASSUME NEW c \in Jobs, Status!Reported(c)
      PROVE  StatusInv'
  BY <1>6 DEF Status!Reported, Status!JobAt, Status!write_status_outbox,
     Status!FinalState, Status!Ends
<1>7. ASSUME NEW c \in Jobs, Status!DeleteRow(c)
      PROVE  StatusInv'
  BY <1>7 DEF Status!DeleteRow, Status!NoRow
<1>8. ASSUME NEW c \in Jobs, NEW end \in Status!Ends, Status!Ended(c, end)
      PROVE  StatusInv'
  <2>1. CASE end = "Erfolgreich"
    <3>1. row' = [row EXCEPT ![c] = [status |-> "Erfolgreich", cid |-> TRUE]]
      BY <1>8, <2>1 DEF Status!Ended, Status!success_history
    <3>2. completed' = completed \cup {c}
      BY <1>8, <2>1 DEF Status!Ended, Status!success_history
    <3>3. row' \in [Jobs -> [status : {"none", "Gestartet"} \cup Status!Ends, cid : BOOLEAN]]
      BY <3>1 DEF Status!Ends
    <3>. QED
      BY <1>8, <3>1, <3>2, <3>3 DEF Status!Ended, Status!JobAt
  <2>2. CASE end # "Erfolgreich"
    <3>1. row' = [row EXCEPT ![c].status = end] /\ completed' = completed
      BY <1>8, <2>2 DEF Status!Ended
    <3>2. \A d \in Jobs : row'[d].cid = row[d].cid
      BY <3>1
    <3>3. row' \in [Jobs -> [status : {"none", "Gestartet"} \cup Status!Ends, cid : BOOLEAN]]
      BY <3>1
    <3>. QED
      BY <1>8, <2>2, <3>1, <3>2, <3>3 DEF Status!Ended, Status!JobAt
  <2>. QED
    BY <2>1, <2>2
<1>9. ASSUME Status!Restart
      PROVE  StatusInv'
  BY <1>9 DEF Status!Restart, Status!NoPoll
<1>10. ASSUME UNCHANGED Status!vars
       PROVE  StatusInv'
  BY <1>10 DEF Status!vars
<1>. QED
  BY <1>1, <1>2, <1>3, <1>4, <1>5, <1>6, <1>7, <1>8, <1>9, <1>10 DEF Status!Next

(* Then no answer says so too early.                                          *)
LEMMA StatusTold == StatusInv => Status!CompletedIsTrue
BY DEF StatusInv, Says, Status!CompletedIsTrue

(* ATS is not told that a job is completed before it was, by whatever mix of  *)
(* polls, renames, cancels, deleted rows, restarts and repeated runs, for any *)
(* number of jobs (job_status, status_outbox_from_history, success_history).  *)
THEOREM CompletedIsAlwaysTrue == Status!Spec => []Status!CompletedIsTrue
BY StatusInit, StatusStep, StatusTold, PTL DEF Status!Spec

-----------------------------------------------------------------------------
(* BridgeClients.  A call of apply_from_config that has not put its server    *)
(* into BridgeState.inner still stands at "started", and the server listens   *)
(* all the while: only one that is in inner is told to end, by whoever takes  *)
(* it out or puts another there, and its own call is over by then.            *)

BridgeTypes ==
    /\ server \in [Appliers -> {"no", "on", "draining"}]
    /\ DOMAIN apply = Appliers
    /\ inner \in Appliers \cup {Nobody}

Starts ==
    /\ \A a \in Appliers : apply[a].step = "started" => server[a] = "on"
    /\ inner # Nobody => apply[inner].step = "done"

BridgeInv == BridgeTypes /\ Starts /\ Bridge!BridgeIsSound

(* No server is listening.                                                    *)
LEMMA BridgeInit == Bridge!Init => BridgeInv
BY DEF Bridge!Init, BridgeInv, BridgeTypes, Starts, Bridge!BridgeIsSound,
   Bridge!ListenerIsHeld, Bridge!HeldListens

(* Every step of the bridge keeps it; no step of a request touches it.        *)
LEMMA BridgeStep ==
    ASSUME Nobody \notin Appliers, BridgeInv, [Bridge!Next]_(Bridge!vars)
    PROVE  BridgeInv'
<1>. USE DEF BridgeInv, BridgeTypes, Starts, Bridge!BridgeIsSound, Bridge!ListenerIsHeld,
     Bridge!HeldListens
<1>. DEFINE Goal == /\ server' \in [Appliers -> {"no", "on", "draining"}]
                    /\ DOMAIN apply' = Appliers
                    /\ inner' \in Appliers \cup {Nobody}
                    /\ \A a \in Appliers : apply'[a].step = "started" => server'[a] = "on"
                    /\ inner' # Nobody => apply'[inner'].step = "done" /\ server'[inner'] = "on"
                    /\ \A a \in Appliers :
                         server'[a] = "on" => inner' = a \/ apply'[a].step = "started"
<1>1. ASSUME UNCHANGED <<server, inner, apply>>
      PROVE  Goal
  BY <1>1
<1>2. ASSUME Bridge!Save
      PROVE  Goal
  BY <1>1, <1>2 DEF Bridge!Save, Bridge!servers
<1>3. ASSUME NEW a \in Appliers, UNCHANGED <<server, inner>>,
             apply[a].step \notin {"started", "done"},
             NEW s, apply' = [apply EXCEPT ![a] = s], s.step # "started"
      PROVE  Goal
  BY <1>3
<1>4. ASSUME NEW a \in Appliers, Bridge!ApplyReadsEnabled(a)
      PROVE  Goal
  BY <1>3, <1>4 DEF Bridge!ApplyReadsEnabled, Bridge!Step, Bridge!servers
<1>5. ASSUME NEW a \in Appliers, Bridge!ApplyReadsRest(a)
      PROVE  Goal
  BY <1>3, <1>5 DEF Bridge!ApplyReadsRest, Bridge!Step, Bridge!servers
<1>6. ASSUME NEW a \in Appliers, Bridge!stop(a)
      PROVE  Goal
  BY <1>6 DEF Bridge!stop, Bridge!Step
<1>7. ASSUME NEW a \in Appliers, Bridge!shutdown(a)
      PROVE  Goal
  BY <1>7 DEF Bridge!shutdown
<1>8. ASSUME NEW a \in Appliers, Bridge!StopEnds(a)
      PROVE  Goal
  BY <1>3, <1>8 DEF Bridge!StopEnds, Bridge!Joined, Bridge!Step, Bridge!servers
<1>9. ASSUME NEW a \in Appliers, Bridge!start(a)
      PROVE  Goal
  <2>1. CASE UNCHANGED server
    BY <1>3, <1>9, <2>1 DEF Bridge!start, Bridge!Joined, Bridge!Step
  <2>2. CASE ~UNCHANGED server
    BY <1>9, <2>2 DEF Bridge!start, Bridge!Joined, Bridge!Step
  <2>. QED
    BY <2>1, <2>2
<1>10. ASSUME NEW a \in Appliers, Bridge!Hold(a)
       PROVE  Goal
  BY <1>10 DEF Bridge!Hold, Bridge!Step
<1>11. ASSUME NEW q \in Requests,
              \/ Bridge!require_bearer(q) \/ Bridge!ensure_instance_id(q)
              \/ Bridge!ReadsBase(q) \/ Bridge!resolve_cloud_issue_credentials(q)
              \/ Bridge!issue_client_token(q)
       PROVE  Goal
  BY <1>1, <1>11 DEF Bridge!require_bearer, Bridge!ensure_instance_id,
     Bridge!ReadsBase,
     Bridge!resolve_cloud_issue_credentials, Bridge!issue_client_token, Bridge!servers
<1>12. ASSUME UNCHANGED Bridge!vars
       PROVE  Goal
  BY <1>1, <1>12 DEF Bridge!vars
<1>. HIDE DEF Goal
<1>13. Goal
  BY <1>2, <1>4, <1>5, <1>6, <1>7, <1>8, <1>9, <1>10, <1>11, <1>12 DEF Bridge!Next
<1>. QED
  BY <1>13 DEF Goal

(* However many calls of apply_from_config and requests overlap, and whatever *)
(* is saved meanwhile: every listening bridge is held or about to be, and the *)
(* one that is held listens (apply_from_config, BridgeState::start and        *)
(* BridgeState::stop).  Nobody is no call.                                    *)
THEOREM BridgeIsAlwaysSound ==
    ASSUME Nobody \notin Appliers
    PROVE  Bridge!Spec => []Bridge!BridgeIsSound
<1>1. BridgeInv /\ [Bridge!Next]_(Bridge!vars) => BridgeInv'
  BY BridgeStep
<1>2. BridgeInv => Bridge!BridgeIsSound
  BY DEF BridgeInv
<1>. QED
  BY <1>1, <1>2, BridgeInit, PTL DEF Bridge!Spec

-----------------------------------------------------------------------------
(* BookingFlags.  From the moment a resolve has its row's lock until it ends  *)
(* the lock is its own, and an answer that waits to be written is at least as *)
(* new as the row's stamp: the only step that raises a stamp needs the lock.  *)

Resolve == [pc : {"wait", "ask", "fallback", "emit", "again", "end"}, r : HistoryRows,
            kind : {"dialog", "retry", "append"}, policy : Flags!Policies, flags : Nat]

FlagsTypes ==
    /\ rows \in [HistoryRows -> [known : BOOLEAN, flags : Nat, stamp : Nat]]
    /\ api \in [HistoryRows -> Nat]
    /\ lock \in [HistoryRows -> Callers \cup {Nobody}]
    /\ call \in [Callers -> {Flags!Idle} \cup Resolve]
    /\ job \in [HistoryRows -> SUBSET Nat]

LockIsHeld ==
    \A c \in Callers :
       call[c].pc \in {"ask", "fallback", "emit", "again", "end"} => lock[call[c].r] = c

StampIsOld == \A r \in HistoryRows : rows[r].stamp <= api[r]

AnswerIsNew ==
    \A c \in Callers : call[c].pc \in {"emit", "again"} =>
      rows[call[c].r].stamp <= call[c].flags /\ call[c].flags <= api[call[c].r]

FlagsInv == FlagsTypes /\ LockIsHeld /\ StampIsOld /\ AnswerIsNew

(* A row that was never refreshed, and nobody resolving.                      *)
LEMMA FlagsInit == Flags!Init => FlagsInv
BY SMTT(30) DEF Flags!Init, Flags!Idle, Resolve, FlagsInv, FlagsTypes,
   LockIsHeld, StampIsOld, AnswerIsNew

(* What a resolve under way is.                                               *)
LEMMA Resolving ==
    ASSUME FlagsTypes, NEW c \in Callers, call[c].pc # "idle"
    PROVE  /\ call[c] \in Resolve /\ call[c].r \in HistoryRows /\ call[c].flags \in Nat
           /\ \A pc \in {"wait", "ask", "fallback", "emit", "again", "end"} :
                /\ [call[c] EXCEPT !.pc = pc] \in Resolve
                /\ \A fl \in Nat : [call[c] EXCEPT !.pc = pc, !.flags = fl] \in Resolve
<1>1. call[c] \in Resolve
  BY DEF FlagsTypes, Flags!Idle
<1>2. ASSUME NEW pc \in {"wait", "ask", "fallback", "emit", "again", "end"}
      PROVE  /\ [call[c] EXCEPT !.pc = pc] \in Resolve
             /\ \A fl \in Nat : [call[c] EXCEPT !.pc = pc, !.flags = fl] \in Resolve
  BY <1>1, Zenon DEF Resolve
<1>3. call[c].r \in HistoryRows /\ call[c].flags \in Nat
  BY <1>1 DEF Resolve
<1>. QED
  BY <1>1, <1>2, <1>3, Zenon

(* A step that leaves who resolves and what they hold alone.                  *)
LEMMA ResolvesUntouched ==
    ASSUME FlagsInv, UNCHANGED <<lock, call>>, job' \in [HistoryRows -> SUBSET Nat],
           rows' \in [HistoryRows -> [known : BOOLEAN, flags : Nat, stamp : Nat]],
           api' \in [HistoryRows -> Nat],
           \A r \in HistoryRows : rows'[r].stamp <= rows[r].stamp /\ api[r] <= api'[r]
    PROVE  FlagsInv'
<1>1. FlagsTypes'
  BY DEF FlagsInv, FlagsTypes
<1>2. /\ \A r \in HistoryRows : /\ rows[r].stamp \in Nat /\ rows'[r].stamp \in Nat
                          /\ api[r] \in Nat /\ api'[r] \in Nat
  BY <1>1 DEF FlagsInv, FlagsTypes
<1>3. StampIsOld'
  BY <1>2 DEF FlagsInv, StampIsOld
<1>4. ASSUME NEW c \in Callers, call[c].pc \in {"emit", "again"}
      PROVE  rows'[call[c].r].stamp <= call[c].flags /\ call[c].flags <= api'[call[c].r]
  <2>1. call[c].r \in HistoryRows /\ call[c].flags \in Nat
    BY <1>4, Resolving, Zenon DEF FlagsInv
  <2>2. rows[call[c].r].stamp <= call[c].flags /\ call[c].flags <= api[call[c].r]
    BY <1>4 DEF FlagsInv, AnswerIsNew
  <2>. QED
    BY <1>2, <2>1, <2>2, SMTT(30)
<1>. QED
  BY <1>1, <1>3, <1>4 DEF FlagsInv, LockIsHeld, AnswerIsNew

(* A step that only takes the API further, or a row's flags.                  *)
LEMMA FlagsAround ==
    ASSUME FlagsInv, NEW r \in HistoryRows,
           Flags!JobWrites(r) \/ Flags!Delete(r) \/ Flags!BookingChanges(r)
    PROVE  FlagsInv' /\ Flags!FlagsForward
<1>. USE DEF FlagsInv, FlagsTypes
<1>1. CASE Flags!JobWrites(r)
  <2>1. PICK fl \in job[r] :
          rows' = [rows EXCEPT ![r] = [known |-> TRUE, flags |-> fl, stamp |-> @.stamp]]
    BY <1>1, Zenon DEF Flags!JobWrites
  <2>2. fl \in Nat /\ UNCHANGED <<api, lock, call>> /\ job' \in [HistoryRows -> SUBSET Nat]
    BY <1>1 DEF Flags!JobWrites
  <2>3. rows' \in [HistoryRows -> [known : BOOLEAN, flags : Nat, stamp : Nat]]
    BY <2>1, <2>2
  <2>4. \A s \in HistoryRows : rows'[s].stamp = rows[s].stamp /\ rows[s].stamp \in Nat
    BY <2>1
  <2>5. \A s \in HistoryRows : rows'[s].stamp <= rows[s].stamp /\ api[s] <= api'[s]
    BY <2>2, <2>4
  <2>6. Flags!FlagsForward
    BY <2>4 DEF Flags!FlagsForward
  <2>. QED
    BY <2>2, <2>3, <2>5, <2>6, ResolvesUntouched
<1>2. CASE Flags!Delete(r)
  <2>1. /\ rows' = [rows EXCEPT ![r] = [known |-> FALSE, flags |-> 0, stamp |-> 0]]
        /\ UNCHANGED <<api, lock, call, job>>
    BY <1>2 DEF Flags!Delete
  <2>2. rows' \in [HistoryRows -> [known : BOOLEAN, flags : Nat, stamp : Nat]]
    BY <2>1
  <2>3. \A s \in HistoryRows : rows'[s].stamp <= rows[s].stamp /\ api[s] <= api'[s]
    BY <2>1
  <2>4. Flags!FlagsForward
    BY <2>1 DEF Flags!FlagsForward
  <2>. QED
    BY <2>1, <2>2, <2>3, <2>4, ResolvesUntouched
<1>3. CASE Flags!BookingChanges(r)
  <2>1. api' = [api EXCEPT ![r] = @ + 1] /\ UNCHANGED <<rows, lock, call, job>>
    BY <1>3 DEF Flags!BookingChanges
  <2>2. api' \in [HistoryRows -> Nat] /\ \A s \in HistoryRows : api[s] <= api'[s]
    BY <2>1
  <2>3. \A s \in HistoryRows : rows'[s].stamp <= rows[s].stamp
    BY <2>1
  <2>4. Flags!FlagsForward
    BY <2>1 DEF Flags!FlagsForward
  <2>. QED
    BY <2>1, <2>2, <2>3, <2>4, ResolvesUntouched
<1>. QED
  BY <1>1, <1>2, <1>3

(* An answer is written: the row is the one that is locked.                   *)
LEMMA AnswerWritten ==
    ASSUME FlagsInv, NEW c \in Callers, call[c].pc \in {"emit", "again"},
           Flags!Written(c), NEW pc \in {"again", "end"},
           call' = [call EXCEPT ![c].pc = pc], UNCHANGED <<api, lock, job>>
    PROVE  FlagsInv' /\ Flags!FlagsForward
<1>. USE DEF FlagsInv, FlagsTypes
<1>. DEFINE r == call[c].r
<1>1. r \in HistoryRows /\ call[c].flags \in Nat /\ call[c] \in Resolve
  BY Resolving, Zenon
<1>2. /\ rows[r].stamp <= call[c].flags /\ call[c].flags <= api[r] /\ lock[r] = c
  BY DEF AnswerIsNew, LockIsHeld
<1>3. rows' = [rows EXCEPT ![r] = [known |-> TRUE, flags |-> call[c].flags,
                                   stamp |-> call[c].flags]]
  BY DEF Flags!Written
<1>4. rows' \in [HistoryRows -> [known : BOOLEAN, flags : Nat, stamp : Nat]]
  BY <1>1, <1>3
<1>5. /\ rows'[r].stamp = call[c].flags
      /\ \A s \in HistoryRows \ {r} : rows'[s] = rows[s]
  BY <1>1, <1>3
<1>. HIDE DEF r
<1>6. /\ call'[c].pc = pc /\ call'[c].r = r /\ call'[c].flags = call[c].flags
      /\ \A d \in Callers \ {c} : call'[d] = call[d]
  BY <1>1 DEF r, Resolve
<1>7. call' \in [Callers -> {Flags!Idle} \cup Resolve]
  <2>1. [call[c] EXCEPT !.pc = pc] \in Resolve
    BY Resolving, Zenon
  <2>2. call' = [call EXCEPT ![c] = [call[c] EXCEPT !.pc = pc]]
    OBVIOUS
  <2>. QED
    BY <2>1, <2>2, SMTT(30)
<1>8. FlagsTypes'
  BY <1>4, <1>7
<1>9. LockIsHeld'
  BY <1>2, <1>6 DEF LockIsHeld
<1>10. StampIsOld'
  BY <1>1, <1>2, <1>5 DEF StampIsOld
<1>11. AnswerIsNew'
  <2>1. ASSUME NEW d \in Callers \ {c}, call[d].pc \in {"emit", "again"}
        PROVE  call[d].r # r /\ call[d].r \in HistoryRows
    BY <1>2, <2>1, Resolving, Zenon DEF LockIsHeld
  <2>. QED
    BY <1>1, <1>2, <1>5, <1>6, <2>1 DEF AnswerIsNew
<1>12. Flags!FlagsForward
  BY <1>1, <1>2, <1>5 DEF Flags!FlagsForward
<1>. QED
  BY <1>8, <1>9, <1>10, <1>11, <1>12

(* A resolve goes on: no row is written.                                      *)
LEMMA ResolveGoesOn ==
    ASSUME Nobody \notin Callers, FlagsInv, NEW c \in Callers,
           \/ Flags!with_inflight(c) \/ Flags!fetch_api_kunde(c) \/ Flags!LookupFails(c)
           \/ Flags!Ends(c)
           \/ \E r \in HistoryRows, k \in {"dialog", "retry", "append"}, p \in Flags!Policies :
                Flags!Begins(c, r, k, p)
    PROVE  FlagsInv' /\ UNCHANGED rows
<1>. USE DEF FlagsInv, FlagsTypes, LockIsHeld, StampIsOld, AnswerIsNew
<1>1. ASSUME NEW r \in HistoryRows, NEW k \in {"dialog", "retry", "append"},
             NEW p \in Flags!Policies, Flags!Begins(c, r, k, p)
      PROVE  FlagsInv' /\ UNCHANGED rows
  BY <1>1 DEF Flags!Begins, Resolve
<1>2. ASSUME call[c].pc # "idle", NEW entry \in Resolve, call' = [call EXCEPT ![c] = entry],
             entry.r = call[c].r,
             lock' = [lock EXCEPT ![call[c].r] = c],
             lock[call[c].r] \in {Nobody, c},
             entry.pc = "emit" => entry.flags = api[call[c].r],
             entry.pc # "again",
             UNCHANGED <<rows, api, job>>
      PROVE  FlagsInv' /\ UNCHANGED rows
  <2>1. call[c].r \in HistoryRows
    BY <1>2, Resolving, Zenon
  <2>2. FlagsTypes'
    BY <1>2, <2>1
  <2>3. /\ call'[c] = entry /\ \A d \in Callers \ {c} : call'[d] = call[d]
    BY <1>2
  <2>4. ASSUME NEW d \in Callers \ {c},
               call[d].pc \in {"ask", "fallback", "emit", "again", "end"}
        PROVE  lock'[call[d].r] = d
    <3>1. call[d].r \in HistoryRows /\ lock[call[d].r] = d
      BY <2>4, Resolving, Zenon
    <3>. QED
      BY <1>2, <3>1, SMTT(30)
  <2>5. LockIsHeld'
    BY <1>2, <2>1, <2>3, <2>4
  <2>6. AnswerIsNew'
    <3>1. \A r \in HistoryRows : rows[r].stamp \in Nat /\ api[r] \in Nat
      OBVIOUS
    <3>. QED
      BY <1>2, <2>1, <2>3, <3>1
  <2>7. StampIsOld'
    BY <1>2
  <2>. QED
    BY <1>2, <2>2, <2>5, <2>6, <2>7
<1>3. CASE Flags!with_inflight(c)
  <2>1. call[c].pc = "wait" /\ lock[call[c].r] = Nobody /\ UNCHANGED <<rows, api, job>>
        /\ lock' = [lock EXCEPT ![call[c].r] = c]
    BY <1>3, SMTT(30) DEF Flags!with_inflight
  <2>2. call[c].r \in HistoryRows /\ call[c].flags \in Nat /\ call[c] \in Resolve
    BY <2>1, Resolving, Zenon
  <2>3. PICK pc \in {"ask", "end"}, fl \in Nat :
          call' = [call EXCEPT ![c] = [call[c] EXCEPT !.pc = pc, !.flags = fl]]
    <3>1. rows[call[c].r].flags \in Nat
      BY <2>2, SMTT(30)
    <3>. QED
      BY <1>3, <2>2, <3>1, Zenon DEF Flags!with_inflight
  <2>. DEFINE entry == [call[c] EXCEPT !.pc = pc, !.flags = fl]
  <2>4. entry \in Resolve
    BY <2>1, Resolving, Zenon
  <2>5. entry.r = call[c].r /\ entry.pc = pc
    BY <2>2 DEF Resolve
  <2>. HIDE DEF entry
  <2>. QED
    BY <1>2, <2>1, <2>3, <2>4, <2>5, Zenon DEF entry
<1>4. CASE Flags!fetch_api_kunde(c)
  <2>1. call[c].pc \in {"ask", "fallback"} /\ UNCHANGED <<rows, api, lock, job>>
    BY <1>4, SMTT(30) DEF Flags!fetch_api_kunde
  <2>2. call[c].r \in HistoryRows /\ call[c] \in Resolve /\ lock[call[c].r] = c
    BY <2>1, Resolving, Zenon
  <2>. DEFINE entry == [call[c] EXCEPT !.pc = "emit", !.flags = api[call[c].r]]
  <2>3. call' = [call EXCEPT ![c] = entry]
    BY <1>4, SMTT(30) DEF Flags!fetch_api_kunde
  <2>4. entry \in Resolve
    <3>1. api[call[c].r] \in Nat
      BY <2>2
    <3>. QED
      BY <2>1, <3>1, Resolving, Zenon
  <2>5. entry.r = call[c].r /\ entry.pc = "emit" /\ entry.flags = api[call[c].r]
    BY <2>2 DEF Resolve
  <2>6. lock' = [lock EXCEPT ![call[c].r] = c]
    BY <2>1, <2>2
  <2>. HIDE DEF entry
  <2>. QED
    BY <1>2, <2>1, <2>2, <2>3, <2>4, <2>5, <2>6
<1>5. CASE Flags!LookupFails(c)
  <2>1. call[c].pc \in {"ask", "fallback"} /\ UNCHANGED <<rows, api, lock, job>>
    BY <1>5 DEF Flags!LookupFails
  <2>2. call[c].r \in HistoryRows /\ call[c] \in Resolve /\ lock[call[c].r] = c
    BY <2>1, Resolving, Zenon
  <2>3. PICK pc \in {"fallback", "end"} :
          call' = [call EXCEPT ![c] = [call[c] EXCEPT !.pc = pc]]
    BY <1>5, Zenon DEF Flags!LookupFails
  <2>. DEFINE entry == [call[c] EXCEPT !.pc = pc]
  <2>4. entry \in Resolve
    BY <2>1, Resolving, Zenon
  <2>5. entry.r = call[c].r /\ entry.pc = pc
    BY <2>2 DEF Resolve
  <2>6. lock' = [lock EXCEPT ![call[c].r] = c]
    BY <2>1, <2>2
  <2>. HIDE DEF entry
  <2>. QED
    BY <1>2, <2>1, <2>2, <2>3, <2>4, <2>5, <2>6 DEF entry
<1>6. CASE Flags!Ends(c)
  <2>1. call[c].pc = "end" /\ call' = [call EXCEPT ![c] = Flags!Idle]
        /\ lock' = [lock EXCEPT ![call[c].r] = IF @ = c THEN Nobody ELSE @]
        /\ UNCHANGED <<rows, api>>
    BY <1>6, SMTT(30) DEF Flags!Ends
  <2>2. call[c].r \in HistoryRows /\ call[c].flags \in Nat
    BY <2>1, Resolving, Zenon
  <2>3. job' \in [HistoryRows -> SUBSET Nat]
    BY <1>6, <2>2 DEF Flags!Ends
  <2>4. FlagsTypes'
    BY <2>1, <2>2, <2>3, Zenon
  <2>5. /\ \A d \in Callers \ {c} : call'[d] = call[d]
        /\ call'[c] = [pc |-> "idle"]
    BY <2>1 DEF Flags!Idle
  <2>6. ASSUME NEW d \in Callers \ {c},
               call[d].pc \in {"ask", "fallback", "emit", "again", "end"}
        PROVE  lock'[call[d].r] = d
    <3>1. call[d].r \in HistoryRows /\ lock[call[d].r] = d
      BY <2>6, Resolving, Zenon
    <3>. QED
      BY <2>1, <2>2, <3>1, SMTT(30)
  <2>7. LockIsHeld'
    BY <2>5, <2>6
  <2>8. AnswerIsNew'
    BY <2>1, <2>5
  <2>9. StampIsOld'
    BY <2>1
  <2>. QED
    BY <2>1, <2>4, <2>7, <2>8, <2>9
<1>. QED
  BY <1>1, <1>3, <1>4, <1>5, <1>6

(* No step of a caller, of the API or of a command makes a stamp older.       *)
LEMMA FlagsStep ==
    ASSUME Nobody \notin Callers
    PROVE  FlagsInv /\ [Flags!Next]_(Flags!vars)
             => FlagsInv' /\ [Flags!FlagsForward]_(Flags!vars)
<1>1. ASSUME FlagsInv, [Flags!Next]_(Flags!vars)
      PROVE  FlagsInv' /\ [Flags!FlagsForward]_(Flags!vars)
  <2>1. ASSUME FlagsInv' /\ UNCHANGED rows
        PROVE  Flags!FlagsForward
    <3>1. \A r \in HistoryRows : rows[r].stamp \in Nat
      BY <1>1 DEF FlagsInv, FlagsTypes
    <3>. QED
      BY <2>1, <3>1 DEF Flags!FlagsForward
  <2>2. ASSUME NEW c \in Callers, Flags!Resolves(c)
        PROVE  FlagsInv' /\ Flags!FlagsForward
    <3>1. CASE Flags!persist_history_media_flags(c)
      <4>1. PICK pc \in {"again", "end"} : call' = [call EXCEPT ![c].pc = pc]
        BY <3>1, Zenon DEF Flags!persist_history_media_flags
      <4>. QED
        BY <1>1, <3>1, <4>1, AnswerWritten, Zenon
           DEF Flags!persist_history_media_flags
    <3>2. CASE Flags!DialogWrites(c)
      BY <1>1, <3>2, AnswerWritten, Zenon DEF Flags!DialogWrites
    <3>3. CASE ~Flags!persist_history_media_flags(c) /\ ~Flags!DialogWrites(c)
      BY <1>1, <2>1, <2>2, <3>3, ResolveGoesOn DEF Flags!Resolves
    <3>. QED
      BY <3>1, <3>2, <3>3
  <2>3. ASSUME NEW c \in Callers, NEW r \in HistoryRows, NEW k \in {"dialog", "retry", "append"},
               NEW p \in Flags!Policies, Flags!Begins(c, r, k, p)
        PROVE  FlagsInv' /\ Flags!FlagsForward
    BY <1>1, <2>1, <2>3, ResolveGoesOn
  <2>4. ASSUME UNCHANGED Flags!vars
        PROVE  FlagsInv'
    BY <1>1, <2>4 DEF Flags!vars, FlagsInv, FlagsTypes, LockIsHeld, StampIsOld,
       AnswerIsNew
  <2>. QED
    BY <1>1, <2>2, <2>3, <2>4, FlagsAround DEF Flags!Next
<1>. QED
  BY <1>1

(* The stamp of a row never goes back, whichever of dialog, retry and append  *)
(* resolves it, however late an answer comes and whoever has deleted or       *)
(* rewritten the row meanwhile (with_booking_flags_lock,                      *)
(* persist_history_media_flags).  Nobody is no caller.                        *)
THEOREM FlagsNeverGoBack ==
    ASSUME Nobody \notin Callers
    PROVE  Flags!Spec => [][Flags!FlagsForward]_(Flags!vars)
<1>1. FlagsInv /\ [Flags!Next]_(Flags!vars)
        => FlagsInv' /\ [Flags!FlagsForward]_(Flags!vars)
  BY FlagsStep
<1>2. Flags!Init => FlagsInv
  BY FlagsInit
<1>. QED
  BY <1>1, <1>2, PTL DEF Flags!Spec

-----------------------------------------------------------------------------
(* FolderStability.  A pending folder whose files are as they were when they  *)
(* were last walked was last written to before that walk ended, and a walk    *)
(* ends at most a tick after the time the tracker was given.  A folder that   *)
(* was found stable and is about to be claimed was quiet then; while the      *)
(* customer is looked up the pass stands still, and with it what was read.    *)

WaitEntry == [seen : {TRUE}, fingerprint : Nat, media : BOOLEAN, since : Nat]

StabilityTypes ==
    /\ now \in Nat /\ required \in Waits
    /\ size \in [Watched -> Nat] /\ written \in [Watched -> Nat]
    /\ pending \in [Watched -> {Stability!NotPending} \cup WaitEntry]
    /\ walk \in {Stability!Nothing} \cup [folder : Watched, at : Nat]

WrittenBefore == \A f \in Watched : written[f] <= now

WalkIsShort == walk # Stability!Nothing => walk.at <= now /\ now <= walk.at + 1

QuietSince(f) ==
    /\ pending[f].fingerprint <= size[f]
    /\ pending[f].fingerprint > 0 /\ pending[f].fingerprint = size[f] =>
         written[f] <= pending[f].since + 1

WaitIsQuiet == \A f \in Watched : pending[f].seen => QuietSince(f)

StabilityInv == StabilityTypes /\ WrittenBefore /\ WalkIsShort /\ WaitIsQuiet

PassTypes ==
    /\ fertig \subseteq Watched /\ processing \subseteq Watched
    /\ pass \in [todo : SUBSET Watched, keep : SUBSET Watched, on : BOOLEAN]
    /\ claim \in {Stability!Nothing}
                 \cup [folder : Watched, waited : BOOLEAN, size : Nat, at : Nat]

OneAtATime ==
    /\ walk # Stability!Nothing => pass.on /\ claim = Stability!Nothing
    /\ claim # Stability!Nothing => pass.on

ClaimQuiet(f) ==
    /\ claim.size <= size[f]
    /\ claim.waited /\ f \notin blind /\ size[f] = claim.size =>
         claim.at + 1 >= written[f] + required

ClaimIsQuietThen ==
    claim # Stability!Nothing => \A f \in Watched : f = claim.folder => ClaimQuiet(f)

ClaimInv == PassTypes /\ OneAtATime /\ ClaimIsQuietThen

(* No folder is waiting and none was written to.                              *)
LEMMA StabilityInit == Stability!Init => StabilityInv /\ ClaimInv
BY DEF Stability!Init, Stability!NotPending, Stability!Nothing, Stability!Idle, StabilityInv,
   StabilityTypes, WrittenBefore, WalkIsShort, WaitIsQuiet, QuietSince, ClaimInv, PassTypes,
   OneAtATime, ClaimIsQuietThen

(* What a pending folder is.                                                  *)
LEMMA PendingEntry ==
    ASSUME StabilityTypes, NEW f \in Watched, pending[f].seen
    PROVE  pending[f] \in WaitEntry /\ pending[f].fingerprint \in Nat
             /\ pending[f].since \in Nat
<1>1. pending[f] \in WaitEntry
  BY DEF StabilityTypes, Stability!NotPending
<1>. QED
  BY <1>1, Zenon DEF WaitEntry

(* What becomes of the tracker's entries when no folder is written to: each   *)
(* stays, is dropped or is as quiet as an entry has to be.                    *)
LEMMA TrackerStep ==
    ASSUME StabilityInv, UNCHANGED <<now, size, written>>, required' \in Waits,
           \/ walk' \in {walk, Stability!Nothing}
           \/ \E f \in Watched : walk' = [folder |-> f, at |-> now],
           pending' \in [Watched -> {Stability!NotPending} \cup WaitEntry],
           \A f \in Watched :
              \/ pending'[f] = pending[f] \/ pending'[f] = Stability!NotPending
              \/ QuietSince(f)'
    PROVE  StabilityInv'
<1>. USE DEF StabilityInv, StabilityTypes
<1>1. WaitIsQuiet'
  BY DEF WaitIsQuiet, QuietSince, Stability!NotPending
<1>2. WrittenBefore'
  BY DEF WrittenBefore
<1>3. walk' \in {Stability!Nothing} \cup [folder : Watched, at : Nat] /\ WalkIsShort'
  <2>1. CASE walk' \in {walk, Stability!Nothing}
    BY <2>1 DEF WalkIsShort
  <2>2. ASSUME NEW f \in Watched, walk' = [folder |-> f, at |-> now]
        PROVE  walk' \in [folder : Watched, at : Nat] /\ WalkIsShort'
    BY <2>2 DEF WalkIsShort
  <2>. QED
    BY <2>1, <2>2
<1>. QED
  BY <1>1, <1>2, <1>3

(* A dropped entry of the tracker.                                            *)
LEMMA Discarded ==
    ASSUME StabilityTypes, NEW f \in Watched, Stability!discard(f)
    PROVE  /\ pending' \in [Watched -> {Stability!NotPending} \cup WaitEntry]
           /\ \A g \in Watched : pending'[g] = pending[g] \/ pending'[g] = Stability!NotPending
BY DEF Stability!discard, StabilityTypes

(* The entry of a folder whose walk has found fp of its files: its time is    *)
(* not after the walk began; after a whole walk the folder was last written   *)
(* to within a tick of it.                                                    *)
LEMMA EntryIsQuiet ==
    ASSUME StabilityInv, NEW f \in Watched, NEW fp \in 0..size[f],
           walk # Stability!Nothing
    PROVE  LET e == Stability!Entry(f, fp, walk.at)
           IN  /\ e \in WaitEntry /\ e.fingerprint = fp /\ e.since \in Nat
               /\ fp > 0 /\ fp = size[f] => written[f] <= e.since + 1
<1>. DEFINE e == Stability!Entry(f, fp, walk.at)
<1>1. /\ walk.at \in Nat /\ now \in Nat /\ now <= walk.at + 1 /\ written[f] \in Nat
      /\ written[f] <= now /\ size[f] \in Nat /\ fp \in Nat
  BY DEF StabilityInv, StabilityTypes, WalkIsShort, WrittenBefore
<1>. DEFINE Goal == /\ e \in WaitEntry /\ e.fingerprint = fp /\ e.since \in Nat
                    /\ fp > 0 /\ fp = size[f] => written[f] <= e.since + 1
<1>. SUFFICES Goal
  OBVIOUS
<1>2. CASE fp = 0
  <2>1. CASE pending[f].seen
    <3>1. pending[f].since \in Nat
      BY <2>1, PendingEntry DEF StabilityInv
    <3>2. e = [seen |-> TRUE, fingerprint |-> 0, media |-> FALSE,
               since |-> pending[f].since]
      BY <1>2, <2>1 DEF Stability!Entry
    <3>3. [seen |-> TRUE, fingerprint |-> 0, media |-> FALSE,
           since |-> pending[f].since] \in WaitEntry
      BY <3>1 DEF WaitEntry
    <3>. HIDE DEF e
    <3>. QED
      BY <1>2, <3>1, <3>2, <3>3
  <2>2. CASE ~pending[f].seen
    <3>1. e = [seen |-> TRUE, fingerprint |-> 0, media |-> FALSE, since |-> walk.at]
      BY <1>2, <2>2 DEF Stability!Entry
    <3>2. [seen |-> TRUE, fingerprint |-> 0, media |-> FALSE, since |-> walk.at]
            \in WaitEntry
      BY <1>1 DEF WaitEntry
    <3>. HIDE DEF e
    <3>. QED
      BY <1>1, <1>2, <3>1, <3>2
  <2>. QED
    BY <2>1, <2>2
<1>3. CASE fp # 0 /\ pending[f].seen /\ pending[f].fingerprint = fp
  <2>1. e = pending[f]
    BY <1>3 DEF Stability!Entry
  <2>2. pending[f] \in WaitEntry /\ pending[f].since \in Nat
    BY <1>3, PendingEntry DEF StabilityInv
  <2>3. fp > 0 /\ fp = size[f] => written[f] <= pending[f].since + 1
    BY <1>3 DEF StabilityInv, WaitIsQuiet, QuietSince
  <2>. QED
    BY <1>3, <2>1, <2>2, <2>3
<1>4. CASE fp # 0 /\ ~(pending[f].seen /\ pending[f].fingerprint = fp)
  <2>1. e = [seen |-> TRUE, fingerprint |-> fp, media |-> TRUE, since |-> walk.at]
    BY <1>4 DEF Stability!Entry, Stability!Restarted
  <2>. QED
    BY <1>1, <2>1 DEF WaitEntry
<1>. QED
  BY <1>2, <1>3, <1>4

(* The end of a walk: what is found stable was quiet for the time set.        *)
LEMMA ObserveStep ==
    ASSUME Waits \subseteq Nat, StabilityInv, ClaimInv, Stability!observe_at
    PROVE  StabilityInv' /\ ClaimInv'
<1>. DEFINE f == walk.folder
<1>1. walk # Stability!Nothing /\ f \in Watched /\ walk.at \in Nat
  BY DEF StabilityInv, StabilityTypes, Stability!observe_at
<1>2. /\ UNCHANGED <<now, size, written, required, fertig, processing>>
      /\ walk' = Stability!Nothing
  BY DEF Stability!observe_at, Stability!world
<1>3. pass.on /\ claim = Stability!Nothing
        /\ pass \in [todo : SUBSET Watched, keep : SUBSET Watched, on : BOOLEAN]
  BY <1>1 DEF ClaimInv, OneAtATime, PassTypes
<1>4. PICK fp \in 0..size[f] :
        /\ fp = size[f] \/ f \in blind'
        /\ \/ Stability!discard(f) /\ Stability!Seen(f) /\ UNCHANGED claim
           \/ /\ fp > 0
              /\ \/ required = 0
                 \/ walk.at >= Stability!Entry(f, fp, walk.at).since + required
              /\ Stability!Takes(f, TRUE)
           \/ Stability!Waiting(f, Stability!Entry(f, fp, walk.at))
  BY <1>1 DEF Stability!observe_at, Stability!folder_content_fingerprint
<1>. DEFINE e == Stability!Entry(f, fp, walk.at)
<1>5. /\ e \in WaitEntry /\ e.fingerprint = fp /\ e.since \in Nat
      /\ fp > 0 /\ fp = size[f] => written[f] <= e.since + 1
  BY <1>1, EntryIsQuiet
<1>6. required \in Nat /\ now \in Nat /\ size[f] \in Nat /\ written[f] \in Nat
        /\ walk.at <= now /\ written[f] <= now
  BY <1>1 DEF StabilityInv, StabilityTypes, WalkIsShort, WrittenBefore
<1>7. PassTypes /\ pass' \in [todo : SUBSET Watched, keep : SUBSET Watched, on : BOOLEAN]
        /\ pass'.on
  <2>1. PassTypes
    BY DEF ClaimInv
  <2>2. \/ pass' = [pass EXCEPT !.todo = @ \ {f}]
        \/ pass' = [pass EXCEPT !.todo = @ \ {f}, !.keep = @ \cup {f}]
    BY <1>4 DEF Stability!Seen, Stability!Takes, Stability!Waiting
  <2>. QED
    BY <1>1, <1>3, <2>1, <2>2
<1>. HIDE DEF e, f
<1>8. CASE Stability!Waiting(f, e)
  <2>1. UNCHANGED claim /\ pending' = [pending EXCEPT ![f] = e]
    BY <1>8 DEF Stability!Waiting
  <2>2. /\ pending' \in [Watched -> {Stability!NotPending} \cup WaitEntry]
        /\ pending'[f] = e /\ \A g \in Watched \ {f} : pending'[g] = pending[g]
    BY <1>1, <1>5, <2>1 DEF StabilityInv, StabilityTypes
  <2>3. pending'[f].fingerprint <= size[f]
          /\ (pending'[f].fingerprint > 0 /\ pending'[f].fingerprint = size[f] =>
                 written[f] <= pending'[f].since + 1)
    BY <1>4, <1>5, <1>6, <2>2
  <2>4. \A g \in Watched : pending'[g] = pending[g] \/ QuietSince(g)'
    BY <1>2, <2>2, <2>3 DEF QuietSince
  <2>5. required' \in Waits
    BY <1>2 DEF StabilityInv, StabilityTypes
  <2>6. StabilityInv'
    BY <1>2, <2>2, <2>4, <2>5, TrackerStep
  <2>. QED
    BY <1>2, <1>3, <1>7, <2>1, <2>6
       DEF ClaimInv, PassTypes, OneAtATime, ClaimIsQuietThen
<1>9. CASE /\ Stability!discard(f)
           /\ \/ UNCHANGED claim
              \/ /\ fp > 0 /\ (required = 0 \/ walk.at >= e.since + required)
                 /\ claim' = [folder |-> f, waited |-> TRUE, size |-> size[f], at |-> now]
  <2>1. StabilityInv'
    BY <1>1, <1>2, <1>9, Discarded, TrackerStep DEF StabilityInv, StabilityTypes
  <2>2. CASE UNCHANGED claim
    BY <1>2, <1>3, <1>7, <2>1, <2>2
       DEF ClaimInv, PassTypes, OneAtATime, ClaimIsQuietThen
  <2>3. CASE /\ fp > 0 /\ (required = 0 \/ walk.at >= e.since + required)
             /\ claim' = [folder |-> f, waited |-> TRUE, size |-> size[f], at |-> now]
    <3>1. fp = size[f] => now + 1 >= written[f] + required
      BY <1>1, <1>5, <1>6, <2>3
    <3>2. /\ claim' \in [folder : Watched, waited : BOOLEAN, size : Nat, at : Nat]
          /\ claim'.folder = f /\ claim'.size = size[f] /\ claim'.at = now
      BY <1>1, <1>6, <2>3
    <3>3. f \notin blind' => now + 1 >= written[f] + required
      BY <1>4, <3>1
    <3>4. ASSUME NEW g \in Watched, g = claim'.folder
          PROVE  /\ claim'.size <= size'[g]
                 /\ claim'.waited /\ g \notin blind' /\ size'[g] = claim'.size =>
                      claim'.at + 1 >= written'[g] + required'
      BY <1>2, <1>6, <3>2, <3>3, <3>4
    <3>5. ClaimIsQuietThen'
      BY <3>4 DEF ClaimIsQuietThen, ClaimQuiet
    <3>. QED
      BY <1>2, <1>7, <2>1, <3>2, <3>5 DEF ClaimInv, PassTypes, OneAtATime
  <2>. QED
    BY <1>9, <2>2, <2>3
<1>. QED
  BY <1>4, <1>8, <1>9 DEF e, Stability!Takes

(* A step of the pass that reads no folder and leaves the claim alone, or     *)
(* ends it.                                                                   *)
LEMMA ClaimStays ==
    ASSUME ClaimInv, UNCHANGED <<size, written, required, blind>>,
           claim' \in {claim, Stability!Nothing},
           fertig' \subseteq Watched, processing' \subseteq Watched,
           pass' \in [todo : SUBSET Watched, keep : SUBSET Watched, on : BOOLEAN],
           walk' # Stability!Nothing => pass'.on /\ claim' = Stability!Nothing,
           claim' # Stability!Nothing => pass'.on
    PROVE  ClaimInv'
<1>1. PassTypes' /\ OneAtATime'
  BY DEF ClaimInv, PassTypes, OneAtATime
<1>2. ClaimIsQuietThen'
  BY DEF ClaimInv, ClaimIsQuietThen, ClaimQuiet
<1>. QED
  BY <1>1, <1>2 DEF ClaimInv

(* The steps of a pass over the folders, which look at no clock.              *)
LEMMA PassStep ==
    ASSUME StabilityInv, ClaimInv,
           \/ Stability!stop \/ Stability!run_monitor_loop \/ Stability!retain_keys
           \/ \E f \in Watched : Stability!scan_once(f)
    PROVE  StabilityInv' /\ ClaimInv' /\ UNCHANGED processing
<1>1. /\ required \in Waits /\ pending \in [Watched -> {Stability!NotPending} \cup WaitEntry]
      /\ now \in Nat /\ size \in [Watched -> Nat]
      /\ pass \in [todo : SUBSET Watched, keep : SUBSET Watched, on : BOOLEAN]
      /\ fertig \subseteq Watched /\ processing \subseteq Watched
  BY DEF StabilityInv, StabilityTypes, ClaimInv, PassTypes
<1>2. /\ walk # Stability!Nothing => pass.on /\ claim = Stability!Nothing
      /\ claim # Stability!Nothing => pass.on
  BY DEF ClaimInv, OneAtATime
<1>3. CASE Stability!stop
  <2>1. /\ UNCHANGED <<now, size, written, required, walk, fertig, processing, pass, claim, blind>>
        /\ pending' = [g \in Watched |-> Stability!NotPending]
    BY <1>3 DEF Stability!stop, Stability!world
  <2>2. /\ pending' \in [Watched -> {Stability!NotPending} \cup WaitEntry]
        /\ \A g \in Watched : pending'[g] = Stability!NotPending
    BY <2>1
  <2>3. StabilityInv'
    BY <1>1, <2>1, <2>2, TrackerStep
  <2>. QED
    BY <1>1, <1>2, <2>1, <2>3, ClaimStays
<1>4. CASE Stability!run_monitor_loop
  <2>1. /\ UNCHANGED <<now, size, written, walk, fertig, processing, pending, claim, blind>>
        /\ required' \in Waits /\ ~pass.on
        /\ pass' = [todo |-> fertig \cup processing, keep |-> {}, on |-> TRUE]
    BY <1>4 DEF Stability!run_monitor_loop, Stability!world
  <2>2. StabilityInv'
    BY <1>1, <2>1, TrackerStep
  <2>3. claim = Stability!Nothing /\ walk = Stability!Nothing
    BY <1>2, <2>1
  <2>. QED
    BY <1>1, <2>1, <2>2, <2>3
       DEF ClaimInv, PassTypes, OneAtATime, ClaimIsQuietThen
<1>5. CASE Stability!retain_keys
  <2>1. /\ UNCHANGED <<now, size, written, required, walk, fertig, processing, claim, blind>>
        /\ walk = Stability!Nothing /\ claim = Stability!Nothing /\ pass' = Stability!Idle
        /\ pending' = [g \in Watched |-> IF g \in pass.keep THEN pending[g]
                                          ELSE Stability!NotPending]
    BY <1>5 DEF Stability!retain_keys, Stability!world
  <2>2. /\ pending' \in [Watched -> {Stability!NotPending} \cup WaitEntry]
        /\ \A g \in Watched : pending'[g] = pending[g] \/ pending'[g] = Stability!NotPending
    BY <1>1, <2>1
  <2>3. StabilityInv'
    BY <1>1, <2>1, <2>2, TrackerStep
  <2>4. pass' \in [todo : SUBSET Watched, keep : SUBSET Watched, on : BOOLEAN]
    BY <2>1 DEF Stability!Idle
  <2>. QED
    BY <1>1, <2>1, <2>3, <2>4, ClaimStays
<1>6. ASSUME NEW f \in Watched, Stability!scan_once(f)
      PROVE  StabilityInv' /\ ClaimInv' /\ UNCHANGED processing
  <2>1. /\ UNCHANGED <<now, size, written, required, fertig, processing, blind>>
        /\ pass.on /\ walk = Stability!Nothing /\ claim = Stability!Nothing
        /\ UNCHANGED walk \/ walk' = [folder |-> f, at |-> now]
    BY <1>6 DEF Stability!scan_once, Stability!world
  <2>2. Stability!discard(f) \/ UNCHANGED pending
    BY <1>6 DEF Stability!scan_once, Stability!Takes
  <2>3. /\ pending' \in [Watched -> {Stability!NotPending} \cup WaitEntry]
        /\ \A g \in Watched : pending'[g] = pending[g] \/ pending'[g] = Stability!NotPending
    BY <1>1, <2>2, Discarded DEF StabilityInv
  <2>4. StabilityInv'
    BY <1>1, <2>1, <2>3, TrackerStep
  <2>5. pass' \in [todo : SUBSET Watched, keep : SUBSET Watched, on : BOOLEAN] /\ pass'.on
    <3>1. UNCHANGED pass \/ pass' = [pass EXCEPT !.todo = @ \ {f}]
      BY <1>6 DEF Stability!scan_once, Stability!Seen, Stability!Takes
    <3>. QED
      BY <1>1, <2>1, <3>1
  <2>6. \/ UNCHANGED claim
        \/ /\ UNCHANGED walk
           /\ claim' = [folder |-> f, waited |-> FALSE, size |-> size[f], at |-> now]
    BY <1>6 DEF Stability!scan_once, Stability!Takes
  <2>7. CASE UNCHANGED claim
    BY <1>1, <2>1, <2>4, <2>5, <2>7, ClaimStays
  <2>8. CASE /\ UNCHANGED walk
             /\ claim' = [folder |-> f, waited |-> FALSE, size |-> size[f], at |-> now]
    <3>1. /\ claim' \in [folder : Watched, waited : BOOLEAN, size : Nat, at : Nat]
          /\ claim'.folder = f /\ claim'.size = size[f] /\ claim'.waited = FALSE
      BY <1>1, <2>8
    <3>2. size[f] \in Nat
      BY <1>1
    <3>3. ClaimIsQuietThen'
      BY <2>1, <3>1, <3>2 DEF ClaimIsQuietThen, ClaimQuiet
    <3>. QED
      BY <1>1, <2>1, <2>4, <2>5, <2>8, <3>1, <3>3 DEF ClaimInv, PassTypes, OneAtATime
  <2>. QED
    BY <2>1, <2>6, <2>7, <2>8
<1>. QED
  BY <1>3, <1>4, <1>5, <1>6

(* The claim comes to its end: with the folder claimed, or without.           *)
LEMMA ClaimEnds ==
    ASSUME StabilityInv, ClaimInv, Stability!claim_fertig_marker \/ Stability!NotClaimed
    PROVE  StabilityInv' /\ ClaimInv' /\ Stability!StableIsQuiet
<1>1. /\ required \in Waits /\ pending \in [Watched -> {Stability!NotPending} \cup WaitEntry]
      /\ PassTypes /\ OneAtATime /\ ClaimIsQuietThen
  BY DEF StabilityInv, StabilityTypes, ClaimInv
<1>2. /\ UNCHANGED <<now, size, written, pending, required, pass, walk, blind>>
      /\ claim # Stability!Nothing /\ claim' = Stability!Nothing
      /\ claim.folder \in Watched
      /\ \/ UNCHANGED <<fertig, processing>>
         \/ /\ processing' = processing \cup {claim.folder}
            /\ fertig' = fertig \ {claim.folder}
  BY <1>1 DEF Stability!claim_fertig_marker, Stability!NotClaimed, Stability!world, PassTypes
<1>3. StabilityInv'
  BY <1>1, <1>2, TrackerStep
<1>4. ClaimInv'
  <2>1. walk = Stability!Nothing
    BY <1>1, <1>2 DEF OneAtATime
  <2>2. /\ fertig' \subseteq Watched /\ processing' \subseteq Watched
        /\ pass' \in [todo : SUBSET Watched, keep : SUBSET Watched, on : BOOLEAN]
    BY <1>1, <1>2 DEF PassTypes
  <2>. QED
    BY <1>2, <2>1, <2>2, ClaimStays
<1>5. ASSUME NEW f \in processing' \ processing, claim.waited, f \notin blind,
             size[f] = claim.size
      PROVE  claim.at + 1 >= written[f] + required
  <2>1. f = claim.folder
    BY <1>2, <1>5
  <2>. QED
    BY <1>1, <1>2, <1>5, <2>1 DEF ClaimIsQuietThen, ClaimQuiet
<1>. QED
  BY <1>3, <1>4, <1>5 DEF Stability!StableIsQuiet

(* What happens around the monitor.                                           *)
LEMMA OutsideStep ==
    ASSUME StabilityInv, ClaimInv,
           \/ Stability!Tick \/ Stability!start
           \/ \E f \in Watched : Stability!Write(f) \/ Stability!Mark(f) \/ Stability!Unmark(f)
    PROVE  StabilityInv' /\ ClaimInv' /\ UNCHANGED processing
<1>. USE DEF StabilityInv, StabilityTypes
<1>1. CASE Stability!Tick
  <2>1. /\ now' = now + 1 /\ (walk # Stability!Nothing => walk.at = now)
        /\ UNCHANGED <<size, written, fertig, processing, pending, required, walk, pass, claim,
                       blind>>
    BY <1>1 DEF Stability!Tick, Stability!world
  <2>2. WrittenBefore'
    BY <2>1 DEF WrittenBefore
  <2>3. WalkIsShort'
    BY <2>1 DEF WalkIsShort
  <2>4. WaitIsQuiet'
    BY <2>1 DEF WaitIsQuiet, QuietSince
  <2>5. ClaimInv'
    BY <2>1 DEF ClaimInv, PassTypes, OneAtATime, ClaimIsQuietThen, ClaimQuiet
  <2>. QED
    BY <2>1, <2>2, <2>3, <2>4, <2>5
<1>2. ASSUME NEW f \in Watched, Stability!Write(f)
      PROVE  StabilityInv' /\ ClaimInv' /\ UNCHANGED processing
  <2>1. /\ size' = [size EXCEPT ![f] = @ + 1] /\ written' = [written EXCEPT ![f] = now]
        /\ UNCHANGED <<now, fertig, processing, pending, required, walk, pass, claim, blind>>
    BY <1>2 DEF Stability!Write
  <2>2. /\ size'[f] = size[f] + 1
        /\ \A g \in Watched \ {f} : size'[g] = size[g] /\ written'[g] = written[g]
    BY <2>1
  <2>3. WrittenBefore'
    BY <2>1 DEF WrittenBefore
  <2>4. ASSUME NEW g \in Watched, pending[g].seen
        PROVE  QuietSince(g)'
    <3>1. /\ pending[g].fingerprint \in Nat /\ pending[g].fingerprint <= size[g]
          /\ size[g] \in Nat
      BY <2>4, PendingEntry DEF WaitIsQuiet, QuietSince
    <3>2. QuietSince(g)
      BY <2>4 DEF WaitIsQuiet
    <3>. QED
      BY <2>1, <2>2, <3>1, <3>2 DEF QuietSince
  <2>5. StabilityTypes' /\ WalkIsShort'
    BY <2>1 DEF WalkIsShort
  <2>6. PassTypes' /\ OneAtATime'
    BY <2>1 DEF ClaimInv, PassTypes, OneAtATime
  <2>7. ASSUME NEW g \in Watched, claim # Stability!Nothing, g = claim.folder
        PROVE  ClaimQuiet(g)'
    <3>1. ClaimQuiet(g) /\ claim.size \in Nat /\ size[g] \in Nat
      BY <2>7 DEF ClaimInv, ClaimIsQuietThen, PassTypes
    <3>2. CASE g = f
      BY <2>1, <2>2, <3>1, <3>2 DEF ClaimQuiet
    <3>3. CASE g # f
      BY <2>1, <2>2, <3>1, <3>3 DEF ClaimQuiet
    <3>. QED
      BY <3>2, <3>3
  <2>8. ClaimIsQuietThen'
    BY <2>1, <2>7 DEF ClaimIsQuietThen
  <2>. QED
    BY <2>1, <2>3, <2>4, <2>5, <2>6, <2>8 DEF WaitIsQuiet, ClaimInv
<1>3. CASE Stability!start \/ \E f \in Watched : Stability!Mark(f) \/ Stability!Unmark(f)
  <2>1. /\ UNCHANGED <<now, size, written, processing, pending, required, walk, pass, claim,
                       blind>>
        /\ fertig' \subseteq Watched
    BY <1>3 DEF Stability!start, Stability!Mark, Stability!Unmark, Stability!world,
       ClaimInv, PassTypes
  <2>2. ClaimInv'
    BY <2>1 DEF ClaimInv, PassTypes, OneAtATime, ClaimIsQuietThen, ClaimQuiet
  <2>. QED
    BY <2>1, <2>2 DEF WrittenBefore, WalkIsShort, WaitIsQuiet, QuietSince
<1>. QED
  BY <1>1, <1>2, <1>3

(* A claim after a wait is one of a quiet folder.                             *)
LEMMA StabilityStep ==
    ASSUME Waits \subseteq Nat
    PROVE  StabilityInv /\ ClaimInv /\ [Stability!Next]_(Stability!vars)
             => StabilityInv' /\ ClaimInv' /\ [Stability!StableIsQuiet]_(Stability!vars)
<1>1. ASSUME StabilityInv, ClaimInv, [Stability!Next]_(Stability!vars)
      PROVE  StabilityInv' /\ ClaimInv' /\ [Stability!StableIsQuiet]_(Stability!vars)
  <2>1. ASSUME UNCHANGED processing
        PROVE  Stability!StableIsQuiet
    BY <2>1 DEF Stability!StableIsQuiet
  <2>2. ASSUME UNCHANGED Stability!vars
        PROVE  StabilityInv' /\ ClaimInv'
    BY <1>1, <2>2 DEF Stability!vars, Stability!world, StabilityInv,
       StabilityTypes,
       WrittenBefore, WalkIsShort, WaitIsQuiet, QuietSince,
       ClaimInv, PassTypes, OneAtATime, ClaimIsQuietThen, ClaimQuiet
  <2>3. CASE Stability!observe_at
    <3>1. UNCHANGED processing
      BY <2>3 DEF Stability!observe_at
    <3>. QED
      BY <1>1, <2>1, <2>3, <3>1, ObserveStep
  <2>. QED
    BY <1>1, <2>1, <2>2, <2>3, PassStep, ClaimEnds, OutsideStep DEF Stability!Next
<1>. QED
  BY <1>1

(* A folder without a manifest is claimed after its wait only if, when it was *)
(* found stable, it had not been written to for the set time, less one walk,  *)
(* whenever the walks, the writes, the lookup and the clock interleave and    *)
(* the setting changes; provided its last walk could read all of it, and      *)
(* nothing is written while the customer is looked up (observe_at, scan_once, *)
(* try_claim_and_enqueue).  The values of the setting are whole numbers of    *)
(* ticks.                                                                     *)
THEOREM ClaimedIsQuiet ==
    ASSUME Waits \subseteq Nat
    PROVE  Stability!Spec => [][Stability!StableIsQuiet]_(Stability!vars)
<1>. DEFINE Inv == StabilityInv /\ ClaimInv
<1>1. Inv /\ [Stability!Next]_(Stability!vars)
        => Inv' /\ [Stability!StableIsQuiet]_(Stability!vars)
  BY StabilityStep
<1>2. Stability!Init => Inv
  BY StabilityInit
<1>. HIDE DEF Inv
<1>. QED
  BY <1>1, <1>2, PTL DEF Stability!Spec

-----------------------------------------------------------------------------
(* FolderAssign.  Until the marker is written the folder of the assignment    *)
(* carries none, for only the assignment writes one; and it has gone through  *)
(* the steps before the one it is at, all for the customer it is for.         *)

Marker == [p : People \cup {Nobody}, ids : BOOLEAN]

AssignTypes ==
    /\ cust \in [People -> [known : BOOLEAN, ids : BOOLEAN, processed : BOOLEAN]]
    /\ fold \in [Folders -> [fertig : Marker, processing : Marker,
                             layout : People \cup {Nobody}, name : People \cup {Nobody},
                             manifest : People \cup {Nobody},
                             fits : BOOLEAN, busy : BOOLEAN, gone : BOOLEAN]]
    /\ op \in {Assign!Idle} \cup
         [pc : {"second", "layout", "name", "manifest", "mark", "gate", "save"},
          p : People, f : Folders]

(* A marker with ids is there only with all that was made for its customer.   *)
MarkedIsWhole ==
    \A f \in Folders : fold[f].fertig.ids =>
      /\ fold[f].layout = fold[f].fertig.p /\ fold[f].name = fold[f].fertig.p
      /\ fold[f].manifest = fold[f].fertig.p

(* How far the assignment is.                                                 *)
AssignedSoFar ==
    /\ op.pc \in {"layout", "name", "manifest", "mark"} =>
         fold[op.f].fertig = Assign!NoMark
    /\ op.pc \in {"layout", "name", "manifest"} => cust[op.p].ids
    /\ op.pc \in {"name", "manifest"} => fold[op.f].layout = op.p
    /\ op.pc = "manifest" => fold[op.f].name = op.p
    /\ op.pc = "mark" /\ cust[op.p].ids =>
         fold[op.f].layout = op.p /\ fold[op.f].name = op.p /\ fold[op.f].manifest = op.p

AssignInv == AssignTypes /\ MarkedIsWhole /\ AssignedSoFar

(* No folder is marked and no assignment runs.                                *)
LEMMA AssignInit == Assign!Init => AssignInv
<1>. SUFFICES ASSUME Assign!Init PROVE AssignInv
  OBVIOUS
<1>. USE DEF Assign!Init, Assign!NoMark, Assign!Idle
<1>1. cust \in [People -> [known : BOOLEAN, ids : BOOLEAN, processed : BOOLEAN]]
  <2>1. cust \in [People ->
                    {[known |-> TRUE, ids |-> i, processed |-> FALSE] : i \in BOOLEAN}]
    OBVIOUS
  <2>2. {[known |-> TRUE, ids |-> i, processed |-> FALSE] : i \in BOOLEAN}
          \subseteq [known : BOOLEAN, ids : BOOLEAN, processed : BOOLEAN]
    <3>1. ASSUME NEW i \in BOOLEAN
          PROVE  [known |-> TRUE, ids |-> i, processed |-> FALSE]
                   \in [known : BOOLEAN, ids : BOOLEAN, processed : BOOLEAN]
      OBVIOUS
    <3>. QED
      BY <3>1, Zenon
  <2>. QED
    BY <2>1, <2>2
<1>2. AssignTypes
  BY <1>1 DEF AssignTypes, Marker
<1>. QED
  BY <1>2 DEF AssignInv, MarkedIsWhole, AssignedSoFar

(* The assignment that is under way.                                          *)
LEMMA UnderWay ==
    ASSUME AssignTypes, op.pc # "idle"
    PROVE  op.p \in People /\ op.f \in Folders
             /\ op.pc \in {"second", "layout", "name", "manifest", "mark", "gate", "save"}
BY DEF AssignTypes, Assign!Idle

(* The customers table changes only while no assignment holds its lock.       *)
LEMMA TableStep ==
    ASSUME AssignInv, NEW p \in People,
           \/ \E b \in BOOLEAN : Assign!Save(p, b) \/ Assign!Update(p, b)
                                   \/ Assign!set_processed(p, b)
           \/ Assign!Delete(p)
    PROVE  AssignInv' /\ UNCHANGED fold
<1>1. op = Assign!Idle /\ op' = op /\ UNCHANGED fold
  BY DEF Assign!Save, Assign!Update, Assign!set_processed, Assign!Delete,
     Assign!Begins
<1>2. cust' \in [People -> [known : BOOLEAN, ids : BOOLEAN, processed : BOOLEAN]]
  <2>1. cust \in [People -> [known : BOOLEAN, ids : BOOLEAN, processed : BOOLEAN]]
    BY DEF AssignInv, AssignTypes
  <2>2. ASSUME NEW b \in BOOLEAN, Assign!Save(p, b)
        PROVE  cust' \in [People -> [known : BOOLEAN, ids : BOOLEAN, processed : BOOLEAN]]
    BY <2>1, <2>2 DEF Assign!Save
  <2>3. ASSUME NEW b \in BOOLEAN, Assign!Update(p, b)
        PROVE  cust' \in [People -> [known : BOOLEAN, ids : BOOLEAN, processed : BOOLEAN]]
    BY <2>1, <2>3 DEF Assign!Update
  <2>4. ASSUME NEW b \in BOOLEAN, Assign!set_processed(p, b)
        PROVE  cust' \in [People -> [known : BOOLEAN, ids : BOOLEAN, processed : BOOLEAN]]
    BY <2>1, <2>4 DEF Assign!set_processed
  <2>5. CASE Assign!Delete(p)
    BY <2>1, <2>5 DEF Assign!Delete
  <2>. QED
    BY <2>2, <2>3, <2>4, <2>5
<1>. QED
  BY <1>1, <1>2 DEF AssignInv, AssignTypes, MarkedIsWhole, AssignedSoFar,
     Assign!Idle

(* The assignment begins, goes on to its first step or ends.                  *)
LEMMA BeginStep ==
    ASSUME AssignInv,
           \/ \E p \in People, f \in Folders : Assign!AssignBegins(p, f)
           \/ Assign!folder_block_reason
           \/ Assign!StepFails \/ Assign!Crash
    PROVE  AssignInv' /\ UNCHANGED fold
<1>. USE DEF AssignInv
<1>1. UNCHANGED <<cust, fold>>
  BY DEF Assign!AssignBegins, Assign!folder_block_reason, Assign!StepFails,
     Assign!Crash
<1>2. CASE op' = Assign!Idle
  BY <1>1, <1>2 DEF AssignTypes, MarkedIsWhole, AssignedSoFar, Assign!Idle
<1>3. ASSUME NEW p \in People, NEW f \in Folders, op' = [pc |-> "second", p |-> p, f |-> f]
      PROVE  AssignInv'
  BY <1>1, <1>3 DEF AssignTypes, MarkedIsWhole, AssignedSoFar
<1>4. CASE Assign!folder_block_reason /\ op' # Assign!Idle
  <2>1. op.pc = "second" /\ op.p \in People /\ op.f \in Folders
    BY <1>4, UnderWay DEF Assign!folder_block_reason
  <2>2. PICK pc \in {"layout", "mark"} :
          /\ pc = "layout" => cust[op.p].ids
          /\ pc = "mark" => ~cust[op.p].ids
          /\ op' = [op EXCEPT !.pc = pc] /\ fold[op.f].fertig = Assign!NoMark
    BY <1>4 DEF Assign!folder_block_reason, Assign!Step
  <2>3. op \in [pc : {"second", "layout", "name", "manifest", "mark", "gate", "save"},
                p : People, f : Folders]
    BY <2>1 DEF AssignTypes, Assign!Idle
  <2>4. op'.pc = pc /\ op'.p = op.p /\ op'.f = op.f
    BY <2>2, <2>3
  <2>5. AssignTypes'
    BY <1>1, <2>2, <2>3 DEF AssignTypes
  <2>. QED
    BY <1>1, <2>2, <2>4, <2>5 DEF MarkedIsWhole, AssignedSoFar
<1>. QED
  BY <1>1, <1>2, <1>3, <1>4 DEF Assign!AssignBegins, Assign!StepFails,
     Assign!Crash

(* A step of the assignment that is done moves on to the next.                *)
LEMMA StepDone ==
    ASSUME AssignTypes, NEW pc \in {"layout", "name", "manifest", "mark"}, Assign!Works(pc)
    PROVE  /\ op.pc = pc /\ op.p \in People /\ op.f \in Folders
           /\ op'.pc = Assign!After(pc) /\ op'.p = op.p /\ op'.f = op.f
           /\ op' \in [pc : {"second", "layout", "name", "manifest", "mark", "gate", "save"},
                       p : People, f : Folders]
<1>1. op.pc = pc /\ op.p \in People /\ op.f \in Folders
  BY UnderWay DEF Assign!Works
<1>2. op \in [pc : {"second", "layout", "name", "manifest", "mark", "gate", "save"},
              p : People, f : Folders]
  BY <1>1 DEF AssignTypes, Assign!Idle
<1>3. op' = [op EXCEPT !.pc = Assign!After(pc)]
  BY DEF Assign!Works, Assign!Step
<1>4. Assign!After(pc) \in {"name", "manifest", "mark", "gate", "save"}
  <2>1. CASE pc = "mark"
    BY <2>1 DEF Assign!After
  <2>2. CASE pc # "mark"
    BY <2>2 DEF Assign!After
  <2>. QED
    BY <2>1, <2>2
<1>. QED
  BY <1>1, <1>2, <1>3, <1>4

(* What a step made for a customer whose folder is not marked.                *)
LEMMA MadeStep ==
    ASSUME AssignInv,
           \/ Assign!rearrange_media_layout \/ Assign!rename_job_folder
           \/ Assign!write_ams_assign_manifest \/ Assign!write_fertig_marker
    PROVE  AssignInv'
<1>. USE DEF AssignInv
<1>. DEFINE Fold == [fertig : Marker, processing : Marker,
                     layout : People \cup {Nobody}, name : People \cup {Nobody},
                     manifest : People \cup {Nobody},
                     fits : BOOLEAN, busy : BOOLEAN, gone : BOOLEAN]
<1>1. fold \in [Folders -> Fold]
  BY DEF AssignTypes
<1>2. CASE Assign!rearrange_media_layout
  <2>1. /\ op.pc = "layout" /\ op.p \in People /\ op.f \in Folders
        /\ op'.pc = "name" /\ op'.p = op.p /\ op'.f = op.f
        /\ op' \in [pc : {"second", "layout", "name", "manifest", "mark", "gate", "save"},
                    p : People, f : Folders]
    BY <1>2, StepDone DEF Assign!rearrange_media_layout, Assign!After
  <2>2. fold' = [fold EXCEPT ![op.f].layout = op.p] /\ cust' = cust
    BY <1>2 DEF Assign!rearrange_media_layout
  <2>3. /\ fold' \in [Folders -> Fold]
        /\ fold'[op.f].fertig = fold[op.f].fertig /\ fold'[op.f].layout = op.p
        /\ \A f \in Folders \ {op.f} : fold'[f] = fold[f]
    BY <1>1, <2>1, <2>2
  <2>4. fold[op.f].fertig = Assign!NoMark /\ cust[op.p].ids
    BY <2>1 DEF AssignedSoFar
  <2>5. ~fold'[op.f].fertig.ids
    BY <2>3, <2>4 DEF Assign!NoMark
  <2>6. MarkedIsWhole'
    BY <2>3, <2>5 DEF MarkedIsWhole
  <2>7. AssignedSoFar'
    BY <2>1, <2>2, <2>3, <2>4 DEF AssignedSoFar
  <2>. QED
    BY <2>1, <2>2, <2>3, <2>6, <2>7 DEF AssignTypes
<1>3. CASE Assign!rename_job_folder
  <2>1. /\ op.pc = "name" /\ op.p \in People /\ op.f \in Folders
        /\ op'.pc = "manifest" /\ op'.p = op.p /\ op'.f = op.f
        /\ op' \in [pc : {"second", "layout", "name", "manifest", "mark", "gate", "save"},
                    p : People, f : Folders]
    BY <1>3, StepDone DEF Assign!rename_job_folder, Assign!After
  <2>2. fold' = [fold EXCEPT ![op.f].name = op.p] /\ cust' = cust
    BY <1>3 DEF Assign!rename_job_folder
  <2>3. /\ fold' \in [Folders -> Fold]
        /\ fold'[op.f].fertig = fold[op.f].fertig /\ fold'[op.f].name = op.p
        /\ fold'[op.f].layout = fold[op.f].layout
        /\ \A f \in Folders \ {op.f} : fold'[f] = fold[f]
    BY <1>1, <2>1, <2>2
  <2>4. /\ fold[op.f].fertig = Assign!NoMark /\ cust[op.p].ids
        /\ fold[op.f].layout = op.p
    BY <2>1 DEF AssignedSoFar
  <2>5. ~fold'[op.f].fertig.ids
    BY <2>3, <2>4 DEF Assign!NoMark
  <2>6. MarkedIsWhole'
    BY <2>3, <2>5 DEF MarkedIsWhole
  <2>7. AssignedSoFar'
    BY <2>1, <2>2, <2>3, <2>4 DEF AssignedSoFar
  <2>. QED
    BY <2>1, <2>2, <2>3, <2>6, <2>7 DEF AssignTypes
<1>4. CASE Assign!write_ams_assign_manifest
  <2>1. /\ op.pc = "manifest" /\ op.p \in People /\ op.f \in Folders
        /\ op'.pc = "mark" /\ op'.p = op.p /\ op'.f = op.f
        /\ op' \in [pc : {"second", "layout", "name", "manifest", "mark", "gate", "save"},
                    p : People, f : Folders]
    BY <1>4, StepDone DEF Assign!write_ams_assign_manifest, Assign!After
  <2>2. fold' = [fold EXCEPT ![op.f].manifest = op.p, ![op.f].fits = TRUE] /\ cust' = cust
    BY <1>4 DEF Assign!write_ams_assign_manifest
  <2>3. /\ fold' \in [Folders -> Fold]
        /\ fold'[op.f].fertig = fold[op.f].fertig /\ fold'[op.f].manifest = op.p
        /\ fold'[op.f].layout = fold[op.f].layout /\ fold'[op.f].name = fold[op.f].name
        /\ \A f \in Folders \ {op.f} : fold'[f] = fold[f]
    BY <1>1, <2>1, <2>2
  <2>4. /\ fold[op.f].fertig = Assign!NoMark
        /\ fold[op.f].layout = op.p /\ fold[op.f].name = op.p
    BY <2>1 DEF AssignedSoFar
  <2>5. ~fold'[op.f].fertig.ids
    BY <2>3, <2>4 DEF Assign!NoMark
  <2>6. MarkedIsWhole'
    BY <2>3, <2>5 DEF MarkedIsWhole
  <2>7. AssignedSoFar'
    BY <2>1, <2>2, <2>3, <2>4 DEF AssignedSoFar
  <2>. QED
    BY <2>1, <2>2, <2>3, <2>6, <2>7 DEF AssignTypes
<1>5. CASE Assign!write_fertig_marker
  <2>1. /\ op.pc = "mark" /\ op.p \in People /\ op.f \in Folders
        /\ op'.pc \in {"gate", "save"} /\ op'.p = op.p /\ op'.f = op.f
        /\ op' \in [pc : {"second", "layout", "name", "manifest", "mark", "gate", "save"},
                    p : People, f : Folders]
    BY <1>5, StepDone DEF Assign!write_fertig_marker, Assign!After
  <2>2. /\ fold' = [fold EXCEPT ![op.f].fertig = [p |-> op.p, ids |-> cust[op.p].ids]]
        /\ cust' = cust /\ cust[op.p].ids \in BOOLEAN
    BY <1>5, <2>1 DEF Assign!write_fertig_marker, AssignTypes
  <2>3. [p |-> op.p, ids |-> cust[op.p].ids] \in Marker
    BY <2>1, <2>2 DEF Marker
  <2>4. /\ fold' \in [Folders -> Fold]
        /\ fold'[op.f].fertig = [p |-> op.p, ids |-> cust[op.p].ids]
        /\ fold'[op.f].layout = fold[op.f].layout /\ fold'[op.f].name = fold[op.f].name
        /\ fold'[op.f].manifest = fold[op.f].manifest
        /\ \A f \in Folders \ {op.f} : fold'[f] = fold[f]
    BY <1>1, <2>1, <2>2, <2>3
  <2>5. cust[op.p].ids =>
          fold[op.f].layout = op.p /\ fold[op.f].name = op.p /\ fold[op.f].manifest = op.p
    BY <2>1 DEF AssignedSoFar
  <2>6. MarkedIsWhole'
    BY <2>4, <2>5 DEF MarkedIsWhole
  <2>7. AssignedSoFar'
    BY <2>1 DEF AssignedSoFar
  <2>. QED
    BY <2>1, <2>2, <2>4, <2>6, <2>7 DEF AssignTypes
<1>. QED
  BY <1>2, <1>3, <1>4, <1>5

(* The steps that take a marker away or leave markers and what was made.      *)
LEMMA FolderStep ==
    ASSUME AssignInv, NEW f \in Folders, UNCHANGED cust,
           NEW new \in [fertig : Marker, processing : Marker,
                        layout : People \cup {Nobody}, name : People \cup {Nobody},
                        manifest : People \cup {Nobody},
                        fits : BOOLEAN, busy : BOOLEAN, gone : BOOLEAN],
           fold' = [fold EXCEPT ![f] = new],
           new.fertig \in {fold[f].fertig, Assign!NoMark},
           new.layout = fold[f].layout, new.name = fold[f].name,
           new.manifest = fold[f].manifest,
           op' \in {op, Assign!Idle}
    PROVE  AssignInv'
<1>. USE DEF AssignInv
<1>1. fold'[f] = new /\ \A g \in Folders \ {f} : fold'[g] = fold[g]
  BY DEF AssignTypes
<1>2. AssignTypes'
  BY DEF AssignTypes
<1>3. MarkedIsWhole'
  BY <1>1 DEF MarkedIsWhole, Assign!NoMark
<1>4. CASE op' = Assign!Idle
  BY <1>2, <1>3, <1>4 DEF AssignedSoFar, Assign!Idle
<1>5. CASE op' = op /\ op.pc \in {"layout", "name", "manifest", "mark"}
  <2>1. op.f \in Folders
    BY <1>5, UnderWay
  <2>2. /\ fold'[op.f].layout = fold[op.f].layout /\ fold'[op.f].name = fold[op.f].name
        /\ fold'[op.f].manifest = fold[op.f].manifest
        /\ fold'[op.f].fertig \in {fold[op.f].fertig, Assign!NoMark}
    BY <1>1, <2>1
  <2>. QED
    BY <1>2, <1>3, <1>5, <2>2 DEF AssignedSoFar
<1>6. CASE op' = op /\ op.pc \notin {"layout", "name", "manifest", "mark"}
  BY <1>2, <1>3, <1>6 DEF AssignedSoFar
<1>. QED
  BY <1>4, <1>5, <1>6

(* The end of the assignment, and whoever else touches a folder.              *)
LEMMA AroundStep ==
    ASSUME AssignInv,
           \/ Assign!evaluate_manifest_gate \/ Assign!mark_assigned
           \/ \E f \in Folders : Assign!Claim(f) \/ Assign!Archived(f) \/ Assign!Grows(f)
                                   \/ Assign!Quiet(f)
    PROVE  AssignInv'
<1>. USE DEF AssignInv
<1>. DEFINE Fold == [fertig : Marker, processing : Marker,
                     layout : People \cup {Nobody}, name : People \cup {Nobody},
                     manifest : People \cup {Nobody},
                     fits : BOOLEAN, busy : BOOLEAN, gone : BOOLEAN]
<1>1. fold \in [Folders -> Fold] /\ Assign!NoMark \in Marker
  BY DEF AssignTypes, Assign!NoMark, Marker
<1>2. CASE Assign!evaluate_manifest_gate
  <2>1. op.pc = "gate" /\ op.p \in People /\ op.f \in Folders
    BY <1>2, UnderWay DEF Assign!evaluate_manifest_gate
  <2>2. CASE op' = [op EXCEPT !.pc = "save"] /\ UNCHANGED fold
    <3>1. op \in [pc : {"second", "layout", "name", "manifest", "mark", "gate", "save"},
                  p : People, f : Folders]
      BY <2>1 DEF AssignTypes, Assign!Idle
    <3>2. op'.pc = "save" /\ cust' = cust
      BY <1>2, <2>2, <3>1 DEF Assign!evaluate_manifest_gate
    <3>3. AssignTypes'
      BY <2>2, <3>1, <3>2 DEF AssignTypes
    <3>. QED
      BY <2>2, <3>2, <3>3 DEF MarkedIsWhole, AssignedSoFar
  <2>3. CASE op' = Assign!Idle /\ fold' = [fold EXCEPT ![op.f].fertig = Assign!NoMark]
    <3>. DEFINE new == [fold[op.f] EXCEPT !.fertig = Assign!NoMark]
    <3>1. /\ new \in Fold /\ new.fertig = Assign!NoMark /\ new.layout = fold[op.f].layout
          /\ new.name = fold[op.f].name /\ new.manifest = fold[op.f].manifest
      BY <1>1, <2>1
    <3>2. fold' = [fold EXCEPT ![op.f] = new] /\ cust' = cust
      BY <1>2, <2>3 DEF Assign!evaluate_manifest_gate
    <3>. HIDE DEF new
    <3>. QED
      BY <2>1, <2>3, <3>1, <3>2, FolderStep, Zenon
  <2>. QED
    BY <1>2, <2>2, <2>3 DEF Assign!evaluate_manifest_gate, Assign!Step
<1>3. CASE Assign!mark_assigned
  <2>1. /\ op' = Assign!Idle /\ fold' = fold
        /\ cust' = [cust EXCEPT ![op.p].processed = TRUE]
    BY <1>3 DEF Assign!mark_assigned
  <2>2. cust' \in [People -> [known : BOOLEAN, ids : BOOLEAN, processed : BOOLEAN]]
    BY <2>1, Zenon DEF AssignTypes
  <2>. QED
    BY <2>1, <2>2 DEF AssignTypes, MarkedIsWhole, AssignedSoFar, Assign!Idle
<1>4. ASSUME NEW f \in Folders, Assign!Claim(f)
      PROVE  AssignInv'
  <2>. DEFINE new == [fold[f] EXCEPT !.processing = fold[f].fertig, !.fertig = Assign!NoMark]
  <2>1. /\ new \in Fold /\ new.fertig = Assign!NoMark /\ new.layout = fold[f].layout
        /\ new.name = fold[f].name /\ new.manifest = fold[f].manifest
    BY <1>1, Zenon
  <2>2. fold' = [fold EXCEPT ![f] = new] /\ UNCHANGED <<cust, op>>
    BY <1>1, <1>4 DEF Assign!Claim
  <2>. HIDE DEF new
  <2>. QED
    BY <2>1, <2>2, FolderStep, Zenon
<1>5. ASSUME NEW f \in Folders, Assign!Archived(f)
      PROVE  AssignInv'
  <2>. DEFINE new == [fold[f] EXCEPT !.gone = TRUE]
  <2>1. /\ new \in Fold /\ new.fertig = fold[f].fertig /\ new.layout = fold[f].layout
        /\ new.name = fold[f].name /\ new.manifest = fold[f].manifest
    BY <1>1, Zenon
  <2>2. fold' = [fold EXCEPT ![f] = new] /\ UNCHANGED <<cust, op>>
    BY <1>5 DEF Assign!Archived
  <2>. HIDE DEF new
  <2>. QED
    BY <2>1, <2>2, FolderStep, Zenon
<1>6. ASSUME NEW f \in Folders, Assign!Grows(f)
      PROVE  AssignInv'
  <2>. DEFINE new == [fold[f] EXCEPT !.busy = TRUE, !.fits = FALSE]
  <2>1. /\ new \in Fold /\ new.fertig = fold[f].fertig /\ new.layout = fold[f].layout
        /\ new.name = fold[f].name /\ new.manifest = fold[f].manifest
    BY <1>1, Zenon
  <2>2. fold' = [fold EXCEPT ![f] = new] /\ UNCHANGED <<cust, op>>
    BY <1>1, <1>6, Zenon DEF Assign!Grows
  <2>. HIDE DEF new
  <2>. QED
    BY <2>1, <2>2, FolderStep, Zenon
<1>7. ASSUME NEW f \in Folders, Assign!Quiet(f)
      PROVE  AssignInv'
  <2>. DEFINE new == [fold[f] EXCEPT !.busy = FALSE]
  <2>1. /\ new \in Fold /\ new.fertig = fold[f].fertig /\ new.layout = fold[f].layout
        /\ new.name = fold[f].name /\ new.manifest = fold[f].manifest
    BY <1>1, Zenon
  <2>2. fold' = [fold EXCEPT ![f] = new] /\ UNCHANGED <<cust, op>>
    BY <1>7 DEF Assign!Quiet
  <2>. HIDE DEF new
  <2>. QED
    BY <2>1, <2>2, FolderStep, Zenon
<1>. QED
  BY <1>2, <1>3, <1>4, <1>5, <1>6, <1>7

(* Every step of an assignment, of the desk and of the monitor keeps it.      *)
LEMMA AssignStep ==
    AssignInv /\ [Assign!Next]_(Assign!vars) => AssignInv'
<1>1. ASSUME AssignInv, UNCHANGED Assign!vars
      PROVE  AssignInv'
  BY <1>1 DEF Assign!vars, AssignInv, AssignTypes, MarkedIsWhole, AssignedSoFar
<1>. QED
  BY <1>1, TableStep, BeginStep, MadeStep, AroundStep DEF Assign!Next,
     Assign!Assigns

(* Then a claimed folder is wholly its customer's.                            *)
LEMMA AssignClaim == AssignInv => Assign!NeverHalfAssigned
BY DEF AssignInv, MarkedIsWhole, Assign!NeverHalfAssigned

(* The monitor claims no folder half way through an assignment: the marker of *)
(* a customer with ids stands only where layout, name and manifest were made  *)
(* for this customer, wherever the desk was stopped and whatever was assigned *)
(* to the folder before (run_id_assign_pipeline, evaluate_manifest_gate).     *)
THEOREM NoHalfAssignmentClaimed ==
    Assign!Spec => [][Assign!NeverHalfAssigned]_(Assign!vars)
BY AssignInit, AssignStep, AssignClaim, PTL DEF Assign!Spec

-----------------------------------------------------------------------------
(* DropboxAccounts.  Which account a token opens is known only after Dropbox  *)
(* was asked, but it is always one of the accounts; the active profile is a   *)
(* row whenever there is one, also while the application is stopped, and only *)
(* the clients forget it then.                                                *)

Keys == Dropbox!Profiles \cup {Dropbox!Legacy}
Tokens == Accounts \cup {Nobody}

FlowTypes ==
    /\ flow \in [Flows -> [step : {"idle", "signed", "named"}, key : Keys, info : Tokens]]
    /\ \A f \in Flows : flow[f].step = "named" => flow[f].info \in Accounts

AccountTypes ==
    /\ made \in 0..MaxProfiles
    /\ row \in [Dropbox!Profiles -> Accounts \cup {Dropbox!Unbound, Dropbox!Absent}]
    /\ token \in [Keys -> Tokens] /\ access \in [Keys -> Tokens]
    /\ FlowTypes

NotYetMade == \A p \in Dropbox!Profiles : p > made => row[p] = Dropbox!Absent

OneProfilePerAccount ==
    \A p, q \in Dropbox!Profiles : p # q /\ row[p] \in Accounts => row[q] # row[p]

ActiveIsRow ==
    active \in Dropbox!Rows \cup {Nobody} /\ (active = Nobody => Dropbox!Rows = {})

ClientsAgree == up => cur = active

AccountInv ==
    /\ AccountTypes /\ NotYetMade /\ OneProfilePerAccount /\ ActiveIsRow /\ ClientsAgree

(* Before the first start there is no profile.                                *)
LEMMA AccountInit == AccountsApart /\ Dropbox!Init => AccountInv
<1>. SUFFICES ASSUME AccountsApart, Dropbox!Init PROVE AccountInv
  OBVIOUS
<1>. USE DEF Dropbox!Init, AccountsApart
<1>1. token \in [Keys -> Tokens]
  BY DEF Keys, Tokens
<1>2. FlowTypes
  BY DEF FlowTypes, Dropbox!Idle, Keys, Tokens
<1>3. Dropbox!Rows = {}
  BY DEF Dropbox!Rows
<1>4. AccountTypes
  BY <1>1, <1>2 DEF AccountTypes, Keys, Tokens
<1>. QED
  BY <1>3, <1>4 DEF AccountInv, NotYetMade, OneProfilePerAccount, ActiveIsRow,
     ClientsAgree

(* Mirroring moves tokens between two names of the keyring.                   *)
LEMMA MirrorTyped ==
    ASSUME NEW tok \in [Keys -> Tokens], NEW keys, NEW act \in Dropbox!Profiles \cup {Nobody},
           Dropbox!Mirror(tok, keys, act)
    PROVE  token' \in [Keys -> Tokens]
BY DEF Dropbox!Mirror, Dropbox!sync_active_secrets_with_legacy, Keys

(* A set of naturals that is not empty has a least one.                       *)
LEMMA LeastOfNats ==
    ASSUME NEW S \in SUBSET Nat, S # {}
    PROVE  \E p \in S : \A q \in S : p <= q
<1>. DEFINE Below == {p \in Nat \X Nat : p[1] < p[2]}
<1>1. IsWellFoundedOn(Below, Nat)
  <2>1. OpToRel(<, Nat) = Below
    BY Zenon DEF OpToRel
  <2>. QED
    BY <2>1, NatLessThanWellFounded, Zenon
<1>2. PICK p \in S : \A q \in S : ~(<<q, p>> \in Below)
  BY <1>1, WFMin, Zenon
<1>3. \A q \in S : ~(q < p)
  BY <1>2, Zenon
<1>. QED
  BY <1>3

(* The oldest of some profiles is one of them.                                *)
LEMMA FirstIsOne ==
    ASSUME NEW S \in SUBSET Nat, S # {}
    PROVE  Dropbox!First(S) \in S
<1>1. PICK p \in S : \A q \in S : p <= q
  BY LeastOfNats
<1>. QED
  BY <1>1, Zenon DEF Dropbox!First

(* Sessions with Dropbox, jobs and the settings touch no row.                 *)
LEMMA RowsKept ==
    ASSUME AccountsApart, AccountInv, UNCHANGED <<made, row>>, token' \in [Keys -> Tokens],
           access' \in [Keys -> Tokens], FlowTypes',
           \/ UNCHANGED active /\ (up' => up /\ cur' = cur)
           \/ active' \in Dropbox!Rows /\ cur' = active'
    PROVE  AccountInv' /\ Dropbox!ProfilesAreSound
<1>. USE DEF AccountInv
<1>1. AccountTypes' /\ NotYetMade' /\ OneProfilePerAccount'
  BY DEF AccountTypes, NotYetMade, OneProfilePerAccount
<1>2. Dropbox!Rows' = Dropbox!Rows
  BY DEF Dropbox!Rows
<1>3. ActiveIsRow'
  <2>1. Nobody \notin Dropbox!Rows
    BY DEF AccountsApart, Dropbox!Rows
  <2>. QED
    BY <1>2, <2>1 DEF ActiveIsRow
<1>4. ClientsAgree'
  BY DEF ClientsAgree
<1>5. Dropbox!ActiveAgrees'
  BY <1>3, <1>4 DEF Dropbox!ActiveAgrees, ActiveIsRow, ClientsAgree
<1>6. Dropbox!IdentityIsFinal
  BY DEF Dropbox!IdentityIsFinal, OneProfilePerAccount
<1>. QED
  BY <1>1, <1>3, <1>4, <1>5, <1>6 DEF Dropbox!ProfilesAreSound

(* What the clients' steps leave as it was.                                   *)
LEMMA ClientIsKey ==
    ASSUME AccountInv, up
    PROVE  Dropbox!Client \in Keys /\ active \in Dropbox!Profiles \cup {Nobody}
BY DEF AccountInv, ClientsAgree, ActiveIsRow, Dropbox!Rows, Dropbox!Client, Keys

(* A step that leaves rows and the active profile alone, by what it does to   *)
(* the tokens and to the commands under way.                                  *)
LEMMA SessionStep ==
    ASSUME AccountsApart, AccountInv,
           \/ Dropbox!Stop \/ Dropbox!save_secret \/ Dropbox!connect_active_cloud
           \/ Dropbox!disconnect_active_cloud \/ Dropbox!Claim
           \/ \E p \in Dropbox!Profiles :
                \/ Dropbox!set_active_dropbox_account(p)
                \/ Dropbox!resolve_binding_for_history(p)
                \/ Dropbox!Upload(p) \/ Dropbox!JobEnds(p)
           \/ \E k \in Keys :
                \/ Dropbox!disconnect_dropbox(k) \/ Dropbox!Refused(k)
                \/ Dropbox!connection_status_verified(k) \/ Dropbox!AccessExpires(k)
    PROVE  AccountInv' /\ Dropbox!ProfilesAreSound
<1>1. /\ token \in [Keys -> Tokens] /\ access \in [Keys -> Tokens] /\ FlowTypes
      /\ Nobody \in Tokens /\ Dropbox!Profiles \subseteq Keys
  BY DEF AccountInv, AccountTypes, Tokens, Keys
<1>2. \A k \in Keys : /\ Dropbox!refresh_access_token(k) \in Tokens
                      /\ Dropbox!ensure_token(k) \in Tokens
  BY <1>1 DEF Dropbox!refresh_access_token, Dropbox!ensure_token
<1>3. ASSUME UNCHANGED <<made, row, active, cur, up, flow>>, token' \in [Keys -> Tokens],
             access' \in [Keys -> Tokens]
      PROVE  AccountInv' /\ Dropbox!ProfilesAreSound
  <2>1. FlowTypes'
    BY <1>1, <1>3 DEF FlowTypes
  <2>. QED
    BY <1>3, <2>1, RowsKept
<1>4. ASSUME UNCHANGED <<made, row, active, cur, up, flow, token>>, NEW k \in Keys,
             NEW t \in Tokens, access' = [access EXCEPT ![k] = t]
      PROVE  AccountInv' /\ Dropbox!ProfilesAreSound
  BY <1>1, <1>3, <1>4
<1>5. CASE Dropbox!Stop
  <2>1. /\ UNCHANGED <<made, row, active, cur, token>> /\ ~up'
        /\ access' = [k \in Keys |-> Nobody] /\ flow' = [f \in Flows |-> Dropbox!Idle]
    BY <1>1, <1>5 DEF Dropbox!Stop
  <2>2. access' \in [Keys -> Tokens] /\ FlowTypes'
    BY <1>1, <2>1 DEF FlowTypes, Dropbox!Idle, Keys
  <2>. QED
    BY <1>1, <2>1, <2>2, RowsKept
<1>6. CASE Dropbox!save_secret \/ Dropbox!Claim
           \/ \E p \in Dropbox!Profiles : Dropbox!resolve_binding_for_history(p)
                                            \/ Dropbox!JobEnds(p)
  <2>1. UNCHANGED <<made, row, active, cur, up, flow, token, access>>
    BY <1>6 DEF Dropbox!save_secret, Dropbox!Claim,
       Dropbox!resolve_binding_for_history,
       Dropbox!JobEnds
  <2>. QED
    BY <1>1, <1>3, <2>1
<1>7. CASE Dropbox!connect_active_cloud \/ Dropbox!disconnect_active_cloud
  <2>1. UNCHANGED <<made, row, active, cur, up, flow>> /\ Dropbox!Client \in Keys
    BY <1>7, ClientIsKey DEF Dropbox!connect_active_cloud,
       Dropbox!disconnect_active_cloud
  <2>2. token' \in [Keys -> Tokens] /\ access' \in [Keys -> Tokens]
    BY <1>1, <1>2, <1>7, <2>1 DEF Dropbox!connect_active_cloud,
       Dropbox!disconnect_active_cloud, Dropbox!disconnect_session
  <2>. QED
    BY <1>3, <2>1, <2>2
<1>8. ASSUME NEW p \in Dropbox!Profiles, Dropbox!set_active_dropbox_account(p)
      PROVE  AccountInv' /\ Dropbox!ProfilesAreSound
  <2>1. /\ UNCHANGED <<made, row, access, flow>> /\ active' \in Dropbox!Rows /\ cur' = active'
        /\ Dropbox!Mirror(token, creds, p)
    BY <1>8 DEF Dropbox!set_active_dropbox_account
  <2>2. token' \in [Keys -> Tokens]
    BY <1>1, <2>1, MirrorTyped
  <2>3. FlowTypes'
    BY <1>1, <2>1 DEF FlowTypes
  <2>. QED
    BY <1>1, <2>1, <2>2, <2>3, RowsKept
<1>9. ASSUME NEW p \in Dropbox!Profiles, Dropbox!Upload(p)
      PROVE  AccountInv' /\ Dropbox!ProfilesAreSound
  BY <1>1, <1>2, <1>4, <1>9, Zenon DEF Dropbox!Upload
<1>10. ASSUME NEW k \in Keys, Dropbox!disconnect_dropbox(k)
       PROVE  AccountInv' /\ Dropbox!ProfilesAreSound
  <2>1. /\ UNCHANGED <<made, row, active, cur, up, flow>> /\ up
        /\ access' = [access EXCEPT ![k] = Nobody]
        /\ Dropbox!Mirror([token EXCEPT ![k] = Nobody], creds, active)
    BY <1>10 DEF Dropbox!disconnect_dropbox, Dropbox!disconnect_session
  <2>2. [token EXCEPT ![k] = Nobody] \in [Keys -> Tokens] /\ access' \in [Keys -> Tokens]
    BY <1>1, <2>1
  <2>3. token' \in [Keys -> Tokens]
    BY <2>1, <2>2, ClientIsKey, MirrorTyped, Zenon
  <2>. QED
    BY <1>3, <2>1, <2>2, <2>3
<1>11. ASSUME NEW k \in Keys,
              \/ Dropbox!Refused(k) \/ Dropbox!connection_status_verified(k)
              \/ Dropbox!AccessExpires(k)
       PROVE  AccountInv' /\ Dropbox!ProfilesAreSound
  <2>1. UNCHANGED <<made, row, active, cur, up, flow>>
    BY <1>11 DEF Dropbox!Refused, Dropbox!connection_status_verified,
       Dropbox!AccessExpires
  <2>2. token' \in [Keys -> Tokens] /\ access' \in [Keys -> Tokens]
    BY <1>1, <1>2, <1>11 DEF Dropbox!Refused, Dropbox!connection_status_verified,
       Dropbox!AccessExpires
  <2>. QED
    BY <1>3, <2>1, <2>2
<1>. QED
  BY <1>5, <1>6, <1>7, <1>8, <1>9, <1>10, <1>11

(* Signing in and connecting: the token of the one account that was asked.    *)
LEMMA SignInStep ==
    ASSUME AccountsApart, AccountInv, NEW f \in Flows,
           \/ Dropbox!account_info(f) \/ Dropbox!InfoLost(f)
           \/ \E k \in Keys : \/ Dropbox!connect_session(f, k)
                              \/ \E a \in Accounts : Dropbox!finish_oauth(f, k, a)
    PROVE  AccountInv' /\ Dropbox!ProfilesAreSound
<1>. DEFINE Flow == [step : {"idle", "signed", "named"}, key : Keys, info : Tokens]
<1>1. /\ token \in [Keys -> Tokens] /\ access \in [Keys -> Tokens] /\ FlowTypes
      /\ Nobody \in Tokens /\ Accounts \subseteq Tokens /\ flow \in [Flows -> Flow]
      /\ Dropbox!Legacy \in Keys
  BY DEF AccountInv, AccountTypes, FlowTypes, Tokens, Keys
<1>2. \A k \in Keys : /\ Dropbox!refresh_access_token(k) \in Tokens
                      /\ Dropbox!ensure_token(k) \in Tokens
  BY <1>1 DEF Dropbox!refresh_access_token, Dropbox!ensure_token
<1>3. ASSUME NEW new \in Flow, new.step = "named" => new.info \in Accounts,
             flow' = [flow EXCEPT ![f] = new], UNCHANGED <<made, row, active, cur, up>>,
             token' \in [Keys -> Tokens], access' \in [Keys -> Tokens]
      PROVE  AccountInv' /\ Dropbox!ProfilesAreSound
  <2>1. FlowTypes'
    BY <1>1, <1>3 DEF FlowTypes
  <2>. QED
    BY <1>3, <2>1, RowsKept
<1>4. Dropbox!Idle \in Flow /\ Dropbox!Idle.step = "idle"
  BY <1>1 DEF Dropbox!Idle
<1>5. \A k \in Keys : /\ Dropbox!finish_dropbox_oauth(k) \in Flow
                      /\ Dropbox!finish_dropbox_oauth(k).step # "named"
  BY <1>1, <1>4 DEF Dropbox!finish_dropbox_oauth
<1>. HIDE DEF Flow
<1>6. CASE Dropbox!InfoLost(f)
  BY <1>1, <1>3, <1>4, <1>6, Zenon DEF Dropbox!InfoLost
<1>7. ASSUME NEW k \in Keys, Dropbox!connect_session(f, k)
      PROVE  AccountInv' /\ Dropbox!ProfilesAreSound
  <2>1. access' \in [Keys -> Tokens]
    BY <1>1, <1>2, <1>7 DEF Dropbox!connect_session
  <2>. QED
    BY <1>1, <1>3, <1>5, <1>7, <2>1, Zenon DEF Dropbox!connect_session,
       Dropbox!connect_dropbox
<1>8. ASSUME NEW k \in Keys, NEW a \in Accounts, Dropbox!finish_oauth(f, k, a)
      PROVE  AccountInv' /\ Dropbox!ProfilesAreSound
  <2>1. token' \in [Keys -> Tokens] /\ access' \in [Keys -> Tokens]
    BY <1>1, <1>8 DEF Dropbox!finish_oauth, Dropbox!finish_oauth_for_keys
  <2>. QED
    BY <1>3, <1>5, <1>8, <2>1, Zenon DEF Dropbox!finish_oauth
<1>9. CASE Dropbox!account_info(f)
  <2>. DEFINE k == flow[f].key
              new == IF Dropbox!ensure_token(k) = Nobody THEN Dropbox!Idle
                     ELSE [flow[f] EXCEPT !.step = "named", !.info = Dropbox!ensure_token(k)]
  <2>1. k \in Keys
    BY <1>1 DEF Flow
  <2>2. /\ flow' = [flow EXCEPT ![f] = new] /\ UNCHANGED <<made, row, active, cur, up, token>>
        /\ access' = [access EXCEPT ![k] = Dropbox!ensure_token(k)]
    BY <1>9 DEF Dropbox!account_info
  <2>3. Dropbox!ensure_token(k) \in Tokens
    BY <1>2, <2>1
  <2>4. access' \in [Keys -> Tokens]
    BY <1>1, <2>1, <2>2, <2>3
  <2>5. new \in Flow /\ (new.step = "named" => new.info \in Accounts)
    <3>1. CASE Dropbox!ensure_token(k) = Nobody
      BY <1>4, <3>1
    <3>2. CASE Dropbox!ensure_token(k) # Nobody
      <4>1. new = [flow[f] EXCEPT !.step = "named", !.info = Dropbox!ensure_token(k)]
        BY <3>2
      <4>2. Dropbox!ensure_token(k) \in Accounts
        BY <2>3, <3>2 DEF Tokens
      <4>3. flow[f] \in Flow
        BY <1>1
      <4>. HIDE DEF new, k
      <4>. QED
        BY <2>3, <4>1, <4>2, <4>3, Zenon DEF Flow
    <3>. QED
      BY <3>1, <3>2
  <2>. HIDE DEF new, k
  <2>. QED
    BY <1>1, <1>3, <2>2, <2>4, <2>5, Zenon
<1>. QED
  BY <1>6, <1>7, <1>8, <1>9

(* A step that makes a profile, binds one or erases one.                      *)
LEMMA RowsChanged ==
    ASSUME AccountsApart, AccountInv, made' \in 0..MaxProfiles, made <= made',
           row' \in [Dropbox!Profiles -> Accounts \cup {Dropbox!Unbound, Dropbox!Absent}],
           token' \in [Keys -> Tokens], access' \in [Keys -> Tokens], FlowTypes',
           NotYetMade', ActiveIsRow', ClientsAgree',
           \A p \in Dropbox!Profiles :
             \/ row'[p] \in {row[p], Dropbox!Unbound, Dropbox!Absent}
             \/ row[p] \notin Accounts
                  /\ \A q \in Dropbox!Profiles \ {p} : row'[q] # row'[p],
           \A p \in Dropbox!Profiles : row[p] \in Accounts => row'[p] # Dropbox!Unbound
    PROVE  AccountInv' /\ Dropbox!ProfilesAreSound
<1>. USE DEF AccountInv
<1>1. AccountTypes'
  BY DEF AccountTypes
<1>2. OneProfilePerAccount'
  <2>. SUFFICES ASSUME NEW p \in Dropbox!Profiles, NEW q \in Dropbox!Profiles, p # q,
                       row'[p] \in Accounts, row'[q] = row'[p]
                PROVE  FALSE
    BY DEF OneProfilePerAccount
  <2>1. /\ row'[p] \notin {Dropbox!Unbound, Dropbox!Absent}
        /\ row'[q] \notin {Dropbox!Unbound, Dropbox!Absent}
    BY DEF AccountsApart
  <2>2. row'[p] = row[p] /\ row'[q] = row[q]
    BY <2>1
  <2>. QED
    BY <2>2 DEF OneProfilePerAccount
<1>3. Dropbox!IdentityIsFinal
  BY <1>2 DEF Dropbox!IdentityIsFinal, OneProfilePerAccount
<1>4. Dropbox!ActiveAgrees'
  BY DEF Dropbox!ActiveAgrees, ActiveIsRow, ClientsAgree
<1>. QED
  BY <1>1, <1>2, <1>3, <1>4 DEF Dropbox!ProfilesAreSound

(* A new profile's row.                                                       *)
LEMMA RowCreated ==
    ASSUME AccountsApart, AccountInv, made < MaxProfiles, made' = made + 1,
           row' = Dropbox!Created(row)
    PROVE  /\ made' \in 0..MaxProfiles /\ made' \in Dropbox!Profiles
           /\ row' \in [Dropbox!Profiles -> Accounts \cup {Dropbox!Unbound, Dropbox!Absent}]
           /\ row[made'] = Dropbox!Absent /\ row'[made'] = Dropbox!Unbound
           /\ \A p \in Dropbox!Profiles \ {made'} : row'[p] = row[p]
           /\ NotYetMade'
           /\ Dropbox!Rows' = Dropbox!Rows \cup {made'}
<1>1. /\ made \in 0..MaxProfiles /\ MaxProfiles \in Nat
      /\ row \in [Dropbox!Profiles -> Accounts \cup {Dropbox!Unbound, Dropbox!Absent}]
  BY DEF AccountInv, AccountTypes, AccountsApart
<1>2. made' \in 0..MaxProfiles /\ made' \in Dropbox!Profiles
  BY <1>1 DEF Dropbox!Profiles
<1>3. row' = [row EXCEPT ![made'] = Dropbox!Unbound]
  BY DEF Dropbox!Created
<1>4. row[made'] = Dropbox!Absent
  BY <1>1, <1>2 DEF AccountInv, NotYetMade
<1>5. /\ row' \in [Dropbox!Profiles -> Accounts \cup {Dropbox!Unbound, Dropbox!Absent}]
      /\ row'[made'] = Dropbox!Unbound
      /\ \A p \in Dropbox!Profiles \ {made'} : row'[p] = row[p]
  BY <1>1, <1>2, <1>3
<1>6. NotYetMade'
  <2>1. \A p \in Dropbox!Profiles : p > made' => p > made /\ p # made'
    BY <1>1 DEF Dropbox!Profiles
  <2>. QED
    BY <1>5, <2>1 DEF AccountInv, NotYetMade
<1>7. Dropbox!Rows' = Dropbox!Rows \cup {made'}
  <2>1. Dropbox!Unbound # Dropbox!Absent
    BY DEF Dropbox!Unbound, Dropbox!Absent
  <2>. QED
    BY <1>2, <1>5, <2>1, Zenon DEF Dropbox!Rows
<1>. QED
  BY <1>2, <1>4, <1>5, <1>6, <1>7

(* The start and its migration of the old program's keys.                     *)
LEMMA BootStep ==
    ASSUME AccountsApart, AccountInv, Dropbox!Boot
    PROVE  AccountInv' /\ Dropbox!ProfilesAreSound
<1>1. /\ UNCHANGED <<access, flow>> /\ cur' = active'
      /\ token \in [Keys -> Tokens] /\ access' \in [Keys -> Tokens] /\ FlowTypes'
  BY DEF Dropbox!Boot, AccountInv, AccountTypes, FlowTypes
<1>2. ClientsAgree'
  BY <1>1 DEF ClientsAgree
<1>3. \/ UNCHANGED <<made, row, creds, token, active>>
      \/ Dropbox!migrate_pool
  BY DEF Dropbox!Boot, Dropbox!ensure_migrated
<1>4. CASE UNCHANGED <<made, row, token, active>>
  <2>1. ActiveIsRow' /\ NotYetMade'
    BY <1>4 DEF AccountInv, ActiveIsRow, NotYetMade, Dropbox!Rows
  <2>. QED
    BY <1>1, <1>2, <1>4, <2>1, RowsChanged DEF AccountInv, AccountTypes,
       AccountsApart
<1>5. CASE Dropbox!migrate_pool /\ Dropbox!Rows # {}
  <2>1. active # Nobody
    BY <1>5 DEF AccountInv, ActiveIsRow
  <2>2. UNCHANGED <<made, row, token, active>>
    BY <1>5, <2>1 DEF Dropbox!migrate_pool
  <2>. QED
    BY <1>4, <2>2
<1>6. CASE Dropbox!migrate_pool /\ Dropbox!Rows = {} /\ ~UNCHANGED <<made, row, token, active>>
  <2>1. /\ made # MaxProfiles /\ made' = made + 1 /\ row' = Dropbox!Created(row)
        /\ token' = [token EXCEPT ![made'] = token[Dropbox!Legacy]] /\ active' = made'
    BY <1>6 DEF Dropbox!migrate_pool
  <2>2. made < MaxProfiles
    BY <2>1 DEF AccountInv, AccountTypes, AccountsApart
  <2>3. /\ made' \in 0..MaxProfiles /\ made' \in Dropbox!Profiles
        /\ row' \in [Dropbox!Profiles -> Accounts \cup {Dropbox!Unbound, Dropbox!Absent}]
        /\ row[made'] = Dropbox!Absent /\ row'[made'] = Dropbox!Unbound
        /\ \A p \in Dropbox!Profiles \ {made'} : row'[p] = row[p]
        /\ NotYetMade'
        /\ Dropbox!Rows' = Dropbox!Rows \cup {made'}
    BY <2>1, <2>2, RowCreated
  <2>4. token' \in [Keys -> Tokens]
    BY <1>1, <2>1, <2>3 DEF Keys
  <2>5. ActiveIsRow'
    BY <2>1, <2>3 DEF ActiveIsRow, AccountsApart
  <2>6. made <= made'
    BY <2>1 DEF AccountInv, AccountTypes
  <2>7. \A p \in Dropbox!Profiles : row[p] \in Accounts => row'[p] # Dropbox!Unbound
    BY <2>3 DEF AccountsApart
  <2>. QED
    BY <1>1, <1>2, <2>3, <2>4, <2>5, <2>6, <2>7, RowsChanged
<1>. QED
  BY <1>3, <1>4, <1>5, <1>6

(* The operator makes a profile.                                              *)
LEMMA CreateStep ==
    ASSUME AccountsApart, AccountInv, Dropbox!create_dropbox_account
    PROVE  AccountInv' /\ Dropbox!ProfilesAreSound
<1>1. /\ made < MaxProfiles /\ made' = made + 1 /\ row' = Dropbox!Created(row) /\ up
      /\ active' = (IF active = Nobody THEN made' ELSE active)
      /\ cur' = (IF active = Nobody THEN made' ELSE cur)
      /\ UNCHANGED <<token, access, flow>>
  BY DEF Dropbox!create_dropbox_account
<1>2. /\ made' \in 0..MaxProfiles /\ made' \in Dropbox!Profiles
      /\ row' \in [Dropbox!Profiles -> Accounts \cup {Dropbox!Unbound, Dropbox!Absent}]
      /\ row[made'] = Dropbox!Absent /\ row'[made'] = Dropbox!Unbound
      /\ \A p \in Dropbox!Profiles \ {made'} : row'[p] = row[p]
      /\ NotYetMade'
      /\ Dropbox!Rows' = Dropbox!Rows \cup {made'}
  BY <1>1, RowCreated
<1>3. ActiveIsRow' /\ ClientsAgree'
  BY <1>1, <1>2 DEF AccountInv, ActiveIsRow, ClientsAgree, AccountsApart
<1>4. token' \in [Keys -> Tokens] /\ access' \in [Keys -> Tokens] /\ FlowTypes'
  BY <1>1 DEF AccountInv, AccountTypes, FlowTypes
<1>5. made <= made'
  BY <1>1 DEF AccountInv, AccountTypes
<1>6. \A p \in Dropbox!Profiles : row[p] \in Accounts => row'[p] # Dropbox!Unbound
  BY <1>2 DEF AccountsApart
<1>. QED
  BY <1>2, <1>3, <1>4, <1>5, <1>6, RowsChanged

(* The operator deletes one; the oldest that is left becomes active.          *)
LEMMA DeleteStep ==
    ASSUME AccountsApart, AccountInv, NEW p \in Dropbox!Profiles,
           Dropbox!delete_dropbox_account(p)
    PROVE  AccountInv' /\ Dropbox!ProfilesAreSound
<1>. DEFINE left == Dropbox!First(Dropbox!Rows \ {p})
            tok == [token EXCEPT ![p] = Nobody]
<1>1. /\ up /\ p \in Dropbox!Rows /\ row' = [row EXCEPT ![p] = Dropbox!Absent]
      /\ access' = [access EXCEPT ![p] = Nobody] /\ UNCHANGED <<up, made, flow>>
  BY DEF Dropbox!delete_dropbox_account, Dropbox!Erased
<1>2. /\ p \in Keys /\ Nobody \in Tokens
      /\ row \in [Dropbox!Profiles -> Accounts \cup {Dropbox!Unbound, Dropbox!Absent}]
      /\ token \in [Keys -> Tokens] /\ access \in [Keys -> Tokens]
      /\ made \in 0..MaxProfiles /\ MaxProfiles \in Nat
  BY DEF AccountInv, AccountTypes, Keys, Tokens, AccountsApart
<1>3. /\ row' \in [Dropbox!Profiles -> Accounts \cup {Dropbox!Unbound, Dropbox!Absent}]
      /\ row'[p] = Dropbox!Absent /\ \A q \in Dropbox!Profiles \ {p} : row'[q] = row[q]
      /\ tok \in [Keys -> Tokens] /\ access' \in [Keys -> Tokens]
  BY <1>1, <1>2
<1>4. Dropbox!Rows' = Dropbox!Rows \ {p}
  BY <1>3 DEF Dropbox!Rows
<1>5. left \in (Dropbox!Rows \ {p}) \cup {Nobody} /\ (left = Nobody => Dropbox!Rows \ {p} = {})
  <2>1. CASE Dropbox!Rows \ {p} = {}
    BY <2>1 DEF Dropbox!First
  <2>2. CASE Dropbox!Rows \ {p} # {}
    <3>1. Dropbox!Rows \ {p} \in SUBSET Nat
      BY DEF Dropbox!Rows, Dropbox!Profiles
    <3>2. left \in Dropbox!Rows \ {p}
      BY <2>2, <3>1, FirstIsOne
    <3>3. Nobody \notin Dropbox!Rows
      BY DEF Dropbox!Rows, AccountsApart
    <3>. QED
      BY <3>2, <3>3
  <2>. QED
    BY <2>1, <2>2
<1>6. /\ NotYetMade' /\ FlowTypes' /\ made' \in 0..MaxProfiles /\ made <= made'
  BY <1>1, <1>2, <1>3 DEF AccountInv, AccountTypes, NotYetMade, FlowTypes
<1>7. Nobody \notin Dropbox!Profiles /\ active = cur
        /\ active \in Dropbox!Rows \cup {Nobody} /\ active # Nobody
  BY <1>1 DEF AccountInv, ActiveIsRow, ClientsAgree, AccountsApart
<1>8. ActiveIsRow' /\ ClientsAgree' /\ token' \in [Keys -> Tokens]
  <2>1. CASE cur = p
    <3>1. /\ active' = left /\ cur' = left
          /\ Dropbox!Mirror(tok, creds \ {p}, left)
      BY <1>7, <2>1 DEF Dropbox!delete_dropbox_account, Dropbox!forget_account,
         Dropbox!Erased
    <3>2. left \in Dropbox!Profiles \cup {Nobody}
      BY <1>5 DEF Dropbox!Rows
    <3>. HIDE DEF left, tok
    <3>3. token' \in [Keys -> Tokens]
      BY <1>3, <3>1, <3>2, MirrorTyped
    <3>. QED
      BY <1>4, <1>5, <3>1, <3>3 DEF ActiveIsRow, ClientsAgree
  <2>2. CASE cur # p
    <3>1. UNCHANGED <<active, cur>> /\ token' = tok
      BY <2>2 DEF Dropbox!delete_dropbox_account, Dropbox!forget_account,
         Dropbox!Erased
    <3>. QED
      BY <1>3, <1>4, <1>7, <2>2, <3>1 DEF ActiveIsRow, ClientsAgree
  <2>. QED
    BY <2>1, <2>2
<1>9. \A q \in Dropbox!Profiles : row[q] \in Accounts => row'[q] # Dropbox!Unbound
  <2>1. Dropbox!Unbound # Dropbox!Absent
    BY DEF Dropbox!Unbound, Dropbox!Absent
  <2>. QED
    BY <1>3, <2>1 DEF AccountsApart
<1>. QED
  BY <1>3, <1>6, <1>8, <1>9, RowsChanged

(* What a sign-in makes of the profile it was for.                            *)
LEMMA ApplyStep ==
    ASSUME AccountsApart, AccountInv, NEW f \in Flows,
           Dropbox!apply_oauth_account_identity(f)
    PROVE  AccountInv' /\ Dropbox!ProfilesAreSound
<1>. DEFINE k == flow[f].key
            a == flow[f].info
<1>1. /\ flow[f].step = "named" /\ up /\ flow' = [flow EXCEPT ![f] = Dropbox!Idle]
      /\ UNCHANGED <<up, made, active, cur, access>>
  BY DEF Dropbox!apply_oauth_account_identity
<1>2. /\ a \in Accounts /\ k \in Keys /\ token \in [Keys -> Tokens]
      /\ access \in [Keys -> Tokens] /\ active \in Dropbox!Profiles \cup {Nobody}
      /\ Nobody \in Tokens /\ made \in 0..MaxProfiles
      /\ row \in [Dropbox!Profiles -> Accounts \cup {Dropbox!Unbound, Dropbox!Absent}]
  BY <1>1, ClientIsKey DEF AccountInv, AccountTypes, FlowTypes, Tokens
<1>3. FlowTypes'
  <2>1. Dropbox!Idle \in [step : {"idle", "signed", "named"}, key : Keys, info : Tokens]
          /\ Dropbox!Idle.step # "named"
    BY <1>2 DEF Dropbox!Idle, Keys
  <2>. HIDE DEF Dropbox!Idle
  <2>. QED
    BY <1>1, <2>1 DEF AccountInv, AccountTypes, FlowTypes
<1>4. ASSUME UNCHANGED row, token' \in [Keys -> Tokens]
      PROVE  AccountInv' /\ Dropbox!ProfilesAreSound
  BY <1>1, <1>2, <1>3, <1>4, RowsKept
<1>. HIDE DEF a, k
<1>5. CASE k \notin Dropbox!Rows
  BY <1>2, <1>4, <1>5 DEF Dropbox!apply_oauth_account_identity, k
<1>6. CASE k \in Dropbox!Rows /\ row[k] \notin {Dropbox!Unbound, a}
  <2>1. UNCHANGED row /\ token' = [token EXCEPT ![k] = Nobody]
    BY <1>6 DEF Dropbox!apply_oauth_account_identity, k, a
  <2>. QED
    BY <1>2, <1>4, <2>1
<1>7. CASE /\ k \in Dropbox!Rows /\ row[k] \in {Dropbox!Unbound, a}
           /\ Dropbox!find_by_dropbox_account_id(a) \ {k} # {}
  <2>1. PICK o \in Dropbox!find_by_dropbox_account_id(a) \ {k} :
          /\ Dropbox!Mirror(Dropbox!copy_refresh_token(k, o).tokens,
                            Dropbox!copy_refresh_token(k, o).keys, active)
          /\ UNCHANGED row
    BY <1>7 DEF Dropbox!apply_oauth_account_identity, k, a
  <2>2. o \in Keys
    BY DEF Dropbox!find_by_dropbox_account_id, Dropbox!Rows, Keys
  <2>3. Dropbox!copy_refresh_token(k, o).tokens \in [Keys -> Tokens]
    BY <1>2, <2>2 DEF Dropbox!copy_refresh_token
  <2>4. token' \in [Keys -> Tokens]
    BY <1>2, <2>1, <2>3, MirrorTyped
  <2>. QED
    BY <1>4, <2>1, <2>4
<1>8. CASE /\ k \in Dropbox!Rows /\ row[k] \in {Dropbox!Unbound, a}
           /\ Dropbox!find_by_dropbox_account_id(a) \ {k} = {}
  <2>1. row' = [row EXCEPT ![k] = a] /\ Dropbox!Mirror(token, creds, active)
    BY <1>8 DEF Dropbox!apply_oauth_account_identity, Dropbox!update_identity, k,
       a
  <2>2. token' \in [Keys -> Tokens]
    BY <1>2, <2>1, MirrorTyped
  <2>3. k \in Dropbox!Profiles /\ a \notin {Dropbox!Unbound, Dropbox!Absent}
    BY <1>2, <1>8 DEF Dropbox!Rows, AccountsApart
  <2>4. /\ row' \in [Dropbox!Profiles -> Accounts \cup {Dropbox!Unbound, Dropbox!Absent}]
        /\ row'[k] = a /\ \A q \in Dropbox!Profiles \ {k} : row'[q] = row[q]
    BY <1>2, <2>1, <2>3
  <2>5. \A q \in Dropbox!Profiles \ {k} : row'[q] # a
    BY <1>8, <2>3, <2>4 DEF Dropbox!find_by_dropbox_account_id, Dropbox!Rows
  <2>6. Dropbox!Rows' = Dropbox!Rows
    BY <1>8, <2>3, <2>4 DEF Dropbox!Rows
  <2>7. ActiveIsRow' /\ ClientsAgree'
    BY <1>1, <2>6 DEF AccountInv, ActiveIsRow, ClientsAgree
  <2>8. NotYetMade'
    <3>1. row[k] # Dropbox!Absent
      BY <1>8 DEF Dropbox!Rows
    <3>. QED
      BY <1>1, <2>3, <2>4, <3>1 DEF AccountInv, NotYetMade
  <2>9. made' \in 0..MaxProfiles /\ made <= made' /\ access' \in [Keys -> Tokens]
    BY <1>1, <1>2 DEF AccountsApart
  <2>10. \A p \in Dropbox!Profiles :
           \/ row'[p] \in {row[p], Dropbox!Unbound, Dropbox!Absent}
           \/ row[p] \notin Accounts
                /\ \A q \in Dropbox!Profiles \ {p} : row'[q] # row'[p]
    BY <1>8, <2>3, <2>4, <2>5 DEF AccountsApart
  <2>11. \A p \in Dropbox!Profiles : row[p] \in Accounts => row'[p] # Dropbox!Unbound
    BY <2>3, <2>4 DEF AccountsApart
  <2>. QED
    BY <1>3, <2>2, <2>4, <2>7, <2>8, <2>9, <2>10, <2>11, RowsChanged
<1>. QED
  BY <1>5, <1>6, <1>7, <1>8

(* No step gives a profile another account or lets the two sides disagree.    *)
LEMMA AccountStep ==
    ASSUME AccountsApart
    PROVE  AccountInv /\ [Dropbox!Next]_(Dropbox!vars)
             => AccountInv' /\ [Dropbox!ProfilesAreSound]_(Dropbox!vars)
<1>1. ASSUME AccountInv, [Dropbox!Next]_(Dropbox!vars)
      PROVE  AccountInv' /\ [Dropbox!ProfilesAreSound]_(Dropbox!vars)
  <2>1. ASSUME UNCHANGED Dropbox!vars
        PROVE  AccountInv'
    BY <1>1, <2>1 DEF Dropbox!vars, AccountInv, AccountTypes, FlowTypes,
       NotYetMade,
       OneProfilePerAccount, ActiveIsRow, ClientsAgree, Dropbox!Rows
  <2>. QED
    BY <1>1, <2>1, SessionStep, SignInStep, BootStep, CreateStep, DeleteStep,
       ApplyStep
       DEF Dropbox!Next, Keys
<1>. QED
  BY <1>1

(* A profile stands for one Dropbox account for as long as it exists, no two  *)
(* stand for one, and settings and clients agree which is active, whatever    *)
(* sign-ins overlap with deletions, disconnections, refusals and restarts     *)
(* (apply_oauth_account_identity, delete_dropbox_account, migrate_pool).      *)
THEOREM ProfilesAreAlwaysSound ==
    ASSUME AccountsApart
    PROVE  Dropbox!Spec => [][Dropbox!ProfilesAreSound]_(Dropbox!vars)
<1>1. AccountInv /\ [Dropbox!Next]_(Dropbox!vars)
        => AccountInv' /\ [Dropbox!ProfilesAreSound]_(Dropbox!vars)
  BY AccountStep
<1>2. Dropbox!Init => AccountInv
  BY AccountInit
<1>. QED
  BY <1>1, <1>2, PTL DEF Dropbox!Spec

-----------------------------------------------------------------------------
(* AppendStaging.  A file has at most one copy in a directory, so that the    *)
(* numbers 1 to MaxPicks + 1 are never all taken and each copy finds a name   *)
(* of its own; the files are staged one after the other, each with all its    *)
(* copies.                                                                    *)

(* A file that has all its copies, each in the directory it belongs to.       *)
WholeItem(i) ==
    LET C == Staging!Copies(items[i])
    IN  \/ Len(C) = 1
             /\ \E x \in DOMAIN root : Staging!CopiesOf(i) = {x} /\ x[1] = C[1][1]
        \/ Len(C) = 2
             /\ \E x, y \in DOMAIN root :
                  x # y /\ Staging!CopiesOf(i) = {x, y} /\ x[1] = C[1][1] /\ y[1] = C[2][1]

(* The file that is being staged.                                             *)
BegunItem(i) ==
    LET C == Staging!Copies(items[i])
    IN  \/ Staging!CopiesOf(i) = {}
        \/ Len(C) = 2
             /\ \E x \in DOMAIN root : Staging!CopiesOf(i) = {x} /\ x[1] = C[1][1]

ItemFits(i) ==
    /\ i <= parsed => WholeItem(i)
    /\ i = parsed + 1 => BegunItem(i)
    /\ i > parsed + 1 => Staging!CopiesOf(i) = {}

StageTypes ==
    /\ items \in Seq(Picks) /\ Len(items) <= MaxPicks
    /\ parsed \in 0..Len(items) /\ booked \subseteq Staging!Categories /\ lost = {}

OneCopyADirectory ==
    /\ \A x \in DOMAIN root : root[x] \in 1..Len(items)
    /\ \A x, y \in DOMAIN root : root[x] = root[y] /\ x[1] = y[1] => x = y

PhaseFits ==
    /\ phase \notin {"staging", "staged"} => root = <<>> /\ ~exists
    /\ phase = "picked" => parsed = 0
    /\ phase \in {"staging", "staged"} => Staging!validate_unpaid_preview_rules(items)
    /\ phase = "staged" => parsed = Len(items)

StageInv ==
    /\ StageTypes /\ OneCopyADirectory /\ PhaseFits
    /\ phase \in {"staging", "staged"} => \A i \in 1..Len(items) : ItemFits(i)

(* No file was picked.                                                        *)
LEMMA StageInit == PicksShape /\ Staging!Init => StageInv
BY DEF PicksShape, Staging!Init, StageInv, StageTypes, OneCopyADirectory,
   PhaseFits

(* What the copies of a file are.                                             *)
LEMMA CopiesShape ==
    ASSUME PicksShape, NEW p \in Picks
    PROVE  LET C == Staging!Copies(p)
               both == Staging!is_unpaid(p.cat) /\ p.preview
           IN  /\ both => Len(C) = 2 /\ C[1][1] = p.cat /\ C[2][1] = <<"preview", p.cat[2]>>
               /\ ~both => Len(C) = 1 /\ C[1][1] \in {p.cat, <<"preview", p.cat[2]>>}
               /\ \A j \in 1..Len(C) : C[j][2] \in Seq(Nat)
<1>. DEFINE original == <<p.cat, p.name>>
            preview == <<<<"preview", p.cat[2]>>, Append(p.name, 0)>>
            C == Staging!Copies(p)
            both == Staging!is_unpaid(p.cat) /\ p.preview
            Goal == /\ both => Len(C) = 2 /\ C[1][1] = p.cat /\ C[2][1] = <<"preview", p.cat[2]>>
                    /\ ~both => Len(C) = 1 /\ C[1][1] \in {p.cat, <<"preview", p.cat[2]>>}
                    /\ \A j \in 1..Len(C) : C[j][2] \in Seq(Nat)
<1>. SUFFICES Goal
  OBVIOUS
<1>1. C = IF p.cat \in booked /\ both THEN <<original, preview>>
          ELSE IF p.cat \notin booked /\ p.preview THEN <<preview>>
          ELSE <<original>>
  BY Zenon DEF Staging!Copies, Staging!dest_subdir, Staging!is_booked
<1>2. Staging!is_unpaid(p.cat) => p.cat \in booked
  BY DEF Staging!is_unpaid
<1>3. /\ original[2] \in Seq(Nat) /\ preview[2] \in Seq(Nat)
      /\ original[1] = p.cat /\ preview[1] = <<"preview", p.cat[2]>>
  BY DEF PicksShape
<1>. HIDE DEF original, preview, C
<1>4. CASE both
  <2>1. C = <<original, preview>>
    BY <1>1, <1>2, <1>4, Zenon
  <2>. HIDE DEF both
  <2>. QED
    BY <1>3, <1>4, <2>1
<1>5. CASE ~both
  <2>1. C = <<original>> \/ C = <<preview>>
    BY <1>1, <1>5, Zenon
  <2>2. Len(C) = 1 /\ C[1] \in {original, preview}
    BY <2>1
  <2>3. /\ C[1][1] \in {p.cat, <<"preview", p.cat[2]>>}
        /\ C[1][2] \in Seq(Nat)
    BY <1>3, <2>2, Zenon
  <2>4. ASSUME NEW j \in 1..Len(C)
        PROVE  C[j][2] \in Seq(Nat)
    <3>1. j = 1
      BY <2>2
    <3>. QED
      BY <2>3, <3>1, Zenon
  <2>. HIDE DEF both
  <2>. QED
    BY <1>5, <2>2, <2>3, <2>4, Zenon
<1>. QED
  BY <1>4, <1>5

(* How many numbers there are up to n.                                        *)
LEMMA UpTo ==
    ASSUME NEW n \in Nat
    PROVE  IsFiniteSet(1..n) /\ Cardinality(1..n) = n
<1>1. 1 \in Int /\ n \in Int
  OBVIOUS
<1>2. /\ IsFiniteSet(1..n)
      /\ Cardinality(1..n) = IF 1 > n THEN 0 ELSE n - 1 + 1
  BY <1>1, FS_Interval, Zenon
<1>. DEFINE size0 == Cardinality(1..n)
<1>3. size0 = IF 1 > n THEN 0 ELSE n - 1 + 1
  BY <1>2
<1>4. size0 = n
  <2>. HIDE DEF size0
  <2>. QED
    BY <1>3
<1>. QED
  BY <1>2, <1>4

(* The name a copy gets is free in its directory.                             *)
LEMMA NameIsFree ==
    ASSUME PicksShape, StageTypes, OneCopyADirectory, NEW dir, NEW name \in Seq(Nat)
    PROVE  <<dir, Staging!unique_filename(dir, name)>> \notin DOMAIN root
<1>. DEFINE numbered(k) == <<dir, Append(name, k)>>
            N == 1..(MaxPicks + 1)
            T == 1..Len(items)
            free == {k \in N : numbered(k) \notin DOMAIN root}
<1>1. CASE <<dir, name>> \notin DOMAIN root
  BY <1>1 DEF Staging!unique_filename
<1>2. CASE <<dir, name>> \in DOMAIN root
  <2>1. MaxPicks \in Nat /\ Len(items) \in Nat /\ Len(items) <= MaxPicks
    BY DEF PicksShape, StageTypes
  <2>2. free # {}
    <3>. SUFFICES ASSUME \A k \in N : numbered(k) \in DOMAIN root
                  PROVE  FALSE
      OBVIOUS
    <3>. DEFINE file == [k \in N |-> root[numbered(k)]]
    <3>1. file \in [N -> T]
      BY DEF OneCopyADirectory
    <3>2. IsFiniteSet(N) /\ Cardinality(N) = MaxPicks + 1
      <4>1. MaxPicks + 1 \in Nat
        BY <2>1
      <4>. QED
        BY <4>1, UpTo
    <3>3. IsFiniteSet(T) /\ Cardinality(T) = Len(items)
      BY <2>1, UpTo
    <3>4. PICK j, k \in N : j # k /\ file[j] = file[k]
      <4>1. Cardinality(T) < Cardinality(N)
        BY <2>1, <3>2, <3>3
      <4>. HIDE DEF N, T, file
      <4>. QED
        BY <3>1, <3>2, <3>3, <4>1, FS_PigeonHole
    <3>5. numbered(j) = numbered(k)
      <4>1. root[numbered(j)] = root[numbered(k)]
        BY <3>4
      <4>2. numbered(j)[1] = numbered(k)[1]
        OBVIOUS
      <4>. HIDE DEF numbered
      <4>. QED
        BY <4>1, <4>2 DEF OneCopyADirectory
    <3>6. Append(name, j) = Append(name, k)
      BY <3>5
    <3>7. Append(name, j)[Len(name) + 1] = j /\ Append(name, k)[Len(name) + 1] = k
      OBVIOUS
    <3>. QED
      BY <3>4, <3>6, <3>7
  <2>3. PICK n \in free : \A q \in free : n <= q
    <3>1. free \in SUBSET Nat
      OBVIOUS
    <3>. HIDE DEF free
    <3>. QED
      BY <2>2, <3>1, LeastOfNats, Zenon
  <2>. DEFINE Right(k) == /\ <<dir, Append(name, k)>> \notin DOMAIN root
                          /\ \A j \in 1..(k - 1) : <<dir, Append(name, j)>> \in DOMAIN root
  <2>4. n \in N /\ Right(n)
    <3>1. n \in N /\ n \in Nat /\ numbered(n) \notin DOMAIN root
      OBVIOUS
    <3>2. ASSUME NEW j \in 1..(n - 1)
          PROVE  numbered(j) \in DOMAIN root
      <4>1. j \in N /\ ~(n <= j)
        BY <2>1, <3>1
      <4>. QED
        BY <2>3, <4>1
    <3>. QED
      BY <3>1, <3>2
  <2>. DEFINE k0 == CHOOSE k \in N : Right(k)
  <2>5. k0 \in N /\ Right(k0)
    BY <2>4, Zenon
  <2>6. Staging!unique_filename(dir, name) = Append(name, k0)
    BY <1>2, Zenon DEF Staging!unique_filename
  <2>. QED
    BY <2>5, <2>6
<1>. QED
  BY <1>1, <1>2

(* A copy of a file for a directory that has none of it goes beside all that  *)
(* is there.                                                                  *)
LEMMA CopyAdded ==
    ASSUME PicksShape, StageTypes, OneCopyADirectory, items' = items,
           NEW i \in 1..Len(items), NEW dir, NEW name \in Seq(Nat),
           \A x \in Staging!CopiesOf(i) : x[1] # dir,
           Staging!Stored(dir, name, i)
    PROVE  /\ lost' = {} /\ OneCopyADirectory'
           /\ \E at : /\ at \notin DOMAIN root /\ at[1] = dir
                      /\ DOMAIN root' = DOMAIN root \cup {at}
                      /\ Staging!CopiesOf(i)' = Staging!CopiesOf(i) \cup {at}
           /\ \A j : j # i => Staging!CopiesOf(j)' = Staging!CopiesOf(j)
<1>. DEFINE new == <<dir, Staging!unique_filename(dir, name)>>
<1>1. new \notin DOMAIN root /\ new[1] = dir
  BY NameIsFree
<1>2. /\ root' = [x \in DOMAIN root \cup {new} |-> IF x = new THEN i ELSE root[x]]
      /\ lost' = IF new \in DOMAIN root THEN lost \cup {root[new]} ELSE lost
  BY DEF Staging!Stored
<1>3. PICK at : at = new
  BY Zenon
<1>. HIDE DEF new
<1>4. /\ at \notin DOMAIN root /\ at[1] = dir
      /\ DOMAIN root' = DOMAIN root \cup {at}
      /\ root'[at] = i /\ \A x \in DOMAIN root : root'[x] = root[x]
  BY <1>1, <1>2, <1>3
<1>5. lost' = {}
  BY <1>1, <1>2 DEF StageTypes
<1>6. Staging!CopiesOf(i)' = Staging!CopiesOf(i) \cup {at}
  BY <1>4 DEF Staging!CopiesOf
<1>7. \A j : j # i => Staging!CopiesOf(j)' = Staging!CopiesOf(j)
  BY <1>4 DEF Staging!CopiesOf
<1>8. OneCopyADirectory'
  <2>1. \A x \in DOMAIN root' : root'[x] \in 1..Len(items')
    BY <1>4 DEF OneCopyADirectory
  <2>2. \A x \in DOMAIN root : root[x] = i => x[1] # dir
    BY DEF Staging!CopiesOf
  <2>3. \A x, y \in DOMAIN root' : root'[x] = root'[y] /\ x[1] = y[1] => x = y
    BY <1>4, <2>2 DEF OneCopyADirectory
  <2>. QED
    BY <2>1, <2>3 DEF OneCopyADirectory
<1>. QED
  BY <1>4, <1>5, <1>6, <1>7, <1>8

(* What is staged stays so while a later file is.                             *)
LEMMA ItemKept ==
    ASSUME NEW j, booked' = booked, paid' = paid, items' = items,
           DOMAIN root \subseteq DOMAIN root',
           Staging!CopiesOf(j)' = Staging!CopiesOf(j)
    PROVE  /\ WholeItem(j) => WholeItem(j)'
           /\ BegunItem(j) => BegunItem(j)'
<1>1. Staging!Copies(items[j])' = Staging!Copies(items[j])
  BY DEF Staging!Copies, Staging!is_booked, Staging!is_unpaid, Staging!dest_subdir
<1>. QED
  BY <1>1 DEF WholeItem, BegunItem

(* One more copy of the file that is being staged.                            *)
LEMMA StageNextStep ==
    ASSUME PicksShape, StageInv, Staging!StageNext
    PROVE  StageInv'
<1>1. /\ phase = "staging" /\ phase' = "staging" /\ parsed < Len(items)
      /\ booked' = booked /\ paid' = paid /\ items' = items
      /\ exists' = exists /\ phase' = phase
      /\ Staging!copy_file_to_subdir(parsed + 1) \/ Staging!write_watermarked_preview(parsed + 1)
  BY DEF Staging!StageNext
<1>2. StageTypes /\ OneCopyADirectory /\ PhaseFits /\ \A j \in 1..Len(items) : ItemFits(j)
  BY <1>1 DEF StageInv
<1>3. PICK i \in 1..Len(items) : i = parsed + 1
  BY <1>1, <1>2 DEF StageTypes
<1>. DEFINE p == items[i]
            C == Staging!Copies(p)
<1>4. p \in Picks
  BY <1>2 DEF StageTypes
<1>5. /\ Len(C) \in {1, 2}
      /\ Len(C) = 2 => C[1][1] = p.cat /\ C[2][1] = <<"preview", p.cat[2]>>
      /\ \A j \in 1..Len(C) : C[j][2] \in Seq(Nat)
  BY <1>4, CopiesShape
<1>6. C' = C /\ (Len(C) \in {1, 2})
  BY <1>1, <1>5 DEF Staging!Copies, Staging!is_booked, Staging!is_unpaid,
     Staging!dest_subdir
<1>7. BegunItem(i)
  BY <1>2, <1>3 DEF ItemFits
<1>8. ASSUME parsed' \in {parsed, i}, lost' = {}, OneCopyADirectory',
             DOMAIN root \subseteq DOMAIN root',
             \A j : j # i => Staging!CopiesOf(j)' = Staging!CopiesOf(j),
             parsed' = i => WholeItem(i)', parsed' # i => BegunItem(i)'
      PROVE  StageInv'
  <2>0. i \in Nat /\ parsed \in Nat
    BY <1>2, <1>3 DEF StageTypes
  <2>1. StageTypes'
    BY <1>1, <1>2, <1>3, <1>8 DEF StageTypes, Staging!Categories
  <2>2. PhaseFits'
    BY <1>1, <1>2 DEF PhaseFits, Staging!validate_unpaid_preview_rules,
       Staging!is_unpaid
  <2>3. ASSUME NEW j \in 1..Len(items)
        PROVE  ItemFits(j)'
    <3>1. CASE j = i
      <4>1. /\ i <= parsed' => parsed' = i
            /\ i = parsed' + 1 => parsed' # i
            /\ ~(i > parsed' + 1)
        <5>1. CASE parsed' = i
          BY <2>0, <5>1
        <5>2. CASE parsed' = parsed
          BY <1>3, <2>0, <5>2
        <5>. QED
          BY <1>8, <5>1, <5>2, Zenon
      <4>2. /\ i <= parsed' => WholeItem(i)'
            /\ i = parsed' + 1 => BegunItem(i)'
        BY <1>8, <4>1, Zenon
      <4>3. ItemFits(i)'
        BY <4>1, <4>2, Zenon DEF ItemFits
      <4>. QED
        BY <3>1, <4>3
    <3>2. CASE j # i
      <4>1. /\ WholeItem(j) => WholeItem(j)'
            /\ Staging!CopiesOf(j)' = Staging!CopiesOf(j)
        BY <1>1, <1>8, <3>2, ItemKept
      <4>2. ItemFits(j) /\ j \in Nat /\ parsed \in Nat
        BY <1>2 DEF StageTypes
      <4>3. j > i => Staging!CopiesOf(j)' = {}
        BY <1>3, <4>1, <4>2 DEF ItemFits
      <4>4. j < i => WholeItem(j)'
        BY <1>3, <4>1, <4>2 DEF ItemFits
      <4>5. Staging!CopiesOf(j)' = {} => BegunItem(j)'
        BY DEF BegunItem
      <4>6. /\ j <= parsed' => j < i
            /\ j = parsed' + 1 => j > i
            /\ j > parsed' + 1 => j > i
        <5>1. CASE parsed' = i
          BY <2>0, <3>2, <4>2, <5>1
        <5>2. CASE parsed' = parsed
          BY <1>3, <2>0, <3>2, <4>2, <5>2
        <5>. QED
          BY <1>8, <5>1, <5>2
      <4>. QED
        BY <4>3, <4>4, <4>5, <4>6 DEF ItemFits
    <3>. QED
      BY <3>1, <3>2
  <2>. QED
    BY <1>1, <1>8, <2>1, <2>2, <2>3 DEF StageInv
<1>9. CASE Staging!copy_file_to_subdir(parsed + 1)
  <2>1. /\ Staging!CopiesOf(i) = {} /\ Staging!Stored(C[1][1], C[1][2], i)
        /\ parsed' = IF Len(C) = 1 THEN i ELSE parsed
    BY <1>3, <1>9 DEF Staging!copy_file_to_subdir
  <2>. HIDE DEF C
  <2>2. C[1][2] \in Seq(Nat)
    BY <1>5
  <2>3. /\ lost' = {} /\ OneCopyADirectory'
        /\ \E at : /\ at \notin DOMAIN root /\ at[1] = C[1][1]
                   /\ DOMAIN root' = DOMAIN root \cup {at}
                   /\ Staging!CopiesOf(i)' = Staging!CopiesOf(i) \cup {at}
        /\ \A j : j # i => Staging!CopiesOf(j)' = Staging!CopiesOf(j)
    BY <1>1, <1>2, <2>1, <2>2, CopyAdded, Zenon
  <2>4. PICK at : /\ at[1] = C[1][1] /\ at \in DOMAIN root'
                  /\ DOMAIN root \subseteq DOMAIN root'
                  /\ Staging!CopiesOf(i)' = {at}
    BY <2>1, <2>3
  <2>5. Len(C) = 1 => WholeItem(i)'
    BY <1>6, <2>4 DEF WholeItem, C
  <2>6. Len(C) = 2 => BegunItem(i)'
    BY <1>6, <2>4 DEF BegunItem, C
  <2>7. parsed' \in {parsed, i} /\ (parsed' = i => Len(C) = 1) /\ (parsed' # i => Len(C) = 2)
    <3>1. parsed # i
      BY <1>2, <1>3 DEF StageTypes
    <3>. QED
      BY <1>5, <2>1, <3>1
  <2>. QED
    BY <1>8, <2>3, <2>4, <2>5, <2>6, <2>7
<1>10. CASE Staging!write_watermarked_preview(parsed + 1)
  <2>1. /\ Len(C) = 2 /\ Staging!CopiesOf(i) # {} /\ Staging!Stored(C[2][1], C[2][2], i)
        /\ parsed' = i
    BY <1>3, <1>10 DEF Staging!write_watermarked_preview
  <2>2. PICK x \in DOMAIN root : Staging!CopiesOf(i) = {x} /\ x[1] = C[1][1]
    BY <1>7, <2>1 DEF BegunItem
  <2>. HIDE DEF C
  <2>3. C[2][2] \in Seq(Nat)
    BY <1>5, <2>1
  <2>4. x[1] # C[2][1]
    <3>1. p.cat # <<"preview", p.cat[2]>>
      BY <1>4 DEF PicksShape
    <3>. QED
      BY <1>5, <2>1, <2>2, <3>1, Zenon
  <2>5. /\ lost' = {} /\ OneCopyADirectory'
        /\ \E at : /\ at \notin DOMAIN root /\ at[1] = C[2][1]
                   /\ DOMAIN root' = DOMAIN root \cup {at}
                   /\ Staging!CopiesOf(i)' = Staging!CopiesOf(i) \cup {at}
        /\ \A j : j # i => Staging!CopiesOf(j)' = Staging!CopiesOf(j)
    <3>1. \A z \in Staging!CopiesOf(i) : z[1] # C[2][1]
      BY <2>2, <2>4
    <3>. QED
      BY <1>1, <1>2, <2>1, <2>3, <3>1, CopyAdded, Zenon
  <2>6. PICK at : /\ at[1] = C[2][1] /\ at \notin DOMAIN root
                  /\ DOMAIN root' = DOMAIN root \cup {at}
                  /\ Staging!CopiesOf(i)' = {x, at}
    BY <2>2, <2>5
  <2>7. x # at /\ x \in DOMAIN root' /\ at \in DOMAIN root'
    BY <2>6
  <2>8. WholeItem(i)'
    BY <1>6, <2>1, <2>2, <2>6, <2>7 DEF WholeItem, C
  <2>. QED
    BY <1>8, <2>1, <2>5, <2>6, <2>8
<1>. QED
  BY <1>1, <1>9, <1>10

(* The other steps, before the files are staged or after.                     *)
LEMMA StageStep ==
    ASSUME PicksShape, StageInv, [Staging!Next]_(Staging!vars)
    PROVE  StageInv'
<1>. USE DEF StageInv, StageTypes
<1>1. ASSUME Staging!Pick
      PROVE  StageInv'
  <2>1. /\ phase = "picked" /\ phase' = phase /\ Len(items) < MaxPicks
        /\ booked' = booked /\ paid' = paid /\ parsed' = parsed /\ root' = root
        /\ exists' = exists /\ lost' = lost
        /\ \E p \in Picks : items' = Append(items, p)
    BY <1>1 DEF Staging!Pick
  <2>2. PICK p \in Picks : items' = Append(items, p)
    BY <2>1
  <2>3. root = <<>> /\ ~exists /\ parsed = 0
    BY <2>1 DEF PhaseFits
  <2>4. StageTypes'
    BY <2>1, <2>2, <2>3 DEF PicksShape, Staging!Categories
  <2>5. OneCopyADirectory' /\ PhaseFits'
    BY <2>1, <2>3 DEF OneCopyADirectory, PhaseFits
  <2>. QED
    BY <2>1, <2>4, <2>5
<1>2. ASSUME Staging!stage_append_files
      PROVE  StageInv'
  <2>1. /\ phase = "picked"
        /\ booked' = booked /\ paid' = paid /\ parsed' = parsed /\ root' = root
        /\ items' = items /\ lost' = lost
        /\ \/ phase' = "refused" /\ exists' = exists
           \/ /\ Staging!validate_unpaid_preview_rules(items)
              /\ phase' = "staging"
    BY <1>2 DEF Staging!stage_append_files
  <2>2. root = <<>> /\ ~exists /\ parsed = 0
    BY <2>1 DEF PhaseFits
  <2>3. StageTypes' /\ OneCopyADirectory'
    BY <2>1 DEF OneCopyADirectory, Staging!Categories
  <2>4. PhaseFits'
    BY <2>1, <2>2 DEF PhaseFits, Staging!validate_unpaid_preview_rules,
       Staging!is_unpaid
  <2>5. ASSUME NEW i \in 1..Len(items)
        PROVE  ItemFits(i)'
    <3>1. Staging!CopiesOf(i)' = {}
      BY <2>1, <2>2 DEF Staging!CopiesOf
    <3>2. ~(i <= parsed')
      BY <2>1, <2>2
    <3>. QED
      BY <3>1, <3>2 DEF ItemFits, BegunItem
  <2>. QED
    BY <2>1, <2>3, <2>4, <2>5
<1>3. ASSUME Staging!StageNext
      PROVE  StageInv'
  BY <1>3, StageNextStep
<1>4. ASSUME Staging!StageFails
      PROVE  StageInv'
  BY <1>4 DEF Staging!StageFails, OneCopyADirectory, PhaseFits, Staging!Categories
<1>5. ASSUME items' = items, parsed' = parsed, root' = root, lost' = lost,
             booked' = booked, paid' = paid, exists' = exists,
             \/ phase' = phase
             \/ phase = "staging" /\ phase' = "staged" /\ parsed = Len(items)
      PROVE  StageInv'
  <2>1. StageTypes' /\ OneCopyADirectory'
    BY <1>5 DEF OneCopyADirectory, Staging!Categories
  <2>2. PhaseFits'
    BY <1>5 DEF PhaseFits, Staging!validate_unpaid_preview_rules,
       Staging!is_unpaid
  <2>3. ASSUME NEW i \in 1..Len(items), phase \in {"staging", "staged"}
        PROVE  ItemFits(i)'
    <3>1. /\ WholeItem(i) => WholeItem(i)'
          /\ BegunItem(i) => BegunItem(i)'
          /\ Staging!CopiesOf(i)' = Staging!CopiesOf(i)
      <4>1. Staging!CopiesOf(i)' = Staging!CopiesOf(i)
        BY <1>5 DEF Staging!CopiesOf
      <4>. QED
        BY <1>5, <4>1, ItemKept
    <3>2. ItemFits(i)
      BY <2>3
    <3>. QED
      BY <1>5, <3>1, <3>2 DEF ItemFits
  <2>. QED
    BY <1>5, <2>1, <2>2, <2>3
<1>6. ASSUME Staging!append_media_from_files
      PROVE  StageInv'
  BY <1>6 DEF Staging!append_media_from_files, OneCopyADirectory, PhaseFits,
     Staging!Categories
<1>7. CASE Staging!StageEnds
  BY <1>5, <1>7 DEF Staging!StageEnds
<1>8. CASE UNCHANGED Staging!vars
  BY <1>5, <1>8 DEF Staging!vars
<1>. QED
  BY <1>1, <1>2, <1>3, <1>4, <1>6, <1>7, <1>8 DEF Staging!Next

(* The instance counts as this module does.                                   *)
LEMMA SameCount == \A S : Staging!Cardinality(S) = Cardinality(S)
BY DEF Staging!Cardinality, Cardinality, Staging!IsFiniteSet, IsFiniteSet

(* A whole file has as many copies as it should.                              *)
LEMMA WholeCount ==
    ASSUME NEW i, WholeItem(i)
    PROVE  Staging!Cardinality(Staging!CopiesOf(i)) = Len(Staging!Copies(items[i]))
<1>. SUFFICES Cardinality(Staging!CopiesOf(i)) = Len(Staging!Copies(items[i]))
  BY SameCount
<1>. DEFINE n == Len(Staging!Copies(items[i]))
<1>1. CASE n = 1
  <2>1. PICK x \in DOMAIN root : Staging!CopiesOf(i) = {x}
    BY <1>1 DEF WholeItem
  <2>. QED
    BY <1>1, <2>1, FS_Singleton
<1>2. CASE n = 2
  <2>1. PICK x, y \in DOMAIN root : x # y /\ Staging!CopiesOf(i) = {x, y}
    BY <1>2 DEF WholeItem
  <2>2. IsFiniteSet({x}) /\ Cardinality({x}) = 1
    BY FS_Singleton, Zenon
  <2>3. Cardinality({x} \cup {y}) = Cardinality({x}) + 1
    BY <2>1, <2>2, FS_AddElement
  <2>4. Staging!CopiesOf(i) = {x} \cup {y}
    BY <2>1
  <2>. QED
    BY <1>2, <2>2, <2>3, <2>4
<1>3. n = 1 \/ n = 2
  BY DEF WholeItem
<1>. QED
  BY <1>1, <1>2, <1>3

(* The original of an unpaid product goes up with a preview of its kind.      *)
LEMMA UnpaidShown ==
    ASSUME PicksShape, StageInv
    PROVE  Staging!UnpaidHasPreview
<1>. SUFFICES ASSUME phase = "staged", NEW kind \in {"foto", "video"},
                     NEW x \in DOMAIN root, x[1] \in booked \ paid, x[1][2] = kind
              PROVE  \E y \in DOMAIN root : /\ y[1] = <<"preview", kind>>
                                            /\ Staging!is_unpaid(items[root[y]].cat)
  BY DEF Staging!UnpaidHasPreview
<1>1. /\ Staging!validate_unpaid_preview_rules(items)
      /\ \A i \in 1..Len(items) : WholeItem(i) /\ items[i] \in Picks
  BY DEF StageInv, StageTypes, PhaseFits, ItemFits
<1>2. PICK i \in 1..Len(items) : i = root[x]
  BY DEF StageInv, OneCopyADirectory
<1>3. x \in Staging!CopiesOf(i)
  BY <1>2 DEF Staging!CopiesOf
<1>4. PICK q \in Picks : x[1] = q.cat
  BY DEF StageInv, StageTypes, Staging!Categories
<1>5. x[1] # <<"preview", items[i].cat[2]>>
  BY <1>4 DEF PicksShape
<1>6. x[1] = items[i].cat
  <2>. DEFINE C == Staging!Copies(items[i])
  <2>1. \/ Len(C) = 1 /\ x[1] = C[1][1]
        \/ Len(C) = 2 /\ x[1] \in {C[1][1], C[2][1]}
    BY <1>1, <1>3 DEF WholeItem
  <2>2. /\ Len(C) = 1 => C[1][1] \in {items[i].cat, <<"preview", items[i].cat[2]>>}
        /\ Len(C) = 2 => /\ C[1][1] = items[i].cat
                         /\ C[2][1] = <<"preview", items[i].cat[2]>>
    BY <1>1, CopiesShape
  <2>. HIDE DEF C
  <2>. QED
    BY <1>5, <2>1, <2>2, Zenon
<1>7. PICK k \in 1..Len(items) : /\ Staging!is_unpaid(items[k].cat)
                                 /\ items[k].cat[2] = kind /\ items[k].preview
  <2>1. i \in {j \in DOMAIN items : Staging!is_unpaid(items[j].cat) /\ items[j].cat[2] = kind}
    BY <1>6 DEF Staging!is_unpaid, StageInv, StageTypes
  <2>2. DOMAIN items = 1..Len(items)
    BY DEF StageInv, StageTypes
  <2>. QED
    BY <1>1, <2>1, <2>2 DEF Staging!validate_unpaid_preview_rules
<1>8. PICK y \in DOMAIN root : y \in Staging!CopiesOf(k) /\ y[1] = <<"preview", kind>>
  <2>. DEFINE C == Staging!Copies(items[k])
  <2>1. Len(C) = 2 /\ C[2][1] = <<"preview", kind>>
    BY <1>1, <1>7, CopiesShape
  <2>2. WholeItem(k)
    BY <1>1
  <2>. QED
    BY <2>1, <2>2 DEF WholeItem
<1>9. root[y] = k
  BY <1>8 DEF Staging!CopiesOf
<1>. QED
  BY <1>7, <1>8, <1>9

(* Then the directory is whole.                                               *)
LEMMA StagedWhole ==
    ASSUME PicksShape
    PROVE  StageInv => Staging!StageIsSound
<1>. SUFFICES ASSUME StageInv
              PROVE  Staging!StageIsSound
  OBVIOUS
<1>1. lost = {}
  BY DEF StageInv, StageTypes
<1>2. phase \in {"refused", "done"} => ~exists
  BY DEF StageInv, PhaseFits
<1>3. ASSUME phase = "staged", NEW i \in DOMAIN items
      PROVE  Staging!Cardinality(Staging!CopiesOf(i)) = Len(Staging!Copies(items[i]))
  <2>1. WholeItem(i)
    BY <1>3 DEF StageInv, StageTypes, PhaseFits, ItemFits
  <2>. QED
    BY <1>3, <2>1, WholeCount
<1>4. Staging!UnpaidHasPreview
  BY UnpaidShown
<1>. QED
  BY <1>1, <1>2, <1>3, <1>4 DEF Staging!StageIsSound, Staging!StagedIsWhole

(* What goes up with an order is all that was picked and the previews that    *)
(* stand for what is not paid, whatever the files are called and whichever    *)
(* copy fails (stage_append_files, unique_filename,                           *)
(* validate_unpaid_preview_rules).                                            *)
THEOREM StageIsAlwaysSound ==
    ASSUME PicksShape
    PROVE  Staging!Spec => []Staging!StageIsSound
<1>1. Staging!Init => StageInv
  BY StageInit
<1>2. StageInv /\ [Staging!Next]_(Staging!vars) => StageInv'
  BY StageStep
<1>3. StageInv => Staging!StageIsSound
  BY StagedWhole
<1>. QED
  BY <1>1, <1>2, <1>3, PTL DEF Staging!Spec

-----------------------------------------------------------------------------
(* AppendRouting.  Of the folders of a booking at most one has a row at all;  *)
(* a job, queued or with the worker, is of a folder that has a row or goes to *)
(* a parent that has one, and so does the operator's append.  A row once made *)
(* stays, as long as the operator deletes none.                               *)

(* No folder is none, and a manifest names one of the folders.                *)
NamesFolders == Nobody \notin Folders /\ \A d \in Explicit : Parent[d] \in Folders

Statuses == {"none", "Gestartet", "Erfolgreich", "Fehler", "Abgebrochen"}
HasRow(d) == deletes = 0 => status[d] # "none"
JobHasRow(d, p) == IF p = Nobody THEN HasRow(d) ELSE HasRow(p)

RoutingTypes ==
    /\ status \in [Folders -> Statuses] /\ deletes \in Nat
    /\ queue \in Seq([d : Folders, p : Folders \cup {Nobody}])
    /\ \/ work = Routing!Idle
       \/ work \in [d : Folders, p : Folders \cup {Nobody}, pc : {"upload", "record"}]
    /\ op \in Folders \cup {Nobody}

OneRowPerBooking ==
    deletes = 0 => \A d, e \in Folders :
        d # e /\ Booking[d] = Booking[e] => status[d] = "none" \/ status[e] = "none"

JobsHaveRows ==
    /\ \A i \in DOMAIN queue : JobHasRow(queue[i].d, queue[i].p)
    /\ work # Routing!Idle => JobHasRow(work.d, work.p)
    /\ op # Nobody => HasRow(op)

RoutingInv == RoutingTypes /\ OneRowPerBooking /\ JobsHaveRows

(* An entry of a sequence, as the provers do not see it of records.           *)
LEMMA EntryOf ==
    /\ \A S : \A q \in Seq(S) : \A i \in DOMAIN q : q[i] \in S
    /\ \A S : \A q \in Seq(S) : q # <<>> => 1 \in DOMAIN q
OBVIOUS

(* No row yet.                                                                *)
LEMMA RoutingInit == Routing!Init => RoutingInv
BY DEF Routing!Init, RoutingInv, RoutingTypes, Statuses, OneRowPerBooking,
   JobsHaveRows

(* Rows that stay keep the jobs' rows, whichever status they go to.           *)
LEMMA RowsStay ==
    ASSUME RoutingInv, status' \in [Folders -> Statuses], deletes' = deletes,
           \A d \in Folders : deletes = 0 => (status'[d] = "none" <=> status[d] = "none")
    PROVE  /\ OneRowPerBooking'
           /\ \A d \in Folders : HasRow(d) => HasRow(d)'
BY DEF RoutingInv, OneRowPerBooking, HasRow

(* A row that changes its status.                                             *)
LEMMA RowSet ==
    ASSUME RoutingInv, NEW d \in Folders, HasRow(d), NEW s \in Statuses \ {"none"},
           status' = [status EXCEPT ![d] = s]
    PROVE  /\ status' \in [Folders -> Statuses]
           /\ \A e \in Folders : deletes = 0 => (status'[e] = "none" <=> status[e] = "none")
BY DEF RoutingInv, RoutingTypes, HasRow

(* A parent's row is there and stays.                                         *)
LEMMA ParentSet ==
    ASSUME RoutingInv, NEW p \in Folders, HasRow(p), NEW state,
           Routing!ParentUpdated(p, state)
    PROVE  /\ status' \in [Folders -> Statuses]
           /\ \A e \in Folders : deletes = 0 => (status'[e] = "none" <=> status[e] = "none")
<1>1. status' = [status EXCEPT ![p] = IF state = "completed" THEN "Erfolgreich"
                                      ELSE IF status[p] = "none" THEN "Gestartet"
                                      ELSE status[p]]
  BY DEF Routing!ParentUpdated
<1>. QED
  BY <1>1 DEF RoutingInv, RoutingTypes, HasRow, Statuses

(* The monitor routes a folder: to a parent that has a row, or as the first   *)
(* of its booking, when no other of the booking has one.                      *)
LEMMA Routed ==
    ASSUME RoutingInv, NamesFolders, NEW d \in Folders, NEW p \in Routing!Route(d),
           Routing!Enqueue(d, p), deletes' = deletes, work' = work, op' = op
    PROVE  RoutingInv'
<1>1. /\ queue' = Append(queue, [d |-> d, p |-> p])
      /\ IF p = Nobody THEN Routing!MarkerHistory(d) ELSE Routing!ParentUpdated(p, "queued")
  BY DEF Routing!Enqueue
<1>2. ASSUME p # Nobody
      PROVE  p \in Folders /\ status[p] = "Erfolgreich"
  BY <1>2 DEF Routing!Route, Routing!ManifestTarget, Routing!IdTarget,
     Routing!can_append_media, Routing!find_by_customer_booking, NamesFolders
<1>3. p \in Folders \cup {Nobody}
  BY <1>2
<1>4. ASSUME status' \in [Folders -> Statuses],
             \A e \in Folders : HasRow(e) => HasRow(e)', JobHasRow(d, p)', OneRowPerBooking'
      PROVE  RoutingInv'
  <2>1. RoutingTypes'
    BY <1>1, <1>3, <1>4 DEF RoutingInv, RoutingTypes, Routing!Idle
  <2>2. \A e \in Folders, q \in Folders \cup {Nobody} : JobHasRow(e, q) => JobHasRow(e, q)'
    BY <1>4 DEF JobHasRow
  <2>3. ASSUME NEW i \in DOMAIN queue'
        PROVE  JobHasRow(queue[i].d, queue[i].p)'
    <3>1. CASE i \in DOMAIN queue
      <4>1. queue'[i] = queue[i]
        BY <1>1, <3>1 DEF RoutingInv, RoutingTypes
      <4>2. queue[i].d \in Folders /\ queue[i].p \in Folders \cup {Nobody}
        <5>1. queue \in Seq([d : Folders, p : Folders \cup {Nobody}])
          BY DEF RoutingInv, RoutingTypes
        <5>2. queue[i] \in [d : Folders, p : Folders \cup {Nobody}]
          BY <3>1, <5>1, EntryOf, Zenon
        <5>. QED
          BY <5>2
      <4>3. JobHasRow(queue[i].d, queue[i].p)
        BY <3>1 DEF RoutingInv, JobsHaveRows
      <4>4. PICK e \in Folders, q \in Folders \cup {Nobody} : e = queue[i].d /\ q = queue[i].p
        BY <4>2
      <4>5. JobHasRow(e, q)'
        BY <2>2, <4>3, <4>4, Zenon
      <4>6. queue'[i].d = e /\ queue'[i].p = q
        BY <4>1, <4>4
      <4>. QED
        BY <4>5, <4>6 DEF JobHasRow, HasRow
    <3>2. CASE i \notin DOMAIN queue
      <4>1. queue'[i] = [d |-> d, p |-> p]
        BY <1>1, <3>2 DEF RoutingInv, RoutingTypes
      <4>. QED
        BY <1>4, <4>1 DEF JobHasRow, HasRow
    <3>. QED
      BY <3>1, <3>2
  <2>4. work' # Routing!Idle => JobHasRow(work.d, work.p)'
    BY <2>2 DEF RoutingInv, RoutingTypes, JobsHaveRows
  <2>5. op' # Nobody => HasRow(op)'
    BY <1>4 DEF RoutingInv, RoutingTypes, JobsHaveRows
  <2>. QED
    BY <1>4, <2>1, <2>3, <2>4, <2>5 DEF RoutingInv, JobsHaveRows, JobHasRow,
       HasRow
<1>5. CASE p # Nobody
  <2>1. HasRow(p)
    BY <1>2, <1>5 DEF HasRow
  <2>2. /\ status' \in [Folders -> Statuses]
        /\ \A e \in Folders : deletes = 0 => (status'[e] = "none" <=> status[e] = "none")
    BY <1>1, <1>2, <1>5, <2>1, ParentSet
  <2>3. OneRowPerBooking' /\ \A e \in Folders : HasRow(e) => HasRow(e)'
    BY <2>2, RowsStay
  <2>4. JobHasRow(d, p)'
    BY <1>2, <1>5, <2>1, <2>3 DEF JobHasRow
  <2>. QED
    BY <1>4, <2>2, <2>3, <2>4
<1>6. CASE p = Nobody
  <2>1. status' = [status EXCEPT ![d] = IF status[d] = "none" THEN "Gestartet" ELSE status[d]]
    BY <1>1, <1>6 DEF Routing!MarkerHistory
  <2>2. /\ status' \in [Folders -> Statuses] /\ status'[d] # "none"
        /\ \A e \in Folders \ {d} : status'[e] = status[e]
    BY <2>1 DEF RoutingInv, RoutingTypes, Statuses
  <2>3. \A e \in Folders \ {d} : Booking[e] = Booking[d] => status[e] = "none"
    <3>1. d \notin Explicit
      BY <1>6 DEF Routing!Route, Routing!ManifestTarget, NamesFolders
    <3>2. Nobody \in Routing!IdTarget(d)
      BY <1>6, <3>1 DEF Routing!Route
    <3>3. /\ Routing!find_by_customer_booking(d, {"Erfolgreich"}) = {}
          /\ Routing!find_by_customer_booking(d, {"Gestartet", "Fehler", "Abgebrochen"}) = {}
      <4>1. Nobody \notin Routing!find_by_customer_booking(d, {"Erfolgreich"})
        BY DEF Routing!find_by_customer_booking, NamesFolders
      <4>. QED
        BY <3>2, <4>1 DEF Routing!IdTarget
    <3>. QED
      BY <3>3 DEF Routing!find_by_customer_booking, RoutingInv, RoutingTypes,
         Statuses
  <2>4. OneRowPerBooking'
    BY <2>2, <2>3 DEF RoutingInv, OneRowPerBooking
  <2>5. \A e \in Folders : HasRow(e) => HasRow(e)'
    BY <2>2 DEF HasRow
  <2>6. JobHasRow(d, p)'
    BY <1>6, <2>2 DEF JobHasRow, HasRow
  <2>. QED
    BY <1>4, <2>2, <2>4, <2>5, <2>6
<1>. QED
  BY <1>5, <1>6

(* Steps that add no job and take no row away.                                *)
LEMMA RowsKeptRouting ==
    ASSUME RoutingInv, RoutingTypes', deletes' = deletes,
           \A d \in Folders : deletes = 0 => (status'[d] = "none" <=> status[d] = "none"),
           \A i \in DOMAIN queue' : \E j \in DOMAIN queue : queue'[i] = queue[j],
           work' # Routing!Idle =>
               \/ work # Routing!Idle /\ work'.d = work.d /\ work'.p = work.p
               \/ \E j \in DOMAIN queue : work'.d = queue[j].d /\ work'.p = queue[j].p,
           op' # Nobody => op' = op \/ status[op'] # "none"
    PROVE  RoutingInv'
<1>1. OneRowPerBooking' /\ \A d \in Folders : HasRow(d) => HasRow(d)'
  BY RowsStay DEF RoutingTypes
<1>2. \A e \in Folders, q \in Folders \cup {Nobody} : JobHasRow(e, q) => JobHasRow(e, q)'
  BY <1>1 DEF JobHasRow
<1>3. ASSUME NEW j \in DOMAIN queue
      PROVE  /\ queue[j].d \in Folders /\ queue[j].p \in Folders \cup {Nobody}
             /\ JobHasRow(queue[j].d, queue[j].p)
  <2>1. queue \in Seq([d : Folders, p : Folders \cup {Nobody}])
    BY DEF RoutingInv, RoutingTypes
  <2>2. queue[j] \in [d : Folders, p : Folders \cup {Nobody}]
    BY <1>3, <2>1, EntryOf, Zenon
  <2>. QED
    BY <2>2 DEF RoutingInv, JobsHaveRows
<1>4. ASSUME NEW i \in DOMAIN queue'
      PROVE  JobHasRow(queue[i].d, queue[i].p)'
  <2>1. PICK j \in DOMAIN queue : queue'[i] = queue[j]
    BY <1>4
  <2>2. PICK e \in Folders, q \in Folders \cup {Nobody} :
          e = queue[j].d /\ q = queue[j].p /\ JobHasRow(e, q)
    BY <1>3
  <2>3. JobHasRow(e, q)'
    BY <1>2, <2>2, Zenon
  <2>4. queue'[i].d = e /\ queue'[i].p = q
    BY <2>1, <2>2
  <2>. QED
    BY <2>3, <2>4 DEF JobHasRow, HasRow
<1>5. ASSUME work' # Routing!Idle
      PROVE  JobHasRow(work.d, work.p)'
  <2>1. PICK e \in Folders, q \in Folders \cup {Nobody} :
          e = work'.d /\ q = work'.p /\ JobHasRow(e, q)
    <3>1. CASE work # Routing!Idle /\ work'.d = work.d /\ work'.p = work.p
      BY <3>1 DEF RoutingInv, RoutingTypes, JobsHaveRows
    <3>2. CASE \E j \in DOMAIN queue : work'.d = queue[j].d /\ work'.p = queue[j].p
      BY <1>3, <3>2
    <3>. QED
      BY <1>5, <3>1, <3>2
  <2>2. JobHasRow(e, q)'
    BY <1>2, <2>1, Zenon
  <2>. QED
    BY <2>1, <2>2 DEF JobHasRow, HasRow
<1>6. op' # Nobody => HasRow(op)'
  <2>1. op' # Nobody => op' \in Folders
    BY DEF RoutingTypes
  <2>2. op' # Nobody => HasRow(op')
    BY DEF RoutingInv, JobsHaveRows, HasRow
  <2>3. \A d \in Folders : HasRow(d) => (deletes' = 0 => status'[d] # "none")
    BY <1>1 DEF HasRow
  <2>. QED
    BY <2>1, <2>2, <2>3 DEF HasRow
<1>. QED
  BY <1>1, <1>4, <1>5, <1>6 DEF RoutingInv, JobsHaveRows, Routing!Idle

(* The steps of the worker.                                                   *)
LEMMA WorkStep ==
    ASSUME RoutingInv, NamesFolders, Routing!Works \/ Routing!UploadFails
    PROVE  RoutingInv'
<1>. DEFINE Same == /\ status' \in [Folders -> Statuses]
                    /\ \A d \in Folders : deletes = 0 => (status'[d] = "none" <=> status[d] = "none")
<1>0. work # Routing!Idle =>
        /\ work \in [d : Folders, p : Folders \cup {Nobody}, pc : {"upload", "record"}]
        /\ JobHasRow(work.d, work.p)
  BY DEF RoutingInv, RoutingTypes, JobsHaveRows
<1>1. CASE Routing!Take
  <2>1. /\ queue # <<>> /\ queue' = Tail(queue) /\ op' = op /\ deletes' = deletes
        /\ work' = [d |-> queue[1].d, p |-> queue[1].p, pc |-> "upload"]
        /\ IF queue[1].p = Nobody THEN status' = [status EXCEPT ![queue[1].d] = "Gestartet"]
           ELSE Routing!ParentUpdated(queue[1].p, "uploading")
    BY <1>1 DEF Routing!Take
  <2>2. queue \in Seq([d : Folders, p : Folders \cup {Nobody}])
    BY DEF RoutingInv, RoutingTypes
  <2>3. 1 \in DOMAIN queue /\ queue[1] \in [d : Folders, p : Folders \cup {Nobody}]
    BY <2>1, <2>2, EntryOf, Zenon
  <2>4. JobHasRow(queue[1].d, queue[1].p)
    BY <2>3 DEF RoutingInv, JobsHaveRows
  <2>5. Same
    <3>1. CASE queue[1].p = Nobody
      BY <2>1, <2>3, <2>4, <3>1, RowSet, Zenon DEF JobHasRow, Statuses
    <3>2. CASE queue[1].p # Nobody
      <4>1. queue[1].p \in Folders /\ HasRow(queue[1].p)
        BY <2>3, <2>4, <3>2 DEF JobHasRow
      <4>. QED
        BY <2>1, <3>2, <4>1, ParentSet
    <3>. QED
      BY <3>1, <3>2
  <2>6. /\ queue' \in Seq([d : Folders, p : Folders \cup {Nobody}])
        /\ \A i \in DOMAIN queue' : i + 1 \in DOMAIN queue /\ queue'[i] = queue[i + 1]
    BY <2>1, <2>2
  <2>7. RoutingTypes'
    BY <2>1, <2>3, <2>5, <2>6 DEF RoutingInv, RoutingTypes
  <2>. QED
    BY <2>1, <2>3, <2>5, <2>6, <2>7, RowsKeptRouting
<1>2. CASE Routing!Uploaded
  <2>1. /\ work.pc = "upload" /\ work' = [work EXCEPT !.pc = "record"]
        /\ status' = status /\ queue' = queue /\ op' = op /\ deletes' = deletes
    BY <1>2 DEF Routing!Uploaded
  <2>2. work # Routing!Idle
    BY <2>1 DEF Routing!Idle
  <2>3. RoutingTypes'
    BY <1>0, <2>1, <2>2 DEF RoutingInv, RoutingTypes, Routing!Idle
  <2>4. work'.d = work.d /\ work'.p = work.p
    BY <1>0, <2>1, <2>2
  <2>. QED
    BY <2>1, <2>2, <2>3, <2>4, RowsKeptRouting
<1>3. ASSUME Routing!Recorded \/ Routing!UploadFails
      PROVE  RoutingInv'
  <2>1. /\ work.pc \in {"upload", "record"} /\ work' = Routing!Idle
        /\ queue' = queue /\ op' = op /\ deletes' = deletes
    BY <1>3 DEF Routing!Recorded, Routing!UploadFails
  <2>2. /\ work \in [d : Folders, p : Folders \cup {Nobody}, pc : {"upload", "record"}]
        /\ JobHasRow(work.d, work.p)
    BY <1>0, <2>1 DEF Routing!Idle
  <2>3. \/ /\ work.p = Nobody
           /\ \E s \in Statuses \ {"none"} : status' = [status EXCEPT ![work.d] = s]
        \/ work.p # Nobody /\ \E state : Routing!ParentUpdated(work.p, state)
    <3>1. CASE Routing!Recorded
      BY <3>1 DEF Routing!Recorded, Statuses
    <3>2. CASE Routing!UploadFails
      BY <3>2 DEF Routing!UploadFails, Statuses
    <3>. QED
      BY <1>3, <3>1, <3>2
  <2>4. Same
    <3>1. CASE work.p = Nobody
      BY <2>2, <2>3, <3>1, RowSet DEF JobHasRow
    <3>2. CASE work.p # Nobody
      <4>1. work.p \in Folders /\ HasRow(work.p)
        BY <2>2, <3>2 DEF JobHasRow
      <4>. QED
        BY <2>3, <3>2, <4>1, ParentSet
    <3>. QED
      BY <3>1, <3>2
  <2>5. RoutingTypes'
    BY <2>1, <2>4 DEF RoutingInv, RoutingTypes, Routing!Idle
  <2>. QED
    BY <2>1, <2>4, <2>5, RowsKeptRouting
<1>. QED
  BY <1>1, <1>2, <1>3 DEF Routing!Works

(* The steps of the operator, of the studio and a crash.                      *)
LEMMA DeskStep ==
    ASSUME RoutingInv, NamesFolders,
           \/ \E d \in Folders : \/ Routing!Signal(d) \/ Routing!RecoverRejects(d)
                                 \/ Routing!AppendBegins(d) \/ Routing!DeleteRow(d)
           \/ Routing!AppendEnds \/ Routing!Crash \/ UNCHANGED Routing!vars
    PROVE  RoutingInv'
<1>1. ASSUME NEW d \in Folders, Routing!Signal(d) \/ Routing!RecoverRejects(d)
      PROVE  RoutingInv'
  <2>1. status' = status /\ queue' = queue /\ work' = work /\ op' = op /\ deletes' = deletes
    BY <1>1 DEF Routing!Signal, Routing!RecoverRejects
  <2>2. RoutingTypes'
    BY <2>1 DEF RoutingInv, RoutingTypes, Routing!Idle
  <2>. QED
    BY <2>1, <2>2, RowsKeptRouting
<1>2. ASSUME NEW d \in Folders, Routing!AppendBegins(d)
      PROVE  RoutingInv'
  <2>1. /\ status' = status /\ queue' = queue /\ work' = work /\ op' = d /\ deletes' = deletes
        /\ status[d] = "Erfolgreich"
    BY <1>2 DEF Routing!AppendBegins, Routing!can_append_media
  <2>2. RoutingTypes'
    BY <2>1 DEF RoutingInv, RoutingTypes, Routing!Idle
  <2>. QED
    BY <2>1, <2>2, RowsKeptRouting
<1>3. ASSUME NEW d \in Folders, Routing!DeleteRow(d)
      PROVE  RoutingInv'
  <2>1. /\ status' = [status EXCEPT ![d] = "none"] /\ deletes' = deletes + 1
        /\ queue' = queue /\ work' = work /\ op' = op
    BY <1>3 DEF Routing!DeleteRow
  <2>2. RoutingTypes' /\ deletes' # 0
    BY <2>1 DEF RoutingInv, RoutingTypes, Routing!Idle, Statuses
  <2>. QED
    BY <2>2 DEF RoutingInv, OneRowPerBooking, JobsHaveRows, JobHasRow, HasRow
<1>4. ASSUME Routing!AppendEnds
      PROVE  RoutingInv'
  <2>1. /\ op # Nobody /\ op' = Nobody
        /\ queue' = queue /\ work' = work /\ deletes' = deletes
        /\ status' = [status EXCEPT ![op] = "Erfolgreich"] \/ status' = status
    BY <1>4 DEF Routing!AppendEnds
  <2>2. op \in Folders /\ HasRow(op)
    BY <2>1 DEF RoutingInv, RoutingTypes, JobsHaveRows
  <2>3. /\ status' \in [Folders -> Statuses]
        /\ \A d \in Folders : deletes = 0 => (status'[d] = "none" <=> status[d] = "none")
    <3>1. CASE status' = status
      BY <3>1 DEF RoutingInv, RoutingTypes
    <3>2. CASE status' = [status EXCEPT ![op] = "Erfolgreich"]
      BY <2>2, <3>2, RowSet, Zenon DEF Statuses
    <3>. QED
      BY <2>1, <3>1, <3>2
  <2>4. RoutingTypes'
    BY <2>1, <2>3 DEF RoutingInv, RoutingTypes, Routing!Idle
  <2>. QED
    BY <2>1, <2>3, <2>4, RowsKeptRouting
<1>5. ASSUME Routing!Crash
      PROVE  RoutingInv'
  <2>1. /\ status' = status /\ queue' = <<>> /\ work' = Routing!Idle /\ op' = Nobody
        /\ deletes' = deletes
    BY <1>5 DEF Routing!Crash
  <2>2. RoutingTypes'
    BY <2>1 DEF RoutingInv, RoutingTypes, Routing!Idle
  <2>. QED
    BY <2>1, <2>2, RowsKeptRouting
<1>6. ASSUME UNCHANGED Routing!vars
      PROVE  RoutingInv'
  <2>1. status' = status /\ queue' = queue /\ work' = work /\ op' = op /\ deletes' = deletes
    BY <1>6 DEF Routing!vars
  <2>2. RoutingTypes'
    BY <2>1 DEF RoutingInv, RoutingTypes, Routing!Idle
  <2>. QED
    BY <2>1, <2>2, RowsKeptRouting
<1>. QED
  BY <1>1, <1>2, <1>3, <1>4, <1>5, <1>6

(* As long as no row is deleted, at most one of the folders of a booking that *)
(* name no parent becomes an order, for any folders, bookings, announcements, *)
(* failures and stops (try_resolve_id_match_append_for_claim, in the claim as *)
(* in the recovery): the safety part of RoutingIsSound.                       *)
THEOREM OneOrderAlways ==
    ASSUME NamesFolders
    PROVE  Routing!Spec => []Routing!OneOrderPerBooking
<1>1. Routing!Init => RoutingInv
  BY RoutingInit
<1>2. RoutingInv /\ [Routing!Next]_(Routing!vars) => RoutingInv'
  <2>. SUFFICES ASSUME RoutingInv, [Routing!Next]_(Routing!vars)
                PROVE  RoutingInv'
    OBVIOUS
  <2>1. ASSUME NEW d \in Folders, Routing!Claim(d) \/ Routing!Recover(d)
        PROVE  RoutingInv'
    <3>1. /\ \E p \in Routing!Route(d) : Routing!Enqueue(d, p)
          /\ deletes' = deletes /\ work' = work /\ op' = op
      BY <2>1 DEF Routing!Claim, Routing!Recover
    <3>. QED
      BY <3>1, Routed
  <2>. QED
    BY <2>1, WorkStep, DeskStep DEF Routing!Next, Routing!Monitors
<1>3. RoutingInv => Routing!OneOrderPerBooking
  BY DEF RoutingInv, OneRowPerBooking, Routing!OneOrderPerBooking
<1>. QED
  BY <1>1, <1>2, <1>3, PTL DEF Routing!Spec

-----------------------------------------------------------------------------
(* AtsBridge.  Who a job is listed for is who announced it last, because no   *)
(* other request changes the origin of an announced job.                      *)

OriginIsAnnouncer ==
    /\ DOMAIN origin = Jobs /\ DOMAIN announced = Jobs
    /\ \A c \in Jobs : announced[c] # Nobody =>
          /\ announced[c] \in Hosts /\ origin[c].h = announced[c]
          /\ origin[c].source = "ready" /\ origin[c] # Presence!NoOrigin

(* No job is known.                                                           *)
LEMMA OriginInit == Presence!Init => OriginIsAnnouncer
BY DEF Presence!Init, OriginIsAnnouncer

(* A request for a job.                                                       *)
LEMMA OriginKept ==
    ASSUME OriginIsAnnouncer, NEW h \in Hosts, NEW c, NEW kind,
           c \in Jobs \/ c = Nobody, Nobody \notin Hosts,
           Presence!upsert_job_origin(c, h, kind)
    PROVE  OriginIsAnnouncer'
<1>1. CASE c = Nobody
  BY <1>1 DEF Presence!upsert_job_origin, OriginIsAnnouncer
<1>2. CASE c \in Jobs /\ c # Nobody /\ kind = "ready"
  <2>1. /\ origin' = [origin EXCEPT ![c] = [h |-> h, source |-> "ready", seen |-> now]]
        /\ announced' = [announced EXCEPT ![c] = h]
    BY <1>2 DEF Presence!upsert_job_origin, Presence!JobOrigin
  <2>2. [h |-> h, source |-> "ready", seen |-> now] # Presence!NoOrigin
    BY DEF Presence!NoOrigin
  <2>. QED
    BY <1>2, <2>1, <2>2 DEF OriginIsAnnouncer
<1>3. CASE c \in Jobs /\ c # Nobody /\ kind # "ready"
  <2>1. /\ origin' = [origin EXCEPT ![c] = Presence!JobOrigin(c, h, kind)]
        /\ UNCHANGED announced
    BY <1>3 DEF Presence!upsert_job_origin
  <2>2. ASSUME announced[c] # Nobody
        PROVE  /\ origin'[c].h = announced[c] /\ origin'[c].source = "ready"
               /\ origin'[c] # Presence!NoOrigin
    <3>1. origin'[c] = [origin[c] EXCEPT !.seen = now]
      BY <1>3, <2>1, <2>2 DEF OriginIsAnnouncer, Presence!JobOrigin
    <3>2. /\ origin'[c].h = origin[c].h /\ origin'[c].source = origin[c].source
      BY <3>1
    <3>3. announced[c] \in Hosts /\ Presence!NoOrigin.h = Nobody
      BY <1>3, <2>2 DEF OriginIsAnnouncer, Presence!NoOrigin
    <3>. QED
      BY <1>3, <2>2, <3>2, <3>3 DEF OriginIsAnnouncer
  <2>3. \A d \in Jobs \ {c} : origin'[d] = origin[d]
    BY <2>1 DEF OriginIsAnnouncer
  <2>. QED
    BY <2>1, <2>2, <2>3 DEF OriginIsAnnouncer
<1>. QED
  BY <1>1, <1>2, <1>3

(* Every request, the removal of hosts, the clock and a restart.              *)
LEMMA OriginStep ==
    ASSUME Nobody \notin Hosts, Unnamed \in Hosts,
           OriginIsAnnouncer, [Presence!Next]_(Presence!vars)
    PROVE  OriginIsAnnouncer'
<1>1. ASSUME UNCHANGED <<origin, announced>>
      PROVE  OriginIsAnnouncer'
  BY <1>1 DEF OriginIsAnnouncer
<1>2. ASSUME NEW h \in Hosts, NEW kind, NEW c, c \in Jobs \/ c = Nobody,
             Presence!Request(h, kind, c)
      PROVE  OriginIsAnnouncer'
  BY <1>2, OriginKept DEF Presence!Request, Presence!record_event
<1>3. ASSUME NEW hs \in SUBSET Hosts, Presence!Removed(hs)
      PROVE  OriginIsAnnouncer'
  BY <1>3 DEF Presence!Removed, OriginIsAnnouncer
<1>4. ASSUME NEW i \in Hosts \ {Unnamed}, NEW header \in BOOLEAN
      PROVE  Presence!parse_identity(i, header) \in Hosts
  BY <1>4 DEF Presence!parse_identity
<1>5. ASSUME NEW h \in Hosts,
             \/ Presence!health(h) \/ Presence!customer_lookup(h)
             \/ Presence!client_token(h) \/ Presence!diagnostics_events(h)
             \/ \E c \in Jobs : \/ Presence!handoff_ready(h, c)
                                \/ Presence!handoff_cancel(h, c)
                                \/ Presence!job_status(h, c)
      PROVE  OriginIsAnnouncer'
  BY <1>2, <1>5 DEF Presence!health, Presence!customer_lookup,
     Presence!client_token,
     Presence!diagnostics_events, Presence!handoff_ready, Presence!handoff_cancel,
     Presence!job_status
<1>6. CASE UNCHANGED Presence!vars
  BY <1>1, <1>6 DEF Presence!vars, Presence!presence
<1>7. CASE \E h \in Hosts : Presence!remove_host(h)
  BY <1>3, <1>7 DEF Presence!remove_host
<1>8. CASE Presence!remove_inactive_long_hosts
  BY <1>3, <1>8 DEF Presence!remove_inactive_long_hosts
<1>9. CASE Presence!Tick \/ Presence!Restart
  BY <1>1, <1>9 DEF Presence!Tick, Presence!Restart, Presence!presence
<1>. QED
  BY <1>4, <1>5, <1>6, <1>7, <1>8, <1>9 DEF Presence!Next

(* The \div of a natural number.                                              *)
LEMMA Division ==
    ASSUME NEW a \in Nat, NEW b \in Nat \ {0}
    PROVE  /\ a \div b \in Nat
           /\ b * (a \div b) <= a
           /\ a < b * (a \div b) + b
BY Z3

(* A larger factor makes a product larger by as much as the other at least.   *)
LEMMA ProductGrows ==
    ASSUME NEW b \in Nat \ {0}, NEW p \in Nat, NEW q \in Nat, p < q
    PROVE  b * p + b <= b * q
<1>1. q = p + 1 + (q - p - 1) /\ q - p - 1 \in Nat
  OBVIOUS
<1>2. b * (q - p - 1) \in Nat
  BY <1>1
<1>3. b * q = b * p + b + b * (q - p - 1)
  BY <1>1
<1>. QED
  BY <1>2, <1>3

(* The sequence of a set has its elements.                                    *)
LEMMA SequenceOf ==
    ASSUME NEW S, IsFiniteSet(S)
    PROVE  /\ Cardinality(S) \in Nat
           /\ Presence!SetToSeq(S) \in [1..Cardinality(S) -> S]
           /\ \A x \in S : \E i \in 1..Cardinality(S) : Presence!SetToSeq(S)[i] = x
<1>. DEFINE n == Cardinality(S)
<1>1. n \in Nat /\ ExistsBijection(1..n, S)
  BY FS_CardinalityType
<1>2. Presence!Cardinality(S) = n
  BY DEF Presence!Cardinality, Cardinality, Presence!IsFiniteSet, IsFiniteSet
<1>3. PICK g \in [1..n -> S] : \A a, b \in 1..n : g[a] = g[b] => a = b
  BY <1>1 DEF ExistsBijection, Bijection, Injection, IsInjective
<1>4. Presence!IsInjective(g)
  BY <1>3 DEF Presence!IsInjective
<1>. DEFINE s == Presence!SetToSeq(S)
<1>5. s = CHOOSE f \in [1..n -> S] : Presence!IsInjective(f)
  BY <1>2, Zenon DEF Presence!SetToSeq
<1>6. s \in [1..n -> S] /\ Presence!IsInjective(s)
  BY <1>3, <1>4, <1>5, Zenon
<1>7. s \in Injection(1..n, S)
  BY <1>6 DEF Presence!IsInjective, Injection, IsInjective
<1>8. Cardinality(1..n) = n
  BY <1>1, FS_Interval
<1>9. s \in Surjection(1..n, S)
  BY <1>7, <1>8, FS_Injection, Zenon
<1>. QED
  BY <1>1, <1>6, <1>9, Zenon DEF Surjection

(* A function of 1..n is a sequence of that length.                           *)
LEMMA LengthOf ==
    ASSUME NEW S, NEW n \in Nat, NEW s \in [1..n -> S]
    PROVE  Len(s) = n /\ DOMAIN s = 1..n /\ (s = <<>> <=> n = 0)
OBVIOUS

ListedFor(h) ==
    {c \in Jobs : /\ origin[c] # Presence!NoOrigin /\ origin[c].h = h
                  /\ origin[c].seen >= now - Ttl}

(* The pages of a host's jobs hold them all and no others: a number up to     *)
(* that of the jobs is on the page of its quotient.                           *)
LEMMA JobPages ==
    ASSUME IsFiniteSet(Jobs), PageSize \in Nat \ {0}, NEW h
    PROVE  UNION {Presence!get_jobs_by_host(h, page) :
                    page \in 0 .. Presence!Cardinality(Jobs)} = ListedFor(h)
<1>. DEFINE S == ListedFor(h)
            mine == Presence!SetToSeq(S)
            n == Cardinality(S)
            last == IF mine = <<>> THEN 0 ELSE (Len(mine) - 1) \div PageSize
            from(page) == PageSize * (IF page > last THEN last ELSE page)
            Page(page) == {mine[i] : i \in {j \in DOMAIN mine :
                              from(page) < j /\ j <= from(page) + PageSize}}
<1>1. IsFiniteSet(S) /\ n \in Nat /\ n <= Cardinality(Jobs) /\ Cardinality(Jobs) \in Nat
  <2>1. S \subseteq Jobs
    BY DEF ListedFor
  <2>. QED
    BY <2>1, FS_Subset, FS_CardinalityType, Zenon
<1>2. Presence!Cardinality(Jobs) = Cardinality(Jobs)
  BY DEF Presence!Cardinality, Cardinality, Presence!IsFiniteSet, IsFiniteSet
<1>3. /\ mine \in [1..n -> S] /\ \A x \in S : \E i \in 1..n : mine[i] = x
      /\ Len(mine) = n /\ DOMAIN mine = 1..n /\ (mine = <<>> <=> n = 0)
  <2>1. mine \in [1..n -> S] /\ \A x \in S : \E i \in 1..n : mine[i] = x
    BY <1>1, SequenceOf, Zenon
  <2>. QED
    BY <1>1, <2>1, LengthOf, Zenon
<1>4. \A page : Presence!get_jobs_by_host(h, page) = Page(page)
  BY Zenon DEF Presence!get_jobs_by_host, ListedFor
<1>. HIDE DEF S, mine, n
<1>5. ASSUME NEW page \in 0 .. Cardinality(Jobs), NEW x \in Page(page)
      PROVE  x \in S
  BY <1>3, <1>5
<1>6. ASSUME NEW x \in S
      PROVE  \E page \in 0 .. Cardinality(Jobs) : x \in Page(page)
  <2>1. PICK i \in 1..n : mine[i] = x
    BY <1>3
  <2>. DEFINE p == (i - 1) \div PageSize
              q == (n - 1) \div PageSize
  <2>2. i \in Nat /\ i - 1 \in Nat /\ n - 1 \in Nat /\ i <= n /\ n # 0
    BY <1>1, <2>1
  <2>3. p \in Nat /\ PageSize * p <= i - 1 /\ i - 1 < PageSize * p + PageSize
    BY <2>2, Division
  <2>4. q \in Nat /\ PageSize * q <= n - 1 /\ n - 1 < PageSize * q + PageSize
    BY <2>2, Division
  <2>5. last = q
    BY <1>3, <2>2
  <2>. HIDE DEF p, q, last
  <2>6. PageSize * p \in Nat /\ PageSize * q \in Nat
    <3>1. \A a, b \in Nat : a * b \in Nat
      OBVIOUS
    <3>2. PageSize \in Nat /\ p \in Nat /\ q \in Nat
      BY <2>3, <2>4
    <3>. QED
      BY <3>1, <3>2, Zenon
  <2>7. ~(q < p)
    <3>1. ASSUME q < p
          PROVE  FALSE
      <4>1. PageSize * q + PageSize <= PageSize * p
        BY <2>3, <2>4, <3>1, ProductGrows
      <4>. QED
        BY <1>1, <2>2, <2>3, <2>4, <2>6, <4>1
    <3>. QED
      BY <3>1
  <2>8. from(p) = PageSize * p
    BY <2>3, <2>4, <2>5, <2>7
  <2>9. p <= i - 1
    <3>1. CASE p = 0
      BY <2>2, <3>1
    <3>2. CASE 0 < p
      <4>1. PageSize * p >= p
        BY <2>3, <3>2
      <4>. QED
        BY <2>2, <2>3, <2>6, <4>1
    <3>. QED
      BY <2>3, <3>1, <3>2
  <2>10. p \in 0 .. Cardinality(Jobs)
    BY <1>1, <2>2, <2>3, <2>9
  <2>11. x \in Page(p)
    <3>1. from(p) < i /\ i <= from(p) + PageSize
      BY <2>2, <2>3, <2>6, <2>8
    <3>. QED
      BY <1>3, <2>1, <3>1
  <2>. QED
    BY <2>10, <2>11
<1>. QED
  BY <1>2, <1>4, <1>5, <1>6 DEF S

(* A function that goes on until a stop finds the first one ...               *)
LEMMA FirstStop ==
    ASSUME NEW L \in Nat, NEW Stop \in SUBSET (0..L), L \in Stop, NEW T,
           T = [n \in 0..L |-> IF n \in Stop THEN n ELSE T[n + 1]]
    PROVE  T[0] \in Stop /\ \A k \in Stop : T[0] <= k
<1>1. PICK m \in Stop : \A k \in Stop : m <= k
  BY LeastOfNats, L \in Stop
<1>. DEFINE Other == {k \in 0..m : T[k] # T[0]}
<1>2. Other = {}
  <2>. SUFFICES ASSUME Other # {} PROVE FALSE
    OBVIOUS
  <2>1. PICK k \in Other : \A j \in Other : k <= j
    <3>1. Other \in SUBSET Nat
      OBVIOUS
    <3>. QED
      BY <3>1, LeastOfNats, Zenon
  <2>2. k # 0 /\ k \in 0..m /\ k - 1 \in 0..m /\ m \in 0..L
    BY <1>1, <2>1
  <2>3. T[k - 1] = T[0] /\ k - 1 \notin Stop
    <3>1. k - 1 \notin Other
      <4>1. ~(k <= k - 1)
        BY <2>2
      <4>. QED
        BY <2>1, <4>1, Zenon
    <3>2. k - 1 \notin Stop
      <4>1. ~(m <= k - 1)
        BY <2>2
      <4>. QED
        BY <1>1, <4>1, Zenon
    <3>. QED
      BY <2>2, <3>1, <3>2, Zenon
  <2>4. T[k - 1] = T[k]
    <3>1. PICK j : j = k - 1
      BY Zenon
    <3>2. j \in 0..L /\ j + 1 = k
      BY <2>2, <3>1
    <3>3. T[j] = IF j \in Stop THEN j ELSE T[j + 1]
      BY <3>2, Zenon
    <3>. QED
      BY <2>3, <3>1, <3>2, <3>3, Zenon
  <2>. QED
    BY <2>1, <2>3, <2>4, Zenon
<1>3. T[m] = m
  BY <1>1
<1>4. T[0] = m
  <2>1. m \in 0..m
    BY <1>1
  <2>. QED
    BY <1>2, <1>3, <2>1
<1>. QED
  BY <1>1, <1>4

(* ... and there is one.                                                      *)
LEMMA StopExists ==
    ASSUME NEW L \in Nat, NEW Stop \in SUBSET (0..L), L \in Stop
    PROVE  \E T : T = [n \in 0..L |-> IF n \in Stop THEN n ELSE T[n + 1]]
<1>. DEFINE First(n, m) == m \in Stop /\ n <= m /\ \A k \in Stop : n <= k => m <= k
            T == [n \in 0..L |-> CHOOSE m : First(n, m)]
<1>1. ASSUME NEW n \in 0..L
      PROVE  \E m : First(n, m)
  <2>. DEFINE Later == {k \in Stop : n <= k}
  <2>1. Later \in SUBSET Nat /\ L \in Later
    <3>1. n <= L /\ L \in Stop /\ Stop \subseteq Nat
      BY <1>1
    <3>. QED
      BY <3>1, Zenon
  <2>2. PICK m \in Later : \A k \in Later : m <= k
    BY <2>1, LeastOfNats, Zenon
  <2>. QED
    BY <2>2
<1>2. \A n \in 0..L : First(n, T[n])
  BY <1>1, Zenon
<1>3. ASSUME NEW n \in 0..L, n \in Stop
      PROVE  T[n] = n
  BY <1>2, <1>3
<1>4. ASSUME NEW n \in 0..L, n \notin Stop
      PROVE  T[n] = T[n + 1]
  <2>1. n + 1 \in 0..L
    BY <1>4
  <2>2. First(n, T[n]) /\ First(n + 1, T[n + 1])
    BY <1>2, <2>1, Zenon
  <2>. HIDE DEF T
  <2>3. T[n] \in 0..L /\ T[n + 1] \in 0..L /\ T[n] # n
    BY <1>4, <2>2
  <2>. QED
    BY <1>4, <2>2, <2>3
<1>5. T = [n \in 0..L |-> IF n \in Stop THEN n ELSE T[n + 1]]
  <2>1. \A n \in 0..L : T[n] = IF n \in Stop THEN n ELSE T[n + 1]
    <3>. HIDE DEF T
    <3>. SUFFICES ASSUME NEW n \in 0..L
                  PROVE  T[n] = IF n \in Stop THEN n ELSE T[n + 1]
      OBVIOUS
    <3>. QED
      BY <1>3, <1>4
  <2>2. T = [n \in 0..L |-> T[n]]
    OBVIOUS
  <2>. HIDE DEF T
  <2>. QED
    BY <2>1, <2>2, Zenon
<1>. QED
  BY <1>5, Zenon

(* A page of a host's activity goes to the first place where it may end, and  *)
(* has an entry unless the log is at its end.                                 *)
LEMMA PageTaken ==
    ASSUME Limit \in Nat \ {0}, MaxRaw \in Nat \ {0}, NEW h,
           NEW o \in 0 .. Len(Presence!Events(h))
    PROVE  LET L == Len(Presence!Events(h))
               t == Presence!get_host_activity(h, o)
           IN  /\ t \in 0..L /\ o + t \in 0..L /\ (o < L => 0 < t)
               /\ Presence!PageEnds(Presence!Events(h), o, t)
<1>. DEFINE list == Presence!Events(h)
            L == Len(list)
            Ends(n) == Presence!PageEnds(list, o, n)
            Stop == {n \in 0..L : Ends(n)}
            T == CHOOSE T : T = [n \in 0..L |-> IF Ends(n) THEN n ELSE T[n + 1]]
<1>1. L \in Nat
  OBVIOUS
<1>2. Ends(L) /\ Ends(L - o)
  BY <1>1 DEF Presence!PageEnds
<1>3. o < L => ~Ends(0)
  <2>1. Presence!Slots(list, o, 0) = 0
    <3>1. o + 1 .. o + 0 = {}
      BY <1>1
    <3>2. {i \in o + 1 .. o + 0 : ~Presence!ContinuesRun(list, i, o)} = {}
      BY <3>1, Zenon
    <3>3. Presence!Cardinality({}) = Cardinality({})
      BY DEF Presence!Cardinality, Cardinality, Presence!IsFiniteSet, IsFiniteSet
    <3>. QED
      BY <3>2, <3>3, FS_EmptySet, Zenon DEF Presence!Slots
  <2>. QED
    BY <1>1, <2>1 DEF Presence!PageEnds
<1>4. Presence!get_host_activity(h, o) = T[0]
  BY Zenon DEF Presence!get_host_activity
<1>. HIDE DEF Ends, L
<1>5. T = [n \in 0..L |-> IF Ends(n) THEN n ELSE T[n + 1]]
  <2>1. PICK S : S = [n \in 0..L |-> IF n \in Stop THEN n ELSE S[n + 1]]
    <3>1. Stop \in SUBSET (0..L) /\ L \in Stop
      BY <1>1, <1>2
    <3>. HIDE DEF Stop
    <3>. QED
      BY <1>1, <3>1, StopExists, Zenon
  <2>2. S = [n \in 0..L |-> IF Ends(n) THEN n ELSE S[n + 1]]
    BY <2>1
  <2>. QED
    BY <2>2, Zenon
<1>. HIDE DEF T
<1>6. T = [n \in 0..L |-> IF n \in Stop THEN n ELSE T[n + 1]]
  BY <1>5
<1>7. L \in Stop /\ L - o \in Stop /\ (o < L => 0 \notin Stop)
  BY <1>1, <1>2, <1>3 DEF L
<1>8. T[0] \in Stop /\ \A k \in Stop : T[0] <= k
  BY <1>1, <1>6, <1>7, FirstStop
<1>9. T[0] \in 0..L /\ o + T[0] \in 0..L /\ (o < L => 0 < T[0]) /\ Ends(T[0])
  BY <1>1, <1>7, <1>8 DEF L
<1>. QED
  BY <1>4, <1>9, Zenon DEF Ends, L

(* Going from page to page by A: a sum as long as the log ...                 *)
LEMMA PagesExist ==
    ASSUME NEW L \in Nat, NEW A, \A o \in 0..L : o + A[o] \in 0..L
    PROVE  \E F : F = [n \in 0..L |-> IF n = 0 THEN 0 ELSE F[n - 1] + A[F[n - 1]]]
<1>. DEFINE Upto(k, F) == /\ F \in [0..k -> 0..L] /\ F[0] = 0
                          /\ \A n \in 1..k : F[n] = F[n - 1] + A[F[n - 1]]
            None == {k \in 0..L : \A F : ~Upto(k, F)}
<1>1. None = {}
  <2>. SUFFICES ASSUME None # {} PROVE FALSE
    OBVIOUS
  <2>1. PICK k \in None : \A j \in None : k <= j
    <3>1. None \in SUBSET Nat
      OBVIOUS
    <3>. QED
      BY <3>1, LeastOfNats, Zenon
  <2>2. CASE k = 0
    <3>1. Upto(0, [n \in 0..0 |-> 0])
      OBVIOUS
    <3>. QED
      BY <2>1, <2>2, <3>1
  <2>3. CASE k # 0
    <3>1. k \in 1..L /\ k - 1 \in 0..L /\ k - 1 \notin None
      <4>1. k \in 0..L
        BY <2>1, Zenon
      <4>. HIDE DEF None
      <4>2. k \in 1..L /\ k - 1 \in 0..L /\ ~(k <= k - 1)
        BY <2>3, <4>1
      <4>. QED
        BY <2>1, <4>2
    <3>2. PICK F : Upto(k - 1, F)
      BY <3>1
    <3>. DEFINE G == [n \in 0..k |-> IF n = k THEN F[k - 1] + A[F[k - 1]] ELSE F[n]]
    <3>3. F[k - 1] \in 0..L
      BY <3>1, <3>2
    <3>4. F[k - 1] + A[F[k - 1]] \in 0..L
      BY <3>3
    <3>5. G \in [0..k -> 0..L] /\ G[0] = 0
      BY <3>1, <3>2, <3>4
    <3>6. ASSUME NEW n \in 1..k
          PROVE  G[n] = G[n - 1] + A[G[n - 1]]
      <4>1. CASE n = k
        <5>1. G[n] = F[k - 1] + A[F[k - 1]] /\ G[n - 1] = F[k - 1]
          BY <3>1, <4>1
        <5>. QED
          BY <5>1, Zenon
      <4>2. CASE n # k
        <5>1. n \in 1..(k - 1) /\ G[n] = F[n] /\ G[n - 1] = F[n - 1]
          BY <3>1, <3>6, <4>2
        <5>2. F[n] = F[n - 1] + A[F[n - 1]]
          BY <3>2, <5>1, Zenon
        <5>. QED
          BY <5>1, <5>2, Zenon
      <4>. QED
        BY <4>1, <4>2
    <3>. HIDE DEF G
    <3>7. Upto(k, G)
      BY <3>5, <3>6, Zenon
    <3>. QED
      BY <2>1, <3>7, Zenon
  <2>. QED
    BY <2>2, <2>3
<1>2. PICK F : Upto(L, F)
  <2>1. L \in 0..L
    OBVIOUS
  <2>. QED
    BY <1>1, <2>1, Zenon
<1>3. F = [n \in 0..L |-> IF n = 0 THEN 0 ELSE F[n - 1] + A[F[n - 1]]]
  <2>1. F = [n \in 0..L |-> F[n]]
    BY <1>2
  <2>2. ASSUME NEW n \in 0..L
        PROVE  F[n] = IF n = 0 THEN 0 ELSE F[n - 1] + A[F[n - 1]]
    <3>1. CASE n = 0
      BY <1>2, <3>1, Zenon
    <3>2. CASE n # 0
      <4>1. n \in 1..L
        BY <2>2, <3>2
      <4>. QED
        BY <1>2, <3>2, <4>1, Zenon
    <3>. QED
      BY <3>1, <3>2
  <2>. QED
    BY <2>1, <2>2, Zenon
<1>. QED
  BY <1>3, Zenon

(* ... that never leaves it, and is through when every page has an entry.     *)
LEMMA PagesReach ==
    ASSUME NEW L \in Nat, NEW A, \A o \in 0..L : o + A[o] \in 0..L,
           \A o \in 0..L : A[o] \in 0..L /\ (o < L => 0 < A[o]), NEW F, F[0] = 0,
           \A n \in 1..L : F[n - 1] \in 0..L => F[n] = F[n - 1] + A[F[n - 1]]
    PROVE  F[L] = L /\ \A n \in 0..L : F[n] \in 0..L
<1>. DEFINE Fits(n) == F[n] \in 0..L /\ n <= F[n]
            Bad == {n \in 0..L : ~Fits(n)}
<1>1. Bad = {}
  <2>. SUFFICES ASSUME Bad # {} PROVE FALSE
    OBVIOUS
  <2>1. PICK n \in Bad : \A j \in Bad : n <= j
    <3>1. Bad \in SUBSET Nat
      OBVIOUS
    <3>. QED
      BY <3>1, LeastOfNats, Zenon
  <2>2. n # 0
    BY <2>1
  <2>3. n \in 0..L /\ n - 1 \in 0..L /\ n - 1 \notin Bad
    BY <2>1, <2>2
  <2>4. F[n - 1] \in 0..L /\ n - 1 <= F[n - 1]
    BY <2>3
  <2>5. F[n] = F[n - 1] + A[F[n - 1]]
    <3>1. n \in 1..L
      BY <2>2, <2>3
    <3>. QED
      BY <2>4, <3>1
  <2>6. PICK o \in 0..L : o = F[n - 1]
    BY <2>4
  <2>7. F[n] = o + A[o] /\ o + A[o] \in 0..L /\ A[o] \in 0..L /\ (o < L => 0 < A[o])
    BY <2>5, <2>6
  <2>8. n <= F[n]
    BY <2>3, <2>4, <2>6, <2>7
  <2>. QED
    BY <2>1, <2>7, <2>8
<1>2. \A n \in 0..L : Fits(n)
  BY <1>1
<1>3. Fits(L)
  BY <1>2
<1>. QED
  BY <1>2, <1>3

(* Every event of a host is on a page, and a page that ends within a run of   *)
(* health checks has as many rows as a page may.                              *)
LEMMA ActivityShown ==
    ASSUME Limit \in Nat \ {0}, MaxRaw \in Nat \ {0}
    PROVE  Presence!RunsShownWhole
<1>. SUFFICES ASSUME NEW h \in Hosts
              PROVE  LET list == Presence!Events(h)
                         offset[n \in 0 .. Len(list)] ==
                             IF n = 0 THEN 0
                             ELSE offset[n - 1] + Presence!get_host_activity(h, offset[n - 1])
                     IN  /\ offset[Len(list)] = Len(list)
                         /\ \A n \in 1 .. Len(list) :
                              LET o == offset[n]
                              IN  o < Len(list) /\ list[o].health /\ list[o + 1].health =>
                                      o - offset[n - 1] = MaxRaw
  BY Zenon DEF Presence!RunsShownWhole
<1>. DEFINE list == Presence!Events(h)
            L == Len(list)
            Taken(o) == Presence!get_host_activity(h, o)
            A == [o \in 0..L |-> Taken(o)]
            Next(F) == [n \in 0..L |-> IF n = 0 THEN 0 ELSE F[n - 1] + Taken(F[n - 1])]
            offset == CHOOSE F : F = Next(F)
<1>1. L \in Nat
  OBVIOUS
<1>2. \A o \in 0..L : /\ Taken(o) \in 0..L /\ o + Taken(o) \in 0..L
                      /\ (o < L => 0 < Taken(o)) /\ Presence!PageEnds(list, o, Taken(o))
  BY PageTaken, Zenon
<1>. HIDE DEF L, Taken
<1>3. \A o \in 0..L : A[o] = Taken(o)
  OBVIOUS
<1>. HIDE DEF A
<1>4. /\ \A o \in 0..L : o + A[o] \in 0..L
      /\ \A o \in 0..L : A[o] \in 0..L /\ (o < L => 0 < A[o])
  BY <1>2, <1>3
<1>5. offset = Next(offset)
  <2>1. PICK F : F = [n \in 0..L |-> IF n = 0 THEN 0 ELSE F[n - 1] + A[F[n - 1]]]
    BY <1>1, <1>4, PagesExist
  <2>2. F[0] = 0 /\ \A n \in 1..L : F[n - 1] \in 0..L => F[n] = F[n - 1] + A[F[n - 1]]
    BY <1>1, <2>1
  <2>3. \A n \in 0..L : F[n] \in 0..L
    BY <1>1, <1>4, <2>2, PagesReach, Zenon
  <2>4. ASSUME NEW n \in 0..L
        PROVE  F[n] = IF n = 0 THEN 0 ELSE F[n - 1] + Taken(F[n - 1])
    <3>1. CASE n = 0
      BY <2>2, <3>1
    <3>2. CASE n # 0
      <4>1. n \in 1..L /\ n - 1 \in 0..L
        BY <1>1, <2>4, <3>2
      <4>. QED
        BY <1>3, <2>2, <2>3, <3>2, <4>1, Zenon
    <3>. QED
      BY <3>1, <3>2
  <2>5. F = [n \in 0..L |-> F[n]]
    BY <2>1
  <2>6. F = Next(F)
    BY <2>4, <2>5, Zenon
  <2>. QED
    BY <2>6, Zenon
<1>. HIDE DEF offset
<1>6. offset[0] = 0 /\ \A n \in 1..L : offset[n] = offset[n - 1] + Taken(offset[n - 1])
  BY <1>1, <1>5
<1>7. \A n \in 1..L : offset[n - 1] \in 0..L => offset[n] = offset[n - 1] + A[offset[n - 1]]
  BY <1>3, <1>6, Zenon
<1>8. offset[L] = L /\ \A n \in 0..L : offset[n] \in 0..L
  BY <1>1, <1>4, <1>6, <1>7, PagesReach, Zenon
<1>9. ASSUME NEW n \in 1..L, offset[n] < L,
             list[offset[n]].health, list[offset[n] + 1].health
      PROVE  offset[n] - offset[n - 1] = MaxRaw
  <2>1. n \in 0..L /\ n - 1 \in 0..L
    BY <1>1, <1>9
  <2>2. PICK p \in 0..L, t \in 0..L : p = offset[n - 1] /\ t = Taken(p) /\ offset[n] = p + t
    BY <1>2, <1>6, <1>8, <1>9, <2>1, Zenon
  <2>3. p + t \in 0..L /\ Presence!PageEnds(list, p, t) /\ p + t < L /\ (p < L => 0 < t)
    BY <1>2, <1>9, <2>2, Zenon
  <2>4. p < L /\ 0 < t /\ t \in Nat /\ p \in Nat
    BY <1>1, <2>3
  <2>5. Presence!ContinuesRun(list, p + t + 1, p)
    <3>1. p + t + 1 > p + 1 /\ (p + t + 1) - 1 = p + t
      BY <2>4
    <3>2. PICK q : q = p + t
      BY Zenon
    <3>3. list[q].health /\ list[q + 1].health
      BY <1>9, <2>2, <3>2, Zenon
    <3>4. list[p + t + 1].health /\ list[(p + t + 1) - 1].health
      BY <3>1, <3>2, <3>3
    <3>. QED
      BY <3>1, <3>4, Zenon DEF Presence!ContinuesRun
  <2>6. t = MaxRaw
    BY <1>1, <2>3, <2>4, <2>5 DEF Presence!PageEnds, L
  <2>. QED
    BY <2>2, <2>4, <2>6
<1>. QED
  BY <1>8, <1>9, Zenon DEF offset, Next, Taken, L

(* Every job that was announced is listed, on one of the pages, for the host  *)
(* that announced it last and for no other.                                   *)
LEMMA JobsShown ==
    ASSUME IsFiniteSet(Jobs), PageSize \in Nat \ {0}, OriginIsAnnouncer
    PROVE  Presence!JobsOfAnnouncer
<1>. SUFFICES ASSUME NEW c \in Jobs, NEW h \in Hosts, announced[c] # Nobody
              PROVE  c \in UNION {Presence!get_jobs_by_host(h, page) :
                                    page \in 0 .. Presence!Cardinality(Jobs)}
                       <=> h = announced[c] /\ origin[c].seen >= now - Ttl
  BY Zenon DEF Presence!JobsOfAnnouncer
<1>1. c \in ListedFor(h) <=> h = announced[c] /\ origin[c].seen >= now - Ttl
  BY Zenon DEF ListedFor, OriginIsAnnouncer
<1>. QED
  BY <1>1, JobPages, Zenon

-----------------------------------------------------------------------------
(* FolderAssign.  The batch proposal is a recursion over the subsets of the   *)
(* candidates; what it proposes is shown from the smallest subset that fails. *)

(* A subset without one of its members is smaller.                            *)
LEMMA SmallerSubset ==
    ASSUME NEW S, IsFiniteSet(S), NEW C \in SUBSET S
    PROVE  /\ IsFiniteSet(C) /\ Cardinality(C) \in Nat /\ Cardinality(C) <= Cardinality(S)
           /\ \A D \in SUBSET C : D # C => Cardinality(D) < Cardinality(C)
<1>1. IsFiniteSet(C) /\ Cardinality(C) <= Cardinality(S)
  BY FS_Subset, Zenon
<1>2. Cardinality(C) \in Nat
  BY <1>1, FS_CardinalityType, Zenon
<1>3. ASSUME NEW D \in SUBSET C, D # C
      PROVE  Cardinality(D) < Cardinality(C)
  <2>1. Cardinality(D) <= Cardinality(C) /\ Cardinality(D) # Cardinality(C)
        /\ IsFiniteSet(D)
    BY <1>1, <1>3, FS_Subset, Zenon
  <2>2. Cardinality(D) \in Nat
    BY <2>1, FS_CardinalityType, Zenon
  <2>. QED
    BY <1>2, <2>1, <2>2
<1>. QED
  BY <1>1, <1>2, <1>3, Zenon

(* If some subset of a finite set fails, one does of which no smaller subset  *)
(* of its own fails.                                                          *)
LEMMA SmallestFailing ==
    ASSUME NEW S, IsFiniteSet(S), NEW Bad \in SUBSET (SUBSET S), Bad # {}
    PROVE  \E C \in Bad : \A D \in SUBSET C : D # C => D \notin Bad
<1>. DEFINE Sizes == {n \in Nat : \E C \in Bad : Cardinality(C) = n}
<1>1. Sizes \in SUBSET Nat /\ Sizes # {}
  <2>1. PICK C \in Bad : TRUE
    OBVIOUS
  <2>2. Cardinality(C) \in Sizes
    BY SmallerSubset, Zenon
  <2>. QED
    BY <2>2
<1>2. PICK n \in Sizes : \A m \in Sizes : n <= m
  BY <1>1, LeastOfNats, Zenon
<1>3. PICK C \in Bad : Cardinality(C) = n
  BY <1>2
<1>4. ASSUME NEW D \in SUBSET C, D # C, D \in Bad
      PROVE  FALSE
  <2>1. Cardinality(D) < n
    BY <1>3, <1>4, SmallerSubset, Zenon
  <2>2. Cardinality(D) \in Sizes
    BY <1>4, SmallerSubset, Zenon
  <2>3. Cardinality(D) \in Nat /\ n \in Nat /\ n <= Cardinality(D)
    BY <1>1, <1>2, <2>2, Zenon
  <2>. QED
    BY <2>1, <2>3
<1>. QED
  BY <1>3, <1>4, Zenon

(* In a finite set that a relation orders totally there is a best element.    *)
LEMMA BestExists ==
    ASSUME NEW S, IsFiniteSet(S), NEW W,
           \A c, d \in S : c # d => <<c, d>> \in W \/ <<d, c>> \in W,
           \A c, d, e \in S : <<c, d>> \in W /\ <<d, e>> \in W => <<c, e>> \in W,
           NEW C \in SUBSET S, C # {}
    PROVE  \E c \in C : \A d \in C \ {c} : <<c, d>> \in W
<1>. DEFINE Has(D) == \E c \in D : \A d \in D \ {c} : <<c, d>> \in W
            Bad == {D \in SUBSET S : D # {} /\ ~Has(D)}
<1>. SUFFICES ASSUME Bad # {} PROVE FALSE
  BY Zenon
<1>1. PICK D \in Bad : \A E \in SUBSET D : E # D => E \notin Bad
  <2>3. PICK Failing : Failing = Bad
    BY Zenon
  <2>1. Failing \in SUBSET (SUBSET S) /\ Failing # {}
    BY <2>3, Zenon
  <2>2. \E D \in Failing : \A E \in SUBSET D : E # D => E \notin Failing
    BY <2>1, SmallestFailing, Zenon
  <2>. QED
    BY <2>2, <2>3, Zenon
<1>2. PICK x \in D : TRUE
  BY <1>1, Zenon
<1>. DEFINE E == D \ {x}
<1>3. CASE E = {}
  <2>1. \A d \in D \ {x} : <<x, d>> \in W
    BY <1>3
  <2>. QED
    BY <1>1, <1>2, <2>1, Zenon
<1>4. CASE E # {}
  <2>1. E \in SUBSET D /\ E # D /\ E \in SUBSET S
    BY <1>1, <1>2
  <2>2. Has(E)
    BY <1>1, <1>4, <2>1, Zenon
  <2>3. PICK b \in E : \A d \in E \ {b} : <<b, d>> \in W
    BY <2>2, Zenon
  <2>4. b \in S /\ x \in S /\ b # x /\ D \in SUBSET S
    BY <1>1, <1>2, <2>3
  <2>5. CASE <<b, x>> \in W
    <3>1. \A d \in D \ {b} : <<b, d>> \in W
      BY <2>3, <2>5
    <3>. QED
      BY <1>1, <2>3, <3>1
  <2>6. CASE <<x, b>> \in W
    <3>1. ASSUME NEW d \in D \ {x}
          PROVE  <<x, d>> \in W
      <4>1. d = b \/ (d \in E \ {b} /\ d \in S)
        BY <2>4, <3>1
      <4>. QED
        BY <2>3, <2>4, <2>6, <4>1, Zenon
    <3>. QED
      BY <1>1, <1>2, <3>1
  <2>. QED
    BY <2>4, <2>5, <2>6, Zenon
<1>. QED
  BY <1>3, <1>4

(* The recursion: B chooses from a set, R is what it leaves, and for any such *)
(* B and R there is the function T that gathers what is chosen.               *)
Gathers(S, B, R, T) ==
    T = [C \in SUBSET S |-> IF C = {} THEN {} ELSE {B[C]} \cup T[R[C]]]

LEMMA TakenExists ==
    ASSUME NEW S, IsFiniteSet(S), NEW B, NEW R,
           \A C \in SUBSET S : C # {} => R[C] \in SUBSET C /\ R[C] # C
    PROVE  \E T : Gathers(S, B, R, T)
<1>. DEFINE Small(n) == {C \in SUBSET S : Cardinality(C) <= n}
            Upto(n, F) == F = [C \in Small(n) |-> IF C = {} THEN {} ELSE {B[C]} \cup F[R[C]]]
            Bad == {n \in Nat : ~\E F : Upto(n, F)}
<1>1. \A C \in SUBSET S : Cardinality(C) \in Nat /\ Cardinality(C) <= Cardinality(S)
  BY SmallerSubset, Zenon
<1>2. ASSUME NEW n \in Nat, n # 0, NEW C \in Small(n), C # {}
      PROVE  n - 1 \in Nat /\ R[C] \in Small(n - 1)
  <2>1. R[C] \in SUBSET C /\ R[C] # C /\ C \in SUBSET S /\ Cardinality(C) <= n
    BY <1>2, Zenon
  <2>2. Cardinality(R[C]) < Cardinality(C) /\ R[C] \in SUBSET S
    <3>1. R[C] \in SUBSET S
      BY <2>1
    <3>. QED
      BY <2>1, <3>1, SmallerSubset, Zenon
  <2>3. Cardinality(R[C]) <= n - 1
    BY <1>1, <1>2, <2>1, <2>2
  <2>. QED
    BY <1>2, <2>2, <2>3
<1>3. Bad = {}
  <2>. SUFFICES ASSUME Bad # {} PROVE FALSE
    BY Zenon
  <2>1. PICK n \in Bad : \A m \in Bad : n <= m
    <3>1. Bad \in SUBSET Nat
      BY Zenon
    <3>. QED
      BY <3>1, LeastOfNats, Zenon
  <2>2. CASE n = 0
    <3>1. ASSUME NEW C \in Small(0)
          PROVE  C = {}
      BY <1>1, <3>1, SmallerSubset, FS_EmptySet
    <3>. DEFINE F == [C \in Small(0) |-> {}]
    <3>2. Upto(0, F)
      BY <3>1
    <3>. QED
      BY <2>1, <2>2, <3>2, Zenon
  <2>3. CASE n # 0
    <3>1. n - 1 \in Nat /\ n - 1 \notin Bad
      <4>1. n \in Nat
        BY <2>1, Zenon
      <4>2. n - 1 \in Nat /\ ~(n <= n - 1)
        BY <2>3, <4>1
      <4>. QED
        BY <2>1, <4>2, Zenon
    <3>2. PICK F : Upto(n - 1, F)
      BY <3>1, Zenon
    <3>. DEFINE G == [C \in Small(n) |-> IF C = {} THEN {} ELSE {B[C]} \cup F[R[C]]]
    <3>3. ASSUME NEW D \in Small(n - 1)
          PROVE  G[D] = F[D]
      <4>1. D \in Small(n)
        BY <1>1, <2>1, <3>1, <3>3
      <4>2. F[D] = IF D = {} THEN {} ELSE {B[D]} \cup F[R[D]]
        BY <3>2, <3>3, Zenon
      <4>. QED
        BY <4>1, <4>2, Zenon
    <3>4. \A C \in Small(n) : C # {} => G[R[C]] = F[R[C]]
      BY <1>2, <2>1, <2>3, <3>3, Zenon
    <3>5. \A C \in Small(n) :
            (IF C = {} THEN {} ELSE {B[C]} \cup F[R[C]])
              = (IF C = {} THEN {} ELSE {B[C]} \cup G[R[C]])
      BY <3>4, Zenon
    <3>6. Upto(n, G)
      BY <3>5, Zenon
    <3>. QED
      BY <2>1, <3>6, Zenon
  <2>. QED
    BY <2>2, <2>3
<1>4. Small(Cardinality(S)) = SUBSET S
  BY <1>1
<1>5. PICK F : Upto(Cardinality(S), F)
  <2>1. Cardinality(S) \in Nat
    BY FS_CardinalityType, Zenon
  <2>. QED
    BY <1>3, <2>1, Zenon
<1>6. F = [C \in SUBSET S |-> IF C = {} THEN {} ELSE {B[C]} \cup F[R[C]]]
  <2>. HIDE DEF Small
  <2>. QED
    BY <1>4, <1>5, Zenon
<1>. QED
  BY <1>6, Zenon DEF Gathers

(* What the recursion has gathered from a set is part of it, one a customer   *)
(* and one a folder, and leaves out nothing that suits better.                *)
Chooses(S, B, R) ==
    \A C \in SUBSET S : C # {} =>
       /\ B[C] \in C /\ \A c \in C \ {B[C]} : B[C].score >= c.score
       /\ R[C] = {c \in C : ~Assign!Clash(c, B[C])}

Fits(C, P) ==
    /\ P \in SUBSET C
    /\ \A c, d \in P : c # d => ~Assign!Clash(c, d)
    /\ \A c \in C \ P : \E d \in P : Assign!Clash(c, d) /\ d.score >= c.score

LEMMA TakenFits ==
    ASSUME NEW S, IsFiniteSet(S), NEW B, NEW R, NEW T,
           Chooses(S, B, R), Gathers(S, B, R, T)
    PROVE  Fits(S, T[S])
<1>1. ASSUME NEW C \in SUBSET S,
             \A D \in SUBSET C : D # C => Fits(D, T[D])
      PROVE  Fits(C, T[C])
  <2>1. CASE C = {}
    <3>1. T[C] = {}
      BY <2>1, Zenon DEF Gathers
    <3>. QED
      BY <2>1, <3>1 DEF Fits
  <2>2. CASE C # {}
    <3>1. PICK b : b = B[C]
      BY Zenon
    <3>2. b \in C /\ \A c \in C \ {b} : b.score >= c.score
      BY <2>2, <3>1, Zenon DEF Chooses
    <3>3. PICK D : D = {c \in C : ~Assign!Clash(c, b)}
      BY Zenon
    <3>4. Assign!Clash(b, b)
      BY DEF Assign!Clash
    <3>5. D \in SUBSET C /\ D # C
      BY <3>2, <3>3, <3>4
    <3>6. PICK P : P = T[D]
      BY Zenon
    <3>7. Fits(D, P)
      BY <1>1, <3>5, <3>6, Zenon
    <3>8. T[C] = {b} \cup P
      <4>1. T[C] = {B[C]} \cup T[R[C]]
        BY <2>2, Zenon DEF Gathers
      <4>2. R[C] = D
        BY <2>2, <3>1, <3>3, Zenon DEF Chooses
      <4>. QED
        BY <3>1, <3>6, <4>1, <4>2, Zenon
    <3>9. {b} \cup P \in SUBSET C
      BY <3>2, <3>5, <3>7 DEF Fits
    <3>10. ASSUME NEW c \in {b} \cup P, NEW d \in {b} \cup P, c # d
           PROVE  ~Assign!Clash(c, d)
      <4>1. \A e \in P : ~Assign!Clash(e, b) /\ ~Assign!Clash(b, e)
        BY <3>3, <3>7 DEF Fits, Assign!Clash
      <4>. QED
        BY <3>7, <3>10, <4>1 DEF Fits
    <3>11. ASSUME NEW c \in C, c \notin {b} \cup P
           PROVE  \E d \in {b} \cup P : Assign!Clash(c, d) /\ d.score >= c.score
      <4>1. CASE c \in D
        BY <3>7, <3>11, <4>1 DEF Fits
      <4>2. CASE c \notin D
        BY <3>2, <3>3, <3>11, <4>2
      <4>. QED
        BY <4>1, <4>2
    <3>. QED
      BY <3>8, <3>9, <3>10, <3>11 DEF Fits
  <2>. QED
    BY <2>1, <2>2
<1>2. \A C \in SUBSET S : Fits(C, T[C])
  <2>1. PICK Bad : Bad = {C \in SUBSET S : ~Fits(C, T[C])}
    BY Zenon
  <2>2. Bad = {}
    <3>. SUFFICES ASSUME Bad # {} PROVE FALSE
      BY Zenon
    <3>1. Bad \in SUBSET (SUBSET S)
      BY <2>1
    <3>2. PICK C \in Bad : \A D \in SUBSET C : D # C => D \notin Bad
      BY <3>1, SmallestFailing, Zenon
    <3>3. C \in SUBSET S /\ ~Fits(C, T[C])
      BY <2>1, <3>2
    <3>4. \A D \in SUBSET C : D # C => Fits(D, T[D])
      <4>1. \A D \in SUBSET C : D \in SUBSET S
        BY <3>3
      <4>. QED
        BY <2>1, <3>2, <4>1, Zenon
    <3>. QED
      BY <1>1, <3>3, <3>4, Zenon
  <2>. QED
    BY <2>1, <2>2, Zenon
<1>. QED
  BY <1>2

(* The candidates are finitely many, and one of two suits better.             *)
LEMMA CandidatesSorted ==
    ASSUME IsFiniteSet(People), IsFiniteSet(Folders), ListsAreSorted
    PROVE  /\ IsFiniteSet(Assign!Candidates)
           /\ \A c \in Assign!Candidates : c.score \in Nat
           /\ \A c, d \in Assign!Candidates :
                c # d => Assign!Better(c, d) \/ Assign!Better(d, c)
           /\ \A c, d, e \in Assign!Candidates :
                Assign!Better(c, d) /\ Assign!Better(d, e) => Assign!Better(c, e)
<1>. DEFINE score(p, f) == Assign!score_folder_name(p, f, TRUE)
            S == Assign!Candidates
<1>1. \A p, f : score(p, f) \in Nat
  BY DEF Assign!score_folder_name
<1>. HIDE DEF score
<1>2. \A c \in S : \E p \in People, f \in Folders : c = [p |-> p, f |-> f, score |-> score(p, f)]
  BY DEF Assign!Candidates, Assign!Open, Assign!Ready, Assign!list_media_folders, score
<1>3. \A c \in S : c.p \in People /\ c.f \in Folders /\ c.score = score(c.p, c.f)
  BY <1>2
<1>4. IsFiniteSet(S)
  <2>1. IsFiniteSet(People \X Folders)
    BY FS_Product
  <2>. DEFINE g == [c \in S |-> <<c.p, c.f>>]
  <2>2. g \in [S -> People \X Folders]
    BY <1>3
  <2>3. ASSUME NEW c \in S, NEW d \in S, g[c] = g[d]
        PROVE  c = d
    <3>1. c.p = d.p /\ c.f = d.f
      BY <2>3
    <3>2. PICK p \in People, f \in Folders : c = [p |-> p, f |-> f, score |-> score(p, f)]
      BY <1>2
    <3>3. PICK q \in People, h \in Folders : d = [p |-> q, f |-> h, score |-> score(q, h)]
      BY <1>2
    <3>4. p = q /\ f = h
      BY <3>1, <3>2, <3>3
    <3>. QED
      BY <3>2, <3>3, <3>4, Zenon
  <2>. HIDE DEF g, S
  <2>4. g \in Injection(S, People \X Folders)
    BY <2>2, <2>3 DEF Injection, IsInjective
  <2>. QED
    BY <2>1, <2>4, FS_Injection, Zenon
<1>5. \A c \in S : c.score \in Nat
  BY <1>1, <1>3
<1>6. ASSUME NEW c \in S, NEW d \in S, c # d
      PROVE  Assign!Better(c, d) \/ Assign!Better(d, c)
  <2>1. c.p # d.p \/ c.f # d.f
    <3>1. PICK p \in People, f \in Folders : c = [p |-> p, f |-> f, score |-> score(p, f)]
      BY <1>2
    <3>2. PICK q \in People, h \in Folders : d = [p |-> q, f |-> h, score |-> score(q, h)]
      BY <1>2
    <3>3. ~(p = q /\ f = h)
      BY <1>6, <3>1, <3>2, Zenon
    <3>. QED
      BY <3>1, <3>2, <3>3
  <2>2. c.score > d.score \/ d.score > c.score \/ c.score = d.score
    BY <1>5
  <2>3. /\ c.p # d.p => Before(c.p, d.p) \/ Before(d.p, c.p)
        /\ c.f # d.f => Before(c.f, d.f) \/ Before(d.f, c.f)
    BY <1>3, Zenon DEF ListsAreSorted
  <2>. QED
    BY <2>1, <2>2, <2>3, Zenon DEF Assign!Better
<1>7. ASSUME NEW c \in S, NEW d \in S, NEW e \in S,
             Assign!Better(c, d), Assign!Better(d, e)
      PROVE  Assign!Better(c, e)
  <2>1. /\ c.score > d.score /\ d.score > e.score => c.score > e.score
        /\ c.score > d.score /\ d.score = e.score => c.score > e.score
        /\ c.score = d.score /\ d.score > e.score => c.score > e.score
    BY <1>5
  <2>2. /\ Before(c.p, d.p) /\ Before(d.p, e.p) => Before(c.p, e.p)
        /\ Before(c.f, d.f) /\ Before(d.f, e.f) => Before(c.f, e.f)
    BY <1>3, Zenon DEF ListsAreSorted
  <2>3. \/ c.score > d.score
        \/ c.score = d.score /\ Before(c.p, d.p)
        \/ c.score = d.score /\ c.p = d.p /\ Before(c.f, d.f)
    BY <1>7, Zenon DEF Assign!Better
  <2>4. \/ d.score > e.score
        \/ d.score = e.score /\ Before(d.p, e.p)
        \/ d.score = e.score /\ d.p = e.p /\ Before(d.f, e.f)
    BY <1>7, Zenon DEF Assign!Better
  <2>5. c.score > e.score \/ (c.score = d.score /\ d.score = e.score)
    <3>1. (c.score > d.score \/ c.score = d.score) /\ (d.score > e.score \/ d.score = e.score)
      BY <2>3, <2>4, Zenon
    <3>. QED
      BY <2>1, <3>1, Zenon
  <2>6. CASE c.score > e.score
    BY <2>6, Zenon DEF Assign!Better
  <2>7. CASE c.score = d.score /\ d.score = e.score
    <3>1. ~(c.score > d.score) /\ ~(d.score > e.score)
      BY <1>5, <2>7
    <3>2. Before(c.p, d.p) \/ (c.p = d.p /\ Before(c.f, d.f))
      BY <2>3, <3>1, Zenon
    <3>3. Before(d.p, e.p) \/ (d.p = e.p /\ Before(d.f, e.f))
      BY <2>4, <3>1, Zenon
    <3>4. Before(c.p, e.p) \/ (c.p = e.p /\ Before(c.f, e.f))
      BY <2>2, <3>2, <3>3, Zenon
    <3>. QED
      BY <2>7, <3>4, Zenon DEF Assign!Better
  <2>. QED
    BY <2>5, <2>6, <2>7, Zenon
<1>. QED
  BY <1>4, <1>5, <1>6, <1>7, Zenon

(* The proposal of the batch dialog.                                          *)
LEMMA ProposalIsFit ==
    ASSUME IsFiniteSet(People), IsFiniteSet(Folders), ListsAreSorted
    PROVE  Assign!ProposalFits
<1>. DEFINE Best(C) == CHOOSE c \in C : \A d \in C \ {c} : Assign!Better(c, d)
            Left(C) == {c \in C : ~Assign!Clash(c, Best(C))}
            Next(F) == [C \in SUBSET Assign!Candidates |->
                          IF C = {} THEN {} ELSE {Best(C)} \cup F[Left(C)]]
            taken == CHOOSE F : F = Next(F)
<1>1. PICK S : S = Assign!Candidates
  BY Zenon
<1>2. /\ IsFiniteSet(S) /\ \A c \in S : c.score \in Nat
      /\ \A c, d \in S : c # d => Assign!Better(c, d) \/ Assign!Better(d, c)
      /\ \A c, d, e \in S : Assign!Better(c, d) /\ Assign!Better(d, e) => Assign!Better(c, e)
  BY <1>1, CandidatesSorted, Zenon
<1>3. IsFiniteSet(S)
  BY <1>2, Zenon
<1>4. ASSUME NEW C \in SUBSET S, C # {}
      PROVE  Best(C) \in C /\ \A d \in C \ {Best(C)} : Assign!Better(Best(C), d)
  <2>1. PICK W : W = {w \in S \X S : Assign!Better(w[1], w[2])}
    BY Zenon
  <2>2. \A c, d \in S : <<c, d>> \in W <=> Assign!Better(c, d)
    <3>. HIDE DEF Best
    <3>. QED
      BY <2>1
  <2>3. \E c \in C : \A d \in C \ {c} : <<c, d>> \in W
    <3>1. /\ \A c, d \in S : c # d => <<c, d>> \in W \/ <<d, c>> \in W
          /\ \A c, d, e \in S : <<c, d>> \in W /\ <<d, e>> \in W => <<c, e>> \in W
      BY <1>2, <2>2, Zenon
    <3>. QED
      BY <1>3, <1>4, <3>1, BestExists
  <2>4. \E c \in C : \A d \in C \ {c} : Assign!Better(c, d)
    <3>1. \A c \in C : c \in S
      BY <1>4
    <3>2. \A c, d : d \in C \ {c} => d \in S
      BY <3>1
    <3>. QED
      BY <2>2, <2>3, <3>1, <3>2, Zenon
  <2>. QED
    BY <2>4, Zenon
<1>5. PICK B : B = [C \in SUBSET S |-> Best(C)]
  BY Zenon
<1>6. \A C \in SUBSET S : B[C] = Best(C)
  BY <1>5, Zenon
<1>. HIDE DEF Best
<1>7. ASSUME NEW C \in SUBSET S, C # {}
      PROVE  B[C] \in C /\ \A c \in C \ {B[C]} : B[C].score >= c.score
  <2>1. PICK b : b = B[C]
    BY Zenon
  <2>2. b \in C /\ \A d \in C \ {b} : Assign!Better(b, d)
    <3>1. b = Best(C)
      BY <1>6, <2>1, Zenon
    <3>. QED
      BY <1>4, <1>7, <3>1
  <2>3. ASSUME NEW d \in C \ {b}
        PROVE  b.score >= d.score
    <3>1. b.score \in Nat /\ d.score \in Nat
      BY <1>2, <2>2
    <3>2. b.score > d.score \/ b.score = d.score
      BY <2>2, Zenon DEF Assign!Better
    <3>. QED
      BY <3>1, <3>2
  <2>. QED
    BY <2>1, <2>2, <2>3, Zenon
<1>8. PICK R : R = [C \in SUBSET S |-> Left(C)]
  BY Zenon
<1>9. ASSUME NEW C \in SUBSET S, C # {}
      PROVE  /\ R[C] = {c \in C : ~Assign!Clash(c, B[C])} /\ R[C] = Left(C)
             /\ R[C] \in SUBSET C /\ R[C] # C
  <2>1. R[C] = Left(C) /\ Left(C) = {c \in C : ~Assign!Clash(c, B[C])}
    BY <1>6, <1>8, Zenon
  <2>2. B[C] \in C /\ Assign!Clash(B[C], B[C])
    BY <1>7, <1>9, Zenon DEF Assign!Clash
  <2>. QED
    BY <2>1, <2>2, Zenon
<1>10. PICK T : Gathers(S, B, R, T)
  <2>1. \A C \in SUBSET S : C # {} => R[C] \in SUBSET C /\ R[C] # C
    BY <1>9, Zenon
  <2>. QED
    BY <1>3, <2>1, TakenExists, Zenon
<1>11. taken = Next(taken)
  <2>1. ASSUME NEW C \in SUBSET S
        PROVE  (IF C = {} THEN {} ELSE {B[C]} \cup T[R[C]])
                 = (IF C = {} THEN {} ELSE {Best(C)} \cup T[Left(C)])
    BY <1>6, <1>9, Zenon
  <2>. HIDE DEF Left
  <2>2. T = Next(T)
    BY <1>1, <1>10, <2>1, Zenon DEF Gathers
  <2>. HIDE DEF Next
  <2>. QED
    BY <2>2, Zenon
<1>12. Gathers(S, B, R, taken)
  <2>. PICK F : F = taken
    BY Zenon
  <2>1. ASSUME NEW C \in SUBSET S
        PROVE  (IF C = {} THEN {} ELSE {Best(C)} \cup F[Left(C)])
                 = (IF C = {} THEN {} ELSE {B[C]} \cup F[R[C]])
    BY <1>6, <1>9, Zenon
  <2>. HIDE DEF Left, taken
  <2>2. F = [C \in SUBSET S |-> IF C = {} THEN {} ELSE {B[C]} \cup F[R[C]]]
    BY <1>1, <1>11, <2>1, Zenon
  <2>. QED
    BY <2>2, Zenon DEF Gathers
<1>13. Assign!propose_batch_assignments = taken[S]
  BY <1>1, Zenon DEF Assign!propose_batch_assignments, Assign!propose_unique_assignments,
                     Best, Left
<1>. HIDE DEF taken, Next
<1>14. Fits(S, taken[S])
  <2>1. Chooses(S, B, R)
    BY <1>7, <1>9, Zenon DEF Chooses
  <2>. QED
    BY <1>12, <1>3, <2>1, TakenFits, Zenon
<1>. QED
  <2>1. PICK P : P = taken[S]
    BY Zenon
  <2>2. /\ \A c, d \in P : c # d => c.p # d.p /\ c.f # d.f
        /\ \A c \in S \ P : \E d \in P : Assign!Clash(c, d) /\ d.score >= c.score
    BY <1>14, <2>1, Zenon DEF Fits, Assign!Clash
  <2>. QED
    BY <1>1, <1>13, <2>1, <2>2, Zenon DEF Assign!ProposalFits

-----------------------------------------------------------------------------
(* MediaFlags.  The five sources of an answer are gone through three times;   *)
(* each loop is its five steps, and what a step keeps the loops keep.         *)

(* The loop over the sources that looks for a code takes its five steps.      *)
LEMMA CodeLoop ==
    ASSUME NEW c, NEW x
    PROVE  LET s == Media!api_media_sources(c)
               y1 == Media!CodeFlags(x, s[1])
               y2 == Media!CodeFlags(y1, s[2])
               y3 == Media!CodeFlags(y2, s[3])
               y4 == Media!CodeFlags(y3, s[4])
           IN  Media!Each(Media!CodeFlags, x, s) = Media!CodeFlags(y4, s[5])
<1>1. PICK s : s = Media!api_media_sources(c)
  BY Zenon
<1>2. Len(s) = 5
  BY <1>1 DEF Media!api_media_sources
<1>3. PICK y1 : y1 = Media!CodeFlags(x, s[1])
  BY Zenon
<1>4. PICK y2 : y2 = Media!CodeFlags(y1, s[2])
  BY Zenon
<1>5. PICK y3 : y3 = Media!CodeFlags(y2, s[3])
  BY Zenon
<1>6. PICK y4 : y4 = Media!CodeFlags(y3, s[4])
  BY Zenon
<1>7. PICK y5 : y5 = Media!CodeFlags(y4, s[5])
  BY Zenon
<1>. DEFINE Next(F) == [i \in 0..5 |-> IF i = 0 THEN x ELSE Media!CodeFlags(F[i - 1], s[i])]
            after == CHOOSE F : F = Next(F)
<1>8. after = Next(after)
  <2>1. PICK W : W = [i \in 0..5 |-> CASE i = 0 -> x [] i = 1 -> y1 [] i = 2 -> y2
                                      [] i = 3 -> y3 [] i = 4 -> y4 [] i = 5 -> y5]
    BY Zenon
  <2>2. /\ W[0] = x /\ W[1] = y1 /\ W[2] = y2 /\ W[3] = y3 /\ W[4] = y4 /\ W[5] = y5
        /\ W = [i \in 0..5 |-> W[i]]
    BY <2>1
  <2>3. ASSUME NEW i \in 0..5
        PROVE  W[i] = IF i = 0 THEN x ELSE Media!CodeFlags(W[i - 1], s[i])
    BY <1>3, <1>4, <1>5, <1>6, <1>7, <2>2
  <2>4. W = Next(W)
    BY <2>2, <2>3, Zenon
  <2>. QED
    BY <2>4, Zenon
<1>9. Media!Each(Media!CodeFlags, x, s) = after[5]
  BY <1>2, Zenon DEF Media!Each
<1>. HIDE DEF after
<1>10. after[0] = x /\ \A i \in 1..5 : after[i] = Media!CodeFlags(after[i - 1], s[i])
  BY <1>8
<1>11. after[5] = y5
  BY <1>3, <1>4, <1>5, <1>6, <1>7, <1>10
<1>. QED
  BY <1>1, <1>3, <1>4, <1>5, <1>6, <1>7, <1>9, <1>11, Zenon

(* The loop that looks for media of the customer's family.                    *)
LEMMA FamilyLoop ==
    ASSUME NEW c, NEW x
    PROVE  LET s == Media!api_media_sources(c)
               y1 == Media!FamilyFlags(Media!FamilyOf(c), x, s[1])
               y2 == Media!FamilyFlags(Media!FamilyOf(c), y1, s[2])
               y3 == Media!FamilyFlags(Media!FamilyOf(c), y2, s[3])
               y4 == Media!FamilyFlags(Media!FamilyOf(c), y3, s[4])
           IN  Media!Each(LAMBDA flags, o : Media!FamilyFlags(Media!FamilyOf(c), flags, o), x, s) = Media!FamilyFlags(Media!FamilyOf(c), y4, s[5])
<1>1. PICK s : s = Media!api_media_sources(c)
  BY Zenon
<1>2. Len(s) = 5
  BY <1>1 DEF Media!api_media_sources
<1>3. PICK y1 : y1 = Media!FamilyFlags(Media!FamilyOf(c), x, s[1])
  BY Zenon
<1>4. PICK y2 : y2 = Media!FamilyFlags(Media!FamilyOf(c), y1, s[2])
  BY Zenon
<1>5. PICK y3 : y3 = Media!FamilyFlags(Media!FamilyOf(c), y2, s[3])
  BY Zenon
<1>6. PICK y4 : y4 = Media!FamilyFlags(Media!FamilyOf(c), y3, s[4])
  BY Zenon
<1>7. PICK y5 : y5 = Media!FamilyFlags(Media!FamilyOf(c), y4, s[5])
  BY Zenon
<1>. DEFINE Next(F) == [i \in 0..5 |-> IF i = 0 THEN x ELSE Media!FamilyFlags(Media!FamilyOf(c), F[i - 1], s[i])]
            after == CHOOSE F : F = Next(F)
<1>8. after = Next(after)
  <2>1. PICK W : W = [i \in 0..5 |-> CASE i = 0 -> x [] i = 1 -> y1 [] i = 2 -> y2
                                      [] i = 3 -> y3 [] i = 4 -> y4 [] i = 5 -> y5]
    BY Zenon
  <2>2. /\ W[0] = x /\ W[1] = y1 /\ W[2] = y2 /\ W[3] = y3 /\ W[4] = y4 /\ W[5] = y5
        /\ W = [i \in 0..5 |-> W[i]]
    BY <2>1
  <2>3. ASSUME NEW i \in 0..5
        PROVE  W[i] = IF i = 0 THEN x ELSE Media!FamilyFlags(Media!FamilyOf(c), W[i - 1], s[i])
    BY <1>3, <1>4, <1>5, <1>6, <1>7, <2>2
  <2>4. W = Next(W)
    BY <2>2, <2>3, Zenon
  <2>. QED
    BY <2>4, Zenon
<1>9. Media!Each(LAMBDA flags, o : Media!FamilyFlags(Media!FamilyOf(c), flags, o), x, s) = after[5]
  BY <1>2, Zenon DEF Media!Each
<1>. HIDE DEF after
<1>10. after[0] = x /\ \A i \in 1..5 : after[i] = Media!FamilyFlags(Media!FamilyOf(c), after[i - 1], s[i])
  BY <1>8
<1>11. after[5] = y5
  BY <1>3, <1>4, <1>5, <1>6, <1>7, <1>10
<1>. QED
  BY <1>1, <1>3, <1>4, <1>5, <1>6, <1>7, <1>9, <1>11, Zenon

(* The loop that looks for the eight truth values.                            *)
LEMMA ExplicitLoop ==
    ASSUME NEW c, NEW x
    PROVE  LET s == Media!api_media_sources(c)
               y1 == Media!Explicit(x, s[1])
               y2 == Media!Explicit(y1, s[2])
               y3 == Media!Explicit(y2, s[3])
               y4 == Media!Explicit(y3, s[4])
           IN  Media!Each(Media!Explicit, x, s) = Media!Explicit(y4, s[5])
<1>1. PICK s : s = Media!api_media_sources(c)
  BY Zenon
<1>2. Len(s) = 5
  BY <1>1 DEF Media!api_media_sources
<1>3. PICK y1 : y1 = Media!Explicit(x, s[1])
  BY Zenon
<1>4. PICK y2 : y2 = Media!Explicit(y1, s[2])
  BY Zenon
<1>5. PICK y3 : y3 = Media!Explicit(y2, s[3])
  BY Zenon
<1>6. PICK y4 : y4 = Media!Explicit(y3, s[4])
  BY Zenon
<1>7. PICK y5 : y5 = Media!Explicit(y4, s[5])
  BY Zenon
<1>. DEFINE Next(F) == [i \in 0..5 |-> IF i = 0 THEN x ELSE Media!Explicit(F[i - 1], s[i])]
            after == CHOOSE F : F = Next(F)
<1>8. after = Next(after)
  <2>1. PICK W : W = [i \in 0..5 |-> CASE i = 0 -> x [] i = 1 -> y1 [] i = 2 -> y2
                                      [] i = 3 -> y3 [] i = 4 -> y4 [] i = 5 -> y5]
    BY Zenon
  <2>2. /\ W[0] = x /\ W[1] = y1 /\ W[2] = y2 /\ W[3] = y3 /\ W[4] = y4 /\ W[5] = y5
        /\ W = [i \in 0..5 |-> W[i]]
    BY <2>1
  <2>3. ASSUME NEW i \in 0..5
        PROVE  W[i] = IF i = 0 THEN x ELSE Media!Explicit(W[i - 1], s[i])
    BY <1>3, <1>4, <1>5, <1>6, <1>7, <2>2
  <2>4. W = Next(W)
    BY <2>2, <2>3, Zenon
  <2>. QED
    BY <2>4, Zenon
<1>9. Media!Each(Media!Explicit, x, s) = after[5]
  BY <1>2, Zenon DEF Media!Each
<1>. HIDE DEF after
<1>10. after[0] = x /\ \A i \in 1..5 : after[i] = Media!Explicit(after[i - 1], s[i])
  BY <1>8
<1>11. after[5] = y5
  BY <1>3, <1>4, <1>5, <1>6, <1>7, <1>10
<1>. QED
  BY <1>1, <1>3, <1>4, <1>5, <1>6, <1>7, <1>9, <1>11, Zenon

(* No step but the last takes a product away, and none sets one paid without  *)
(* setting it booked.                                                         *)
Kept(x, y) == x.booked \subseteq y.booked /\ (x.paid \subseteq x.booked => y.paid \subseteq y.booked)

LEMMA KeptTwice ==
    ASSUME NEW x, NEW y, NEW z, Kept(x, y), Kept(y, z)
    PROVE  Kept(x, z)
BY DEF Kept

LEMMA CodeKeeps == \A x, o : Kept(x, Media!CodeFlags(x, o))
BY DEF Kept, Media!CodeFlags, Media!apply_code_flags

LEMMA ApplyKeeps ==
    ASSUME NEW x, NEW f, NEW fv
    PROVE  LET y == Media!apply_family_flags(x, f, fv)
           IN  Kept(x, y) /\ \A m \in fv.booked : <<f, m>> \in y.booked
<1>. DEFINE y == Media!apply_family_flags(x, f, fv)
<1>1. /\ y.booked = x.booked \cup ({f} \X fv.booked)
      /\ y.paid = (x.paid \ {<<f, m>> : m \in {n \in fv.booked : fv.paid[n] = {FALSE}}})
                    \cup {<<f, m>> : m \in {n \in fv.booked : fv.paid[n] = {TRUE}}}
  BY DEF Media!apply_family_flags
<1>. HIDE DEF y
<1>2. \A m \in fv.booked : <<f, m>> \in y.booked
  BY <1>1
<1>3. ASSUME NEW p \in y.paid
      PROVE  p \in x.paid \/ \E m \in fv.booked : p = <<f, m>>
  BY <1>1, Zenon
<1>4. Kept(x, y)
  <2>1. x.booked \subseteq y.booked
    BY <1>1, Zenon
  <2>. QED
    BY <1>2, <1>3, <2>1, Zenon DEF Kept
<1>. QED
  BY <1>2, <1>4, Zenon DEF y

LEMMA FamilyKeeps ==
    ASSUME NEW x, NEW family, NEW o
    PROVE  /\ Kept(x, Media!FamilyFlags(family, x, o))
           /\ \A f : family = {f} =>
                \A m \in Media!extract_foto_video_paid(o).booked :
                   <<f, m>> \in Media!FamilyFlags(family, x, o).booked
<1>1. CASE family = {}
  BY <1>1 DEF Kept, Media!FamilyFlags
<1>2. CASE family # {}
  <2>1. PICK g : g = CHOOSE f \in family : TRUE
    BY Zenon
  <2>2. Media!FamilyFlags(family, x, o)
          = Media!apply_family_flags(x, g, Media!extract_foto_video_paid(o))
    BY <1>2, <2>1, Zenon DEF Media!FamilyFlags
  <2>3. \A f : family = {f} => g = f
    BY <2>1
  <2>. QED
    BY <2>2, <2>3, ApplyKeeps, Zenon
<1>. QED
  BY <1>1, <1>2

LEMMA NestedKeeps == \A c, x, f : Kept(x, Media!NestedFlags(c, x, f))
BY ApplyKeeps, KeptTwice, Zenon DEF Media!NestedFlags

(* The last step changes nothing where none of the eight values is given.     *)
LEMMA ExplicitKeeps ==
    ASSUME NEW x, NEW o, Media!At(o, "is_booked") = Media!Absent,
           Media!At(o, "is_paid") = Media!Absent
    PROVE  LET y == Media!Explicit(x, o)
           IN  /\ y.booked = x.booked \cap Media!Products
               /\ y.paid = x.paid \cap Media!Products
<1>1. \A p : Media!At(Media!Absent, p) = Media!Absent
  BY DEF Media!At, Media!Absent
<1>. QED
  BY <1>1, Zenon DEF Media!Explicit

(* A medium that is said to be booked is found.                               *)
LEMMA YesIsBooked ==
    ASSUME NEW o, NEW m \in Media!Media, Media!At(o, m) = Media!Yes
    PROVE  m \in Media!extract_foto_video_paid(o).booked
<1>1. Media!parse_booked_product(Media!At(o, m))
  BY DEF Media!parse_booked_product
<1>. QED
  BY <1>1 DEF Media!extract_foto_video_paid

(* What the answer is read as: every product that is paid is booked, and what *)
(* it names of the customer's family is booked.                               *)
LEMMA AnswerRead ==
    ASSUME NEW a, ~Media!GivenOneByOne(a)
    PROVE  LET c == Media!customer_object_from_payload(a)
               k == Media!apply_api_customer_media_flags(c)
           IN  /\ k.paid \subseteq k.booked
               /\ \A f \in Media!Families, m \in Media!Media :
                    /\ Media!family_from_typ(c) = {f}
                    /\ Media!Yes \in {Media!At(c, m), Media!At(Media!At(c, "media"), m)}
                    => <<f, m>> \in k.booked
<1>1. PICK c : c = Media!customer_object_from_payload(a)
  BY Zenon
<1>2. PICK s : s = Media!api_media_sources(c)
  BY Zenon
<1>3. /\ DOMAIN s = 1..5 /\ s[1] = c
      /\ s[2] = IF Media!At(c, "media").is = "object" THEN Media!At(c, "media")
                ELSE Media!Absent
  BY <1>2 DEF Media!api_media_sources
<1>4. \A i \in 1..5 : Media!At(s[i], "is_booked") = Media!Absent
                      /\ Media!At(s[i], "is_paid") = Media!Absent
  BY <1>1, <1>2, <1>3, Zenon DEF Media!GivenOneByOne
<1>5. PICK family : family = Media!FamilyOf(c)
  BY Zenon
<1>. DEFINE none == [booked |-> {}, paid |-> {}]
            Code(x, i) == Media!CodeFlags(x, s[i])
            Family(x, i) == Media!FamilyFlags(family, x, s[i])
            Given(x, i) == Media!Explicit(x, s[i])
            byCode == Code(Code(Code(Code(Code(none, 1), 2), 3), 4), 5)
            first == Family(byCode, 1)
            second == Family(first, 2)
            byFamily == Family(Family(Family(second, 3), 4), 5)
            byName == Media!NestedFlags(c, Media!NestedFlags(c, byFamily, "handcam"), "outside")
            all5 == Given(Given(Given(Given(Given(byName, 1), 2), 3), 4), 5)
<1>6. Media!apply_api_customer_media_flags(c) = all5
  <2>1. Media!Each(Media!CodeFlags, none, s) = byCode
    BY <1>2, CodeLoop, Zenon
  <2>2. Media!Each(LAMBDA flags, o : Media!FamilyFlags(Media!FamilyOf(c), flags, o), byCode, s)
          = byFamily
    <3>. HIDE DEF byCode
    <3>. QED
      BY <1>2, <1>5, FamilyLoop, Zenon
  <2>3. Media!Each(Media!Explicit, byName, s) = all5
    <3>. HIDE DEF byName
    <3>. QED
      BY <1>2, ExplicitLoop, Zenon
  <2>. HIDE DEF byCode, byFamily, all5
  <2>. QED
    BY <1>2, <2>1, <2>2, <2>3, Zenon DEF Media!apply_api_customer_media_flags
<1>7. Kept(none, byCode)
  BY CodeKeeps, KeptTwice, Zenon
<1>8. Kept(byCode, first) /\ Kept(first, second) /\ Kept(second, byFamily)
  <2>1. \A x, i : Kept(x, Family(x, i))
    BY FamilyKeeps, Zenon
  <2>. HIDE DEF Family, byCode
  <2>. QED
    BY <2>1, KeptTwice, Zenon
<1>9. Kept(byFamily, byName)
  <2>. HIDE DEF byFamily
  <2>. QED
    BY NestedKeeps, KeptTwice, Zenon
<1>10. all5.booked = byName.booked \cap Media!Products /\ all5.paid = byName.paid \cap Media!Products
  <2>1. ASSUME NEW x, NEW i \in 1..5
        PROVE  /\ Given(x, i).booked = x.booked \cap Media!Products
               /\ Given(x, i).paid = x.paid \cap Media!Products
    BY <1>4, ExplicitKeeps, Zenon
  <2>. HIDE DEF Given, byName
  <2>. QED
    BY <2>1
<1>. HIDE DEF all5, byName, byCode
<1>11. ASSUME NEW f \in Media!Families, NEW m \in Media!Media, Media!family_from_typ(c) = {f},
              Media!Yes \in {Media!At(c, m), Media!At(Media!At(c, "media"), m)}
       PROVE  <<f, m>> \in first.booked \/ <<f, m>> \in second.booked
  <2>1. family = {f}
    BY <1>5, <1>11 DEF Media!FamilyOf, Media!OrElse
  <2>2. CASE Media!At(c, m) = Media!Yes
    BY <1>3, <2>1, <2>2, YesIsBooked, FamilyKeeps, Zenon
  <2>3. CASE Media!At(Media!At(c, "media"), m) = Media!Yes
    <3>1. Media!At(c, "media").is = "object"
      BY <2>3 DEF Media!At, Media!Absent, Media!Yes
    <3>2. s[2] = Media!At(c, "media")
      BY <1>3, <3>1, Zenon
    <3>. HIDE DEF first
    <3>. QED
      BY <2>1, <2>3, <3>2, YesIsBooked, FamilyKeeps, Zenon
  <2>. QED
    BY <1>11, <2>2, <2>3, Zenon
<1>. HIDE DEF first, second, byFamily
<1>12. ASSUME NEW f \in Media!Families, NEW m \in Media!Media, Media!family_from_typ(c) = {f},
              Media!Yes \in {Media!At(c, m), Media!At(Media!At(c, "media"), m)}
       PROVE  <<f, m>> \in all5.booked
  <2>1. <<f, m>> \in byName.booked
    BY <1>8, <1>9, <1>11, <1>12, Zenon DEF Kept
  <2>2. <<f, m>> \in Media!Products
    BY <1>12 DEF Media!Products
  <2>. QED
    BY <1>10, <2>1, <2>2, Zenon
<1>13. all5.paid \subseteq all5.booked
  <2>1. byName.paid \subseteq byName.booked
    BY <1>7, <1>8, <1>9, Zenon DEF Kept
  <2>. QED
    BY <1>10, <2>1, Zenon
<1>. QED
  BY <1>1, <1>6, <1>12, <1>13, Zenon

(* What the customer of a job is known by is the answer, and a job whose      *)
(* marker is a mere contact never looks anything up.                          *)
MediaInv ==
    /\ phase \in {"read", "lookup", "known", "failed"}
    /\ answer = {} \/ \E a \in Payloads : answer = {a}
    /\ phase = "read" => answer = {}
    /\ phase # "known" => kunde = Media!Blank
    /\ phase = "known" => \A a \in answer :
          kunde = Media!apply_api_customer_media_flags(Media!customer_object_from_payload(a))
    /\ phase \in {"lookup", "failed"} => marker.ids # "none" \/ marker.contact # "full"

(* Nothing has been read.                                                     *)
LEMMA MediaInit == Media!Init => MediaInv
BY DEF Media!Init, MediaInv

(* The marker, the lookup, the answer and the customer's page.                *)
LEMMA MediaStep == MediaInv /\ [Media!Next]_(Media!vars) => MediaInv'
<1>. SUFFICES ASSUME MediaInv, [Media!Next]_(Media!vars)
              PROVE  MediaInv'
  BY Zenon
<1>1. CASE Media!build_kunde_from_marker
  BY <1>1 DEF MediaInv, Media!build_kunde_from_marker, Media!has_api_lookup_fields
<1>2. CASE Media!parse_api_marker_data
  BY <1>2 DEF MediaInv, Media!parse_api_marker_data, Media!has_api_lookup_fields
<1>3. CASE Media!fetch_customer_payload
  BY <1>3 DEF MediaInv, Media!fetch_customer_payload
<1>4. CASE Media!build_kunde_from_customer
  <2>1. PICK a \in answer :
          kunde' = Media!apply_api_customer_media_flags(Media!customer_object_from_payload(a))
    BY <1>4, Zenon DEF Media!build_kunde_from_customer
  <2>2. answer' = answer /\ phase' = "known" /\ UNCHANGED marker
    BY <1>4 DEF Media!build_kunde_from_customer
  <2>3. \A b \in answer : b = a
    BY <2>1 DEF MediaInv
  <2>4. \A b \in answer' :
          kunde' = Media!apply_api_customer_media_flags(Media!customer_object_from_payload(b))
    BY <2>1, <2>2, <2>3, Zenon
  <2>. QED
    BY <2>2, <2>4, Zenon DEF MediaInv
<1>5. CASE Media!lookup_customer_url
  BY <1>5 DEF MediaInv, Media!lookup_customer_url
<1>6. CASE UNCHANGED Media!vars
  BY <1>6 DEF MediaInv, Media!vars
<1>. QED
  BY <1>1, <1>2, <1>3, <1>4, <1>5, <1>6 DEF Media!Next

(* The fields of the customer object, which the service may put beside it.    *)
LEMMA CustomerFields ==
    ASSUME NEW a
    PROVE  LET c == Media!customer_object_from_payload(a)
           IN  \A k \in Media!Flat :
                 Media!At(c, k) = Media!Or(Media!At(a.customer, k), Media!At(a.outer, k))
BY DEF Media!customer_object_from_payload, Media!At, Media!Object, Media!Flat

(* What is known of a customer is sound.                                      *)
LEMMA FlagsSound ==
    ASSUME TypesNameOne
    PROVE  MediaInv => Media!FlagsAreSound
<1>. SUFFICES ASSUME MediaInv PROVE Media!FlagsAreSound
  BY Zenon
<1>1. Media!PaidIsBooked
  <2>. SUFFICES ASSUME NEW a \in answer, ~Media!GivenOneByOne(a)
                PROVE  kunde.paid \subseteq kunde.booked
    BY Zenon DEF Media!PaidIsBooked
  <2>1. CASE phase = "known"
    BY <2>1, AnswerRead, Zenon DEF MediaInv
  <2>2. CASE phase # "known"
    BY <2>2 DEF MediaInv, Media!Blank
  <2>. QED
    BY <2>1, <2>2, Zenon
<1>2. Media!NamedIsBooked
  <2>. SUFFICES ASSUME NEW a \in answer, phase = "known", ~Media!GivenOneByOne(a),
                       NEW f \in Media!Or(Media!At(a.customer, "typ"),
                                          Media!At(a.outer, "typ")).family,
                       NEW m \in Media!Media,
                       Media!Yes \in {Media!Or(Media!At(a.customer, m), Media!At(a.outer, m)),
                                      Media!At(Media!At(a.customer, "media"), m)}
                PROVE  <<f, m>> \in kunde.booked
    BY Zenon DEF Media!NamedIsBooked
  <2>1. PICK c : c = Media!customer_object_from_payload(a)
    BY Zenon
  <2>2. kunde = Media!apply_api_customer_media_flags(c)
    BY <2>1, Zenon DEF MediaInv
  <2>3. \A k \in {"typ", "media", "foto", "video"} :
          Media!At(c, k) = Media!Or(Media!At(a.customer, k), Media!At(a.outer, k))
    BY <2>1, CustomerFields DEF Media!Flat
  <2>4. Media!At(c, m) = Media!Or(Media!At(a.customer, m), Media!At(a.outer, m))
    BY <2>3 DEF Media!Media
  <2>5. Media!family_from_typ(c) = {f} /\ f \in Media!Families
    <3>1. a \in Payloads
      BY DEF MediaInv
    <3>2. Media!family_from_typ(c)
            = Media!Or(Media!At(a.customer, "typ"), Media!At(a.outer, "typ")).family
      BY <2>3 DEF Media!family_from_typ
    <3>. QED
      BY <3>1, <3>2 DEF TypesNameOne
  <2>6. Media!At(Media!At(a.customer, "media"), m) = Media!Yes
          => Media!At(Media!At(c, "media"), m) = Media!Yes
    <3>1. ASSUME Media!At(Media!At(a.customer, "media"), m) = Media!Yes
          PROVE  Media!At(c, "media") = Media!At(a.customer, "media")
      <4>1. Media!At(a.customer, "media") # Media!Absent
        BY <3>1 DEF Media!At, Media!Absent, Media!Yes
      <4>. QED
        BY <2>3, <4>1 DEF Media!Or
    <3>. QED
      BY <3>1, Zenon
  <2>7. Media!Yes \in {Media!At(c, m), Media!At(Media!At(c, "media"), m)}
    BY <2>4, <2>6, Zenon
  <2>. QED
    BY <2>1, <2>2, <2>5, <2>7, AnswerRead, Zenon
<1>3. Media!RoutedNeedsNoLookup
  BY DEF MediaInv, Media!RoutedNeedsNoLookup, Media!should_use_dropbox_client_for_marker,
         Media!is_pure_contact_marker
<1>. QED
  BY <1>1, <1>2, <1>3, Zenon DEF Media!FlagsAreSound

-----------------------------------------------------------------------------
(* CrewNames.  The name that is built has one TA, behind the guest, and       *)
(* behind it nothing but the crew, V and the dropzone; so the hits in it are  *)
(* one for the tandemmaster and at most one for the videospringer.            *)

IsSequence(s) == s \in Seq({s[i] : i \in DOMAIN s})

CrewInv ==
    /\ guest \in Guests /\ outside \in BOOLEAN
    /\ IsSequence(tokens)

(* Places in a name and in the roster have a first one.                       *)
LEMMA FirstHit ==
    ASSUME NEW S \in SUBSET (Nat \X Nat), S # {}
    PROVE  \E h \in S : \A k \in S \ {h} : Crew!Precedes(h, k)
<1>1. PICK p \in {h[1] : h \in S} : \A q \in {h[1] : h \in S} : p <= q
  <2>1. {h[1] : h \in S} \in SUBSET Nat /\ {h[1] : h \in S} # {}
    OBVIOUS
  <2>. QED
    BY <2>1, LeastOfNats, Zenon
<1>. DEFINE T == {h \in S : h[1] = p}
<1>2. PICK r \in {h[2] : h \in T} : \A q \in {h[2] : h \in T} : r <= q
  <2>1. {h[2] : h \in T} \in SUBSET Nat /\ {h[2] : h \in T} # {}
    BY <1>1
  <2>. QED
    BY <2>1, LeastOfNats, Zenon
<1>3. PICK h \in T : h[2] = r
  BY <1>2
<1>4. ASSUME NEW k \in S \ {h} PROVE Crew!Precedes(h, k)
  <2>1. h = <<p, r>> /\ k = <<k[1], k[2]>> /\ p \in Nat /\ r \in Nat
        /\ k[1] \in Nat /\ k[2] \in Nat
    BY <1>3
  <2>2. p <= k[1]
    BY <1>1
  <2>3. k[1] = p => r <= k[2]
    BY <1>2
  <2>. QED
    BY <2>1, <2>2, <2>3 DEF Crew!Precedes
<1>. QED
  BY <1>3, <1>4

(* Who is picked is in the roster.                                            *)
LEMMA PickedIsHit ==
    ASSUME NEW S \in SUBSET (Nat \X Nat), Crew!First(S) # Crew!None
    PROVE  \E h \in S : Crew!First(S) = Roster[h[2]].name
<1>1. S # {}
  BY DEF Crew!First
<1>2. PICK h : h = CHOOSE x \in S : \A k \in S \ {x} : Crew!Precedes(x, k)
  BY Zenon
<1>3. h \in S
  BY <1>1, <1>2, FirstHit, Zenon
<1>. QED
  BY <1>1, <1>2, <1>3, Zenon DEF Crew!First, Crew!Who

LEMMA PickedFirst ==
    ASSUME NEW S, NEW h \in S, \A k \in S \ {h} : Crew!Precedes(h, k),
           S \in SUBSET (Nat \X Nat)
    PROVE  Crew!First(S) = Roster[h[2]].name
<1>1. PICK x : x = CHOOSE y \in S : \A k \in S \ {y} : Crew!Precedes(y, k)
  BY Zenon
<1>2. x \in S /\ \A k \in S \ {x} : Crew!Precedes(x, k)
  BY <1>1, Zenon
<1>3. x = h
  <2>. SUFFICES ASSUME x # h PROVE FALSE
    OBVIOUS
  <2>1. Crew!Precedes(x, h) /\ Crew!Precedes(h, x)
    BY <1>2
  <2>2. /\ x[1] \in Nat /\ x[2] \in Nat /\ h[1] \in Nat /\ h[2] \in Nat
    BY <1>2
  <2>. QED
    BY <2>1, <2>2 DEF Crew!Precedes
<1>4. S # {}
  OBVIOUS
<1>. QED
  BY <1>1, <1>3, <1>4, Zenon DEF Crew!First, Crew!Who

(* The fields of the crew: nobody or a member of the roster who may.          *)
CrewFields(crew) ==
    /\ crew.tm = Crew!None \/ \E i \in DOMAIN Roster : Roster[i].tm /\ crew.tm = Roster[i].name
    /\ crew.vs = Crew!None \/ \E i \in DOMAIN Roster : Roster[i].vs /\ crew.vs = Roster[i].name
    /\ crew.dz \in {Crew!None, "G", "C"}

LEMMA LastDropzone ==
    ASSUME NEW S, NEW ts \in Seq(S)
    PROVE  Crew!dropzone_from_token(ts) \in {Crew!None, "G", "C"}
<1>. DEFINE I == {i \in 1..Len(ts) : ts[i] \in {"G", "C"}}
<1>1. PICK i : i = IF I # {} THEN Crew!Max(I) ELSE 0
  BY Zenon
<1>2. Crew!dropzone_from_token(ts) = IF i = 0 THEN Crew!None ELSE ts[i]
  BY <1>1, Zenon DEF Crew!dropzone_from_token, Crew!SelectLastInSeq
<1>3. CASE I # {}
  <2>1. Len(ts) \in Nat
    BY LenProperties
  <2>2. PICK r \in {Len(ts) - n : n \in I} : \A q \in {Len(ts) - n : n \in I} : r <= q
    <3>1. {Len(ts) - n : n \in I} \in SUBSET Nat /\ {Len(ts) - n : n \in I} # {}
      BY <1>3, <2>1
    <3>. HIDE DEF I
    <3>. QED
      BY <3>1, LeastOfNats, Zenon
  <2>3. PICK n \in I : r = Len(ts) - n
    BY <2>2
  <2>4. ASSUME NEW q \in I PROVE n >= q
    <3>1. r <= Len(ts) - q
      BY <2>2
    <3>. QED
      BY <2>1, <2>3, <3>1
  <2>. HIDE DEF I
  <2>5. i \in I
    BY <1>1, <1>3, <2>3, <2>4, Zenon DEF Crew!Max
  <2>. QED
    BY <1>2, <2>5 DEF I
<1>4. CASE I = {}
  BY <1>1, <1>2, <1>4
<1>. QED
  BY <1>3, <1>4, Zenon

LEMMA PredictedFields ==
    ASSUME NEW S, NEW ts \in Seq(S), NEW g, DOMAIN Roster \subseteq Nat
    PROVE  CrewFields(Crew!predict_from_folder_name(ts, g))
<1>. DEFINE hits == Crew!Hits(ts, g)
            tm == Crew!pick_tandemmaster(hits)
            prefer == \E i \in DOMAIN ts : ts[i] \in {"TA", "V"}
            vs == Crew!pick_videospringer(hits, tm, prefer)
<1>1. hits \in SUBSET (Nat \X Nat) /\ \A h \in hits : h[2] \in DOMAIN Roster
  BY LenProperties DEF Crew!Hits, Crew!CrewZone
<1>2. /\ Crew!predict_from_folder_name(ts, g).tm = tm
      /\ Crew!predict_from_folder_name(ts, g).vs = vs
      /\ Crew!predict_from_folder_name(ts, g).dz = Crew!dropzone_from_token(ts)
  BY DEF Crew!predict_from_folder_name
<1>. HIDE DEF hits
<1>3. tm = Crew!None \/ \E i \in DOMAIN Roster : Roster[i].tm /\ tm = Roster[i].name
  <2>. DEFINE T == {h \in hits : Crew!Who(h).tm}
  <2>1. T \in SUBSET (Nat \X Nat) /\ \A h \in T : h[2] \in DOMAIN Roster /\ Roster[h[2]].tm
    BY <1>1, Zenon DEF Crew!Who
  <2>2. tm = Crew!First(T)
    BY Zenon DEF Crew!pick_tandemmaster
  <2>. HIDE DEF T, tm
  <2>. QED
    BY <2>1, <2>2, PickedIsHit, Zenon
<1>4. vs = Crew!None \/ \E i \in DOMAIN Roster : Roster[i].vs /\ vs = Roster[i].name
  <2>. HIDE DEF tm, prefer
  <2>. DEFINE V == {h \in hits : Crew!Who(h).vs /\ Crew!Who(h).name # tm}
              behind(h) == \E t \in hits : /\ Crew!Who(t).name = tm
                                           /\ \A k \in hits : Crew!Who(k).name = Crew!Who(h).name
                                                               => Crew!Precedes(t, k)
              after == {h \in V : tm = Crew!None \/ behind(h)}
              from == IF prefer /\ after # {} THEN after ELSE V
  <2>1. from \in SUBSET (Nat \X Nat) /\ \A h \in from : h[2] \in DOMAIN Roster /\ Roster[h[2]].vs
    <3>1. V \in SUBSET (Nat \X Nat) /\ \A h \in V : h[2] \in DOMAIN Roster /\ Roster[h[2]].vs
      BY <1>1, Zenon DEF Crew!Who
    <3>2. from \subseteq V
      <4>. HIDE DEF V, behind
      <4>. QED
        BY Zenon
    <3>. HIDE DEF V, from
    <3>. QED
      BY <3>1, <3>2, Zenon
  <2>2. vs = Crew!First(from)
    BY Zenon DEF Crew!pick_videospringer
  <2>. HIDE DEF from, vs
  <2>. QED
    BY <2>1, <2>2, PickedIsHit, Zenon
<1>. HIDE DEF tm, vs
<1>. QED
  BY <1>2, <1>3, <1>4, LastDropzone, Zenon DEF CrewFields

(* What the name of the folder is: behind the guest TA and the tandemmaster,  *)
(* behind that V and the videospringer or nothing, and the dropzone.          *)
Written(n, crew, out) ==
    \E q \in Nat \ {0} :
       /\ DOMAIN n \subseteq Nat \ {0} /\ {q, q + 1} \subseteq DOMAIN n
       /\ n[q] = "TA" /\ n[q + 1] = crew.tm
       /\ \A k \in 1..(q - 1) : n[k] # "TA"
       /\ IF out /\ crew.vs # Crew!None
          THEN /\ q + 3 \in DOMAIN n /\ n[q + 3] = crew.vs
               /\ \A k \in DOMAIN n \ {q + 1, q + 3} : k > q => n[k] \in {"V", "G", "C"}
          ELSE \A k \in DOMAIN n \ {q + 1} : k > q => n[k] \in {"V", "G", "C"}

LEMMA GuestTokens ==
    ASSUME NEW g, IsFiniteSet(g)
    PROVE  Crew!SetToSeq(g) \in Seq(g)
<1>. DEFINE n == Cardinality(g)
<1>1. n \in Nat /\ ExistsBijection(1..n, g)
  BY FS_CardinalityType, Zenon
<1>2. PICK f \in Bijection(1..n, g) : TRUE
  BY <1>1, Zenon DEF ExistsBijection
<1>3. f \in [1..n -> g] /\ Crew!IsInjective(f) /\ Crew!Cardinality(g) = n
  <2>1. Crew!Cardinality(g) = n
    BY Zenon DEF Cardinality, Crew!Cardinality
  <2>. QED
    BY <1>2, <2>1 DEF Bijection, Injection, IsInjective, Crew!IsInjective
<1>4. Crew!SetToSeq(g) \in [1..n -> g]
  BY <1>3, Zenon DEF Crew!SetToSeq
<1>. QED
  BY <1>1, <1>4

(* A sequence c of the entries of s and those of t.                           *)
Joins(c, s, t) ==
    /\ Len(s) \in Nat /\ Len(t) \in Nat /\ Len(c) = Len(s) + Len(t)
    /\ \A k \in 1..Len(s) : c[k] = s[k]
    /\ \A k \in 1..Len(t) : c[Len(s) + k] = t[k]

LEMMA Concatenated ==
    ASSUME NEW S, NEW s \in Seq(S), NEW t \in Seq(S)
    PROVE  s \o t \in Seq(S) /\ Joins(s \o t, s, t)
<1>1. Len(s) \in Nat /\ Len(t) \in Nat
  BY LenProperties, Zenon
<1>2. /\ s \o t \in Seq(S) /\ Len(s \o t) = Len(s) + Len(t)
      /\ \A i \in 1 .. Len(s) + Len(t) : (s \o t)[i] =
                     IF i <= Len(s) THEN s[i] ELSE t[i - Len(s)]
  BY ConcatProperties, Zenon
<1>3. PICK c, ls, lt : c = s \o t /\ ls = Len(s) /\ lt = Len(t)
  BY Zenon
<1>4. /\ ls \in Nat /\ lt \in Nat
      /\ \A i \in 1 .. ls + lt : c[i] = IF i <= ls THEN s[i] ELSE t[i - ls]
  BY <1>1, <1>2, <1>3, Zenon
<1>5. ASSUME NEW k \in 1..ls PROVE c[k] = s[k]
  BY <1>4
<1>6. ASSUME NEW k \in 1..lt PROVE c[ls + k] = t[k]
  <2>1. ls + k \in 1 .. ls + lt /\ ~(ls + k <= ls) /\ (ls + k) - ls = k
    BY <1>4
  <2>. QED
    BY <1>4, <2>1, Zenon
<1>. QED
  BY <1>1, <1>2, <1>3, <1>5, <1>6, Zenon DEF Joins

(* Where the second part is short.                                            *)
LEMMA JoinsNone ==
    ASSUME NEW c, NEW s, Joins(c, s, <<>>)
    PROVE  Len(c) = Len(s)
<1>1. Len(<<>>) = 0
  OBVIOUS
<1>. QED
  BY <1>1 DEF Joins

LEMMA JoinsOne ==
    ASSUME NEW c, NEW s, NEW x, Joins(c, s, <<x>>)
    PROVE  Len(c) = Len(s) + 1 /\ c[Len(s) + 1] = x
<1>1. Len(<<x>>) = 1 /\ <<x>>[1] = x /\ 1 \in 1..Len(<<x>>)
  OBVIOUS
<1>. QED
  BY <1>1, Zenon DEF Joins

LEMMA JoinsTwo ==
    ASSUME NEW c, NEW s, NEW x, NEW y, Joins(c, s, <<x, y>>)
    PROVE  Len(c) = Len(s) + 2 /\ c[Len(s) + 1] = x /\ c[Len(s) + 2] = y
<1>. DEFINE t == <<x, y>>
<1>1. Len(t) = 2 /\ t[1] = x /\ t[2] = y /\ 1 \in 1..Len(t) /\ 2 \in 1..Len(t)
  OBVIOUS
<1>2. Joins(c, s, t)
  OBVIOUS
<1>. HIDE DEF t
<1>. QED
  BY <1>1, <1>2, Zenon DEF Joins

LEMMA NameIsWritten ==
    ASSUME NEW g, IsFiniteSet(g), "TA" \notin g, NEW crew, NEW out \in BOOLEAN,
           crew.dz \in {Crew!None, "G", "C"}, crew.tm # Crew!None
    PROVE  Written(Crew!build_job_folder_name(g, crew, out), crew, out)
<1>. DEFINE S == g \cup {"load", "TA", "V", "G", "C", crew.tm, crew.vs}
            vs == IF out /\ crew.vs # Crew!None THEN <<"V", crew.vs>> ELSE <<>>
            dz == IF crew.dz = Crew!None THEN <<>> ELSE <<crew.dz>>
            guests == <<"load">> \o Crew!SetToSeq(g)
            name == ((guests \o <<"TA", crew.tm>>) \o vs) \o dz
<1>1. PICK a : a = guests
  BY Zenon
<1>2. PICK b, c, n, v, z : /\ b = a \o <<"TA", crew.tm>> /\ c = b \o v /\ n = c \o z
                           /\ v = vs /\ z = dz
  BY Zenon
<1>3. Crew!build_job_folder_name(g, crew, out) = n
  BY <1>1, <1>2, Zenon DEF Crew!build_job_folder_name
<1>4. a \in Seq(S) /\ \A k \in 1..Len(a) : a[k] # "TA"
  <2>1. Crew!SetToSeq(g) \in Seq(g)
    BY GuestTokens
  <2>2. <<"load">> \in Seq({"load"} \cup g) /\ Crew!SetToSeq(g) \in Seq({"load"} \cup g)
    BY <2>1
  <2>3. a \in Seq({"load"} \cup g)
    BY <1>1, <2>2, Concatenated, Zenon
  <2>. QED
    BY <2>3
<1>5. <<"TA", crew.tm>> \in Seq(S) /\ v \in Seq(S) /\ z \in Seq(S)
  <2>1. <<>> \in Seq(S) /\ <<"V", crew.vs>> \in Seq(S) /\ <<"TA", crew.tm>> \in Seq(S)
    OBVIOUS
  <2>2. crew.dz # Crew!None => <<crew.dz>> \in Seq(S)
    OBVIOUS
  <2>. HIDE DEF S
  <2>. QED
    BY <1>2, <2>1, <2>2
<1>. HIDE DEF S
<1>6. PICK q : q = Len(a) + 1
  BY Zenon
<1>7. /\ b \in Seq(S) /\ q \in Nat \ {0} /\ Len(b) = q + 1
      /\ b[q] = "TA" /\ b[q + 1] = crew.tm
      /\ \A k \in 1..(q - 1) : b[k] # "TA"
  <2>1. /\ b \in Seq(S) /\ Len(a) \in Nat /\ Len(b) = Len(a) + 2
        /\ b[Len(a) + 1] = "TA" /\ b[Len(a) + 2] = crew.tm
        /\ \A k \in 1..Len(a) : b[k] = a[k]
    <3>1. b \in Seq(S) /\ Joins(b, a, <<"TA", crew.tm>>)
      BY <1>2, <1>4, <1>5, Concatenated, Zenon
    <3>2. /\ Len(b) = Len(a) + 2
          /\ b[Len(a) + 1] = "TA" /\ b[Len(a) + 2] = crew.tm
      BY <3>1, JoinsTwo, Zenon
    <3>. QED
      BY <3>1, <3>2, Zenon DEF Joins
  <2>2. q \in Nat \ {0} /\ q + 1 = Len(a) + 2 /\ q - 1 = Len(a)
    BY <1>6, <2>1
  <2>. QED
    BY <1>4, <1>6, <2>1, <2>2, Zenon
<1>8. /\ c \in Seq(S) /\ Joins(c, b, v) /\ n \in Seq(S) /\ Joins(n, c, z)
      /\ \A k \in 1..(q + 1) : c[k] = b[k]
  <2>1. c \in Seq(S) /\ Joins(c, b, v)
    BY <1>2, <1>5, <1>7, Concatenated, Zenon
  <2>2. n \in Seq(S) /\ Joins(n, c, z)
    BY <1>2, <1>5, <2>1, Concatenated, Zenon
  <2>. QED
    BY <1>7, <2>1, <2>2, Zenon DEF Joins
<1>9. /\ n \in Seq(S) /\ Len(c) \in Nat /\ \A k \in 1..Len(c) : n[k] = c[k]
      /\ Len(n) = Len(c) \/ (Len(n) = Len(c) + 1 /\ n[Len(c) + 1] \in {"G", "C"})
  <2>1. z = <<>> \/ \E x \in {"G", "C"} : z = <<x>>
    BY <1>2
  <2>. QED
    <3>1. Len(c) \in Nat /\ \A k \in 1..Len(c) : n[k] = c[k]
      BY <1>8, Zenon DEF Joins
    <3>2. z = <<>> => Len(n) = Len(c)
      BY <1>8, JoinsNone, Zenon
    <3>3. ASSUME NEW x, z = <<x>>
          PROVE  Len(n) = Len(c) + 1 /\ n[Len(c) + 1] = x
      <4>1. Joins(n, c, <<x>>)
        BY <1>8, <3>3
      <4>. QED
        BY <4>1, JoinsOne, Zenon
    <3>. QED
      BY <1>8, <2>1, <3>1, <3>2, <3>3, Zenon
<1>10. PICK len, d : len = Len(n) /\ d = DOMAIN n
  BY Zenon
<1>13. d = 1..len
  BY <1>9, <1>10, LenProperties, Zenon
<1>11. CASE out /\ crew.vs # Crew!None
  <2>1. Len(c) = (q + 1) + 2 /\ c[(q + 1) + 1] = "V" /\ c[(q + 1) + 2] = crew.vs
    <3>1. v = <<"V", crew.vs>>
      BY <1>2, <1>11
    <3>2. Joins(c, b, <<"V", crew.vs>>)
      BY <1>8, <3>1
    <3>3. Len(c) = Len(b) + 2 /\ c[Len(b) + 1] = "V" /\ c[Len(b) + 2] = crew.vs
      BY <3>2, JoinsTwo, Zenon
    <3>. QED
      BY <1>7, <3>3, Zenon
  <2>2. Len(c) = q + 3 /\ c[q + 2] = "V" /\ c[q + 3] = crew.vs
    BY <1>7, <2>1
  <2>3. /\ n[q] = "TA" /\ n[q + 1] = crew.tm /\ n[q + 2] = "V" /\ n[q + 3] = crew.vs
        /\ \A k \in 1..(q - 1) : n[k] # "TA"
    BY <1>7, <1>8, <1>9, <2>2
  <2>4. len \in {q + 3, q + 4} /\ (len = q + 4 => n[q + 4] \in {"G", "C"})
    BY <1>7, <1>9, <1>10, <2>2
  <2>5. ASSUME NEW k \in d \ {q + 1, q + 3}, k > q
        PROVE  n[k] \in {"V", "G", "C"}
    <3>1. k \in {q + 2, q + 4} /\ (k = q + 4 => len = q + 4)
      BY <1>7, <1>13, <2>4, <2>5
    <3>. QED
      BY <2>3, <2>4, <3>1, Zenon
  <2>6. d \subseteq Nat \ {0} /\ {q, q + 1} \subseteq d /\ q + 3 \in d
    BY <1>7, <2>4, <1>13
  <2>. QED
    BY <1>3, <1>7, <1>10, <1>11, <2>3, <2>5, <2>6, Zenon DEF Written
<1>12. CASE ~(out /\ crew.vs # Crew!None)
  <2>1. Len(c) = q + 1
    <3>1. v = <<>>
      BY <1>2, <1>12
    <3>. QED
      BY <1>7, <1>8, <3>1, JoinsNone, Zenon
  <2>2. /\ n[q] = "TA" /\ n[q + 1] = crew.tm
        /\ \A k \in 1..(q - 1) : n[k] # "TA"
    BY <1>7, <1>8, <1>9, <2>1
  <2>3. len \in {q + 1, q + 2} /\ (len = q + 2 => n[q + 2] \in {"G", "C"})
    BY <1>7, <1>9, <1>10, <2>1
  <2>4. ASSUME NEW k \in d \ {q + 1}, k > q
        PROVE  n[k] \in {"V", "G", "C"}
    <3>1. k = q + 2 /\ len = q + 2
      BY <1>7, <1>13, <2>3, <2>4
    <3>. QED
      BY <2>3, <3>1, Zenon
  <2>5. d \subseteq Nat \ {0} /\ {q, q + 1} \subseteq d
    BY <1>7, <2>3, <1>13
  <2>. QED
    BY <1>3, <1>7, <1>10, <1>12, <2>2, <2>4, <2>5, Zenon DEF Written
<1>. QED
  BY <1>11, <1>12, Zenon

(* What is written is read back, whoever the guest is.                        *)
LEMMA WrittenIsRead ==
    ASSUME RosterIsPlain, NEW n, NEW g, NEW crew, NEW out, Written(n, crew, out),
           CrewFields(crew), crew.tm \notin {Crew!None, crew.vs}
    PROVE  LET again == Crew!predict_from_folder_name(n, g)
           IN  again.tm = crew.tm /\ (out => again.vs = crew.vs)
<1>1. PICK q \in Nat \ {0} :
         /\ DOMAIN n \subseteq Nat \ {0} /\ {q, q + 1} \subseteq DOMAIN n
         /\ n[q] = "TA" /\ n[q + 1] = crew.tm
         /\ \A k \in 1..(q - 1) : n[k] # "TA"
         /\ IF out /\ crew.vs # Crew!None
            THEN /\ q + 3 \in DOMAIN n /\ n[q + 3] = crew.vs
                 /\ \A k \in DOMAIN n \ {q + 1, q + 3} : k > q => n[k] \in {"V", "G", "C"}
            ELSE \A k \in DOMAIN n \ {q + 1} : k > q => n[k] \in {"V", "G", "C"}
  BY Zenon DEF Written
<1>2. PICK i \in DOMAIN Roster : Roster[i].tm /\ crew.tm = Roster[i].name
  BY DEF CrewFields
<1>. DEFINE hits == Crew!Hits(n, g)
            tm == Crew!pick_tandemmaster(hits)
            prefer == \E k \in DOMAIN n : n[k] \in {"TA", "V"}
            vs == Crew!pick_videospringer(hits, tm, prefer)
            tms == {h \in hits : Crew!Who(h).tm}
            vss == {h \in hits : Crew!Who(h).vs /\ Crew!Who(h).name # tm}
<1>3. /\ Crew!predict_from_folder_name(n, g).tm = tm
      /\ Crew!predict_from_folder_name(n, g).vs = vs
  BY DEF Crew!predict_from_folder_name
<1>4. \A k \in DOMAIN n : k \in Crew!CrewZone(n, g) <=> k > q /\ ~Crew!Skipped(n[k])
  <2>1. Crew!Structured(n)
    BY <1>1 DEF Crew!Structured
  <2>2. ASSUME NEW k \in DOMAIN n
        PROVE  (\E j \in 1..(k - 1) : n[j] = "TA") <=> k > q
    <3>1. k \in Nat /\ (k > q => q \in 1..(k - 1))
      BY <1>1
    <3>2. ASSUME ~(k > q), NEW j \in 1..(k - 1) PROVE j \in 1..(q - 1)
      BY <3>1, <3>2
    <3>. QED
      BY <1>1, <3>1, <3>2, Zenon
  <2>. QED
    BY <2>1, <2>2, Zenon DEF Crew!CrewZone
<1>5. \A k \in DOMAIN n, j \in DOMAIN Roster :
         <<k, j>> \in hits <=> /\ k > q /\ ~Crew!Skipped(n[k])
                              /\ Crew!matches_token(Roster[j], n[k])
  BY <1>4 DEF Crew!Hits
<1>6. hits \in SUBSET ((DOMAIN n) \X (DOMAIN Roster))
  BY DEF Crew!Hits, Crew!CrewZone
<1>. HIDE DEF hits
<1>7. \A t \in {"V", "G", "C"} : Crew!Skipped(t)
  BY DEF Crew!Skipped
<1>8. \A j \in DOMAIN Roster : Crew!matches_token(Roster[j], Roster[j].name)
  BY DEF Crew!matches_token
<1>9. /\ <<q + 1, i>> \in hits /\ hits \in SUBSET (Nat \X Nat)
      /\ \A k, j : <<k, j>> \in hits => k >= q + 1 /\ (k = q + 1 => j = i)
  <2>1. ~Crew!Skipped(n[q + 1]) /\ Crew!matches_token(Roster[i], n[q + 1]) /\ q + 1 > q
    BY <1>1, <1>2, <1>8 DEF RosterIsPlain
  <2>2. <<q + 1, i>> \in hits
    BY <1>1, <1>2, <1>5, <2>1
  <2>3. \A k, j : <<k, j>> \in hits => k \in DOMAIN n /\ j \in DOMAIN Roster
    BY <1>6
  <2>4. ASSUME NEW k, NEW j, <<k, j>> \in hits
        PROVE  k >= q + 1 /\ (k = q + 1 => j = i)
    BY <1>1, <1>2, <1>5, <2>3, <2>4 DEF RosterIsPlain
  <2>5. hits \in SUBSET (Nat \X Nat)
    BY <1>1, <1>6 DEF RosterIsPlain
  <2>. QED
    BY <2>2, <2>4, <2>5
<1>10. tm = crew.tm
  <2>1. <<q + 1, i>> \in tms /\ tms \in SUBSET (Nat \X Nat)
    BY <1>2, <1>9 DEF Crew!Who
  <2>2. \A h \in tms \ {<<q + 1, i>>} : Crew!Precedes(<<q + 1, i>>, h)
    BY <1>9 DEF Crew!Precedes
  <2>3. Crew!First(tms) = Roster[i].name
    <3>. HIDE DEF tms
    <3>. QED
      BY <2>1, <2>2, PickedFirst
  <2>. QED
    BY <1>2, <2>3, Zenon DEF Crew!pick_tandemmaster
<1>. HIDE DEF tm
<1>11. vs = Crew!First(vss) \/ \E s \in SUBSET vss : s # {} /\ vs = Crew!First(s)
  <2>. HIDE DEF prefer
  <2>. DEFINE behind(h) == \E t \in hits : /\ Crew!Who(t).name = tm
                                           /\ \A k \in hits : Crew!Who(k).name = Crew!Who(h).name
                                                               => Crew!Precedes(t, k)
              after == {h \in vss : tm = Crew!None \/ behind(h)}
  <2>1. vs = Crew!First(IF prefer /\ after # {} THEN after ELSE vss)
    BY Zenon DEF Crew!pick_videospringer
  <2>2. after \in SUBSET vss
    <3>. HIDE DEF vss, behind
    <3>. QED
      OBVIOUS
  <2>. HIDE DEF after, vss, vs
  <2>. QED
    BY <2>1, <2>2, Zenon
<1>12. ASSUME out PROVE vs = crew.vs
  <2>1. CASE crew.vs = Crew!None
    <3>1. \A h \in hits : h = <<q + 1, i>>
      BY <1>1, <1>5, <1>6, <1>7, <1>9, <2>1
    <3>2. vss = {}
      BY <1>2, <1>10, <3>1 DEF Crew!Who
    <3>. HIDE DEF vss, vs
    <3>. QED
      BY <1>11, <2>1, <3>2 DEF Crew!First
  <2>2. CASE crew.vs # Crew!None
    <3>1. PICK j \in DOMAIN Roster : Roster[j].vs /\ crew.vs = Roster[j].name
      BY <2>2 DEF CrewFields
    <3>2. /\ q + 3 \in DOMAIN n /\ n[q + 3] = crew.vs
          /\ \A k \in DOMAIN n \ {q + 1, q + 3} : k > q => n[k] \in {"V", "G", "C"}
      BY <1>1, <1>12, <2>2
    <3>3. ~Crew!Skipped(n[q + 3]) /\ Crew!matches_token(Roster[j], n[q + 3]) /\ q + 3 > q
      BY <1>8, <3>1, <3>2 DEF RosterIsPlain
    <3>4. <<q + 3, j>> \in hits
      BY <1>5, <3>2, <3>3
    <3>5. ASSUME NEW h \in hits PROVE h \in {<<q + 1, i>>, <<q + 3, j>>}
      <4>1. PICK k \in DOMAIN n, m \in DOMAIN Roster : h = <<k, m>>
        BY <1>6
      <4>2. k > q /\ ~Crew!Skipped(n[k]) /\ Crew!matches_token(Roster[m], n[k])
        BY <1>5, <4>1
      <4>3. k \in {q + 1, q + 3}
        BY <1>7, <3>2, <4>2
      <4>4. k = q + 1 => m = i
        BY <1>9, <4>1
      <4>5. k = q + 3 => m = j
        BY <3>1, <3>2, <4>2, Zenon DEF RosterIsPlain
      <4>. QED
        BY <4>1, <4>3, <4>4, <4>5
    <3>6. vss = {<<q + 3, j>>}
      <4>1. Crew!Who(<<q + 3, j>>).vs /\ Crew!Who(<<q + 3, j>>).name = crew.vs
            /\ Crew!Who(<<q + 1, i>>).name = crew.tm
        BY <1>2, <3>1 DEF Crew!Who
      <4>. QED
        BY <1>10, <3>4, <3>5, <4>1, Zenon
    <3>7. \A s \in SUBSET vss : s # {} => s = {<<q + 3, j>>}
      BY <3>6
    <3>8. Crew!First({<<q + 3, j>>}) = Roster[j].name
      <4>1. {<<q + 3, j>>} \in SUBSET (Nat \X Nat)
        BY DEF RosterIsPlain
      <4>2. \A k \in {<<q + 3, j>>} \ {<<q + 3, j>>} : Crew!Precedes(<<q + 3, j>>, k)
        OBVIOUS
      <4>3. Crew!First({<<q + 3, j>>}) = Roster[<<q + 3, j>>[2]].name
        <5>. DEFINE only == {<<q + 3, j>>}
        <5>1. <<q + 3, j>> \in only
          OBVIOUS
        <5>. HIDE DEF only
        <5>. QED
          BY <4>1, <4>2, <5>1, PickedFirst, Zenon DEF only
      <4>. QED
        BY <4>3
    <3>. HIDE DEF vss, vs
    <3>. QED
      BY <1>11, <3>1, <3>6, <3>7, <3>8, Zenon
  <2>. QED
    BY <2>1, <2>2
<1>. HIDE DEF vs
<1>. QED
  BY <1>3, <1>10, <1>12, Zenon

(* A name that is a sequence.                                                 *)
LEMMA CrewInit == Crew!Init => CrewInv
<1>. SUFFICES ASSUME Crew!Init PROVE CrewInv
  OBVIOUS
<1>1. PICK k \in 1..MaxTokens : tokens \in [1..k -> Crew!Tokens]
  BY Zenon DEF Crew!Init
<1>2. tokens \in [1..k -> {tokens[i] : i \in DOMAIN tokens}] /\ k \in Nat
  BY <1>1
<1>3. guest \in Guests /\ outside \in BOOLEAN
  BY DEF Crew!Init
<1>. QED
  BY <1>2, <1>3 DEF CrewInv, IsSequence

(* Predicted or confirmed, what is written is of the roster.                  *)
LEMMA FieldsResolved ==
    ASSUME NEW override \in Crew!Overrides, CrewInv, RosterIsPlain
    PROVE  CrewFields(Crew!resolve_crew_fields(tokens, guest, override))
<1>1. CASE override = <<>>
  <2>1. DOMAIN Roster \subseteq Nat
    BY DEF RosterIsPlain
  <2>2. CrewFields(Crew!predict_from_folder_name(tokens, guest))
    BY <2>1, PredictedFields, Zenon DEF CrewInv, IsSequence
  <2>. QED
    BY <1>1, <2>2, Zenon DEF Crew!resolve_crew_fields
<1>2. CASE override # <<>>
  <2>1. PICK t \in {Crew!None} \cup {Roster[i].name : i \in {j \in DOMAIN Roster : Roster[j].tm}},
             v \in {Crew!None} \cup {Roster[i].name : i \in {j \in DOMAIN Roster : Roster[j].vs}},
             z \in {Crew!None, "G", "C"} : override = <<[tm |-> t, vs |-> v, dz |-> z]>>
    BY <1>2 DEF Crew!Overrides
  <2>2. Crew!resolve_crew_fields(tokens, guest, override) = [tm |-> t, vs |-> v, dz |-> z]
    BY <1>2, <2>1 DEF Crew!resolve_crew_fields
  <2>. QED
    BY <2>1, <2>2 DEF CrewFields
<1>. QED
  BY <1>1, <1>2

(* Whatever is built is a sequence.                                           *)
LEMMA NameIsSequence ==
    ASSUME NEW g, IsFiniteSet(g), NEW crew, NEW out
    PROVE  IsSequence(Crew!build_job_folder_name(g, crew, out))
<1>. DEFINE S == g \cup {"load", "TA", "V", crew.tm, crew.vs, crew.dz}
            t == IF crew.tm = Crew!None THEN <<>> ELSE <<"TA", crew.tm>>
            v == IF out /\ crew.vs # Crew!None THEN <<"V", crew.vs>> ELSE <<>>
            z == IF crew.dz = Crew!None THEN <<>> ELSE <<crew.dz>>
<1>1. PICK n : n = Crew!build_job_folder_name(g, crew, out)
  BY Zenon
<1>2. n = (((<<"load">> \o Crew!SetToSeq(g)) \o t) \o v) \o z
  BY <1>1, Zenon DEF Crew!build_job_folder_name
<1>3. t \in Seq(S) /\ v \in Seq(S) /\ z \in Seq(S) /\ <<"load">> \in Seq(S)
  <2>1. /\ <<>> \in Seq(S) /\ <<"TA", crew.tm>> \in Seq(S) /\ <<"V", crew.vs>> \in Seq(S)
        /\ <<crew.dz>> \in Seq(S) /\ <<"load">> \in Seq(S)
    OBVIOUS
  <2>. HIDE DEF S
  <2>. QED
    BY <2>1
<1>4. Crew!SetToSeq(g) \in Seq(S)
  <2>1. Crew!SetToSeq(g) \in Seq(g)
    BY GuestTokens
  <2>. QED
    BY <2>1
<1>. HIDE DEF S, t, v, z
<1>5. n \in Seq(S)
  <2>1. <<"load">> \o Crew!SetToSeq(g) \in Seq(S)
    BY <1>3, <1>4, Concatenated, Zenon
  <2>2. (<<"load">> \o Crew!SetToSeq(g)) \o t \in Seq(S)
    BY <1>3, <2>1, Concatenated, Zenon
  <2>3. ((<<"load">> \o Crew!SetToSeq(g)) \o t) \o v \in Seq(S)
    BY <1>3, <2>2, Concatenated, Zenon
  <2>. QED
    BY <1>2, <1>3, <2>3, Concatenated, Zenon
<1>6. PICK len : len = Len(n)
  BY Zenon
<1>7. len \in Nat /\ n \in [1..len -> S]
  BY <1>5, <1>6, LenProperties, Zenon
<1>8. n \in [1..len -> {n[i] : i \in DOMAIN n}]
  BY <1>7
<1>9. IsSequence(n)
  BY <1>7, <1>8 DEF IsSequence
<1>. QED
  BY <1>1, <1>9, Zenon

(* Every step keeps a sequence for a name, and reads back what it wrote.      *)
LEMMA CrewStep ==
    ASSUME RosterIsPlain, GuestsArePlain
    PROVE  CrewInv /\ [Crew!Next]_(Crew!vars)
             => CrewInv' /\ [Crew!CrewReadBack]_(Crew!vars)
<1>. SUFFICES ASSUME CrewInv, [Crew!Next]_(Crew!vars)
              PROVE  CrewInv' /\ Crew!CrewReadBack
  BY Zenon
<1>1. IsFiniteSet(guest) /\ "TA" \notin guest /\ outside \in BOOLEAN
  BY DEF CrewInv, GuestsArePlain
<1>2. CrewInv'
  <2>1. CASE Crew!Next
    <3>1. PICK override \in Crew!Overrides : Crew!Rename(override)
      BY <2>1, Zenon DEF Crew!Next
    <3>2. PICK crew : crew = Crew!resolve_crew_fields(tokens, guest, override)
      BY Zenon
    <3>3. tokens' = Crew!build_job_folder_name(guest, crew, outside)
      BY <3>1, <3>2, Zenon DEF Crew!Rename
    <3>4. IsSequence(tokens')
      BY <1>1, <3>3, NameIsSequence, Zenon
    <3>5. guest' = guest /\ outside' = outside
      BY <3>1 DEF Crew!Rename
    <3>. QED
      BY <3>4, <3>5, Zenon DEF CrewInv
  <2>2. CASE UNCHANGED Crew!vars
    BY <2>2 DEF CrewInv, Crew!vars
  <2>. QED
    BY <2>1, <2>2, Zenon
<1>3. ASSUME NEW override \in Crew!Overrides, Crew!Rename(override)
      PROVE  LET crew == Crew!resolve_crew_fields(tokens, guest, override)
                 again == Crew!predict_from_folder_name(tokens', guest)
             IN  crew.tm \notin {Crew!None, crew.vs} =>
                   again.tm = crew.tm /\ (outside => again.vs = crew.vs)
  <2>1. PICK crew : crew = Crew!resolve_crew_fields(tokens, guest, override)
    BY Zenon
  <2>2. CrewFields(crew)
    BY <2>1, FieldsResolved, Zenon
  <2>3. ASSUME crew.tm \notin {Crew!None, crew.vs}
        PROVE  Written(tokens', crew, outside)
    <3>1. tokens' = Crew!build_job_folder_name(guest, crew, outside)
      BY <1>3, <2>1, Zenon DEF Crew!Rename
    <3>2. crew.tm # Crew!None /\ crew.dz \in {Crew!None, "G", "C"}
      BY <2>2, <2>3, Zenon DEF CrewFields
    <3>. QED
      BY <1>1, <3>1, <3>2, NameIsWritten, Zenon
  <2>. QED
    BY <2>1, <2>2, <2>3, WrittenIsRead, Zenon
<1>4. Crew!CrewReadBack
  BY <1>3, Zenon DEF Crew!CrewReadBack
<1>. QED
  BY <1>2, <1>4, Zenon

-----------------------------------------------------------------------------
(* Side by side.  A behaviour of DeskSpec is one of the component its part    *)
(* names, so what was proved of each holds of it.                             *)

(* A behaviour begins as its component does.                                  *)
LEMMA PartInit ==
    ASSUME DeskInit
    PROVE  /\ part = "status" => Status!Init
           /\ part = "bridge" => Bridge!Init
           /\ part = "flags" => Flags!Init
           /\ part = "stability" => Stability!Init
           /\ part = "assign" => Assign!Init
           /\ part = "profiles" => Dropbox!Init
           /\ part = "staging" => Staging!Init
           /\ part = "presence" => Presence!Init
           /\ part = "media" => Media!Init
           /\ part = "crew" => Crew!Init
BY DEF DeskInit, NoOthers

(* Its steps are steps of that component, and it stays with it.               *)
LEMMA PartNext ==
    ASSUME [DeskNext]_all
    PROVE  /\ part' = part
           /\ part = "status" => [Status!Next]_(Status!vars)
           /\ part = "bridge" => [Bridge!Next]_(Bridge!vars)
           /\ part = "flags" => [Flags!Next]_(Flags!vars)
           /\ part = "stability" => [Stability!Next]_(Stability!vars)
           /\ part = "assign" => [Assign!Next]_(Assign!vars)
           /\ part = "profiles" => [Dropbox!Next]_(Dropbox!vars)
           /\ part = "staging" => [Staging!Next]_(Staging!vars)
           /\ part = "presence" => [Presence!Next]_(Presence!vars)
           /\ part = "media" => [Media!Next]_(Media!vars)
           /\ part = "crew" => [Crew!Next]_(Crew!vars)
<1>1. CASE DeskNext
  BY <1>1 DEF DeskNext
<1>2. CASE UNCHANGED all
  <2>1. UNCHANGED Status!vars
    BY <1>2 DEF all, statusOwn, Status!vars
  <2>2. UNCHANGED Bridge!vars
    BY <1>2 DEF all, bridgeOwn, Bridge!vars
  <2>3. UNCHANGED Flags!vars
    BY <1>2 DEF all, flagsOwn, Flags!vars
  <2>4. UNCHANGED Stability!vars
    BY <1>2 DEF all, stabilityOwn, Stability!vars, Stability!world
  <2>5. UNCHANGED Assign!vars
    BY <1>2 DEF all, assignOwn, Assign!vars
  <2>6. UNCHANGED Dropbox!vars
    BY <1>2 DEF all, dropboxOwn, Dropbox!vars
  <2>7. UNCHANGED Staging!vars
    BY <1>2 DEF all, stagingOwn, Staging!vars
  <2>8. UNCHANGED Presence!vars
    BY <1>2 DEF all, presenceOwn, Presence!vars, Presence!presence
  <2>9. UNCHANGED Media!vars
    BY <1>2 DEF all, mediaOwn, Media!vars
  <2>10. UNCHANGED Crew!vars
    BY <1>2 DEF all, crewOwn, Crew!vars
  <2>11. UNCHANGED part
    BY <1>2 DEF all
  <2>. QED
    BY <2>1, <2>2, <2>3, <2>4, <2>5, <2>6, <2>7, <2>8, <2>9, <2>10, <2>11
<1>. QED
  BY <1>1, <1>2

(* At the desk: ATS is not told that a job is completed before it was         *)
(* (JobStatus).                                                               *)
THEOREM DeskTellsNoFalseCompletion ==
    DeskSpec => []CompletedIsTrue
<1>. DEFINE Inv == part = "status" => StatusInv
<1>1. DeskInit => Inv
  BY PartInit, StatusInit
<1>2. Inv /\ [DeskNext]_all => Inv'
  BY PartNext, StatusStep
<1>3. Inv => CompletedIsTrue
  BY StatusTold DEF CompletedIsTrue
<1>. HIDE DEF Inv
<1>. QED
  BY <1>1, <1>2, <1>3, PTL DEF DeskSpec

(* The bridge that is held is the one that listens, but for those about to be *)
(* held (BridgeClients).                                                      *)
THEOREM DeskHoldsItsBridge ==
    ASSUME Nobody \notin Appliers
    PROVE  DeskSpec => []BridgeIsSound
<1>. DEFINE Inv == part = "bridge" => BridgeInv
<1>1. DeskInit => Inv
  BY PartInit, BridgeInit
<1>2. Inv /\ [DeskNext]_all => Inv'
  BY PartNext, BridgeStep
<1>3. Inv => BridgeIsSound
  BY DEF BridgeInv, BridgeIsSound
<1>. HIDE DEF Inv
<1>. QED
  BY <1>1, <1>2, <1>3, PTL DEF DeskSpec

(* What goes up with an order is all that was picked (AppendStaging).         *)
THEOREM DeskStagesAll ==
    ASSUME PicksShape
    PROVE  DeskSpec => []StageIsSound
<1>. DEFINE Inv == part = "staging" => StageInv
<1>1. DeskInit => Inv
  BY PartInit, StageInit
<1>2. Inv /\ [DeskNext]_all => Inv'
  BY PartNext, StageStep
<1>3. Inv => StageIsSound
  BY StagedWhole DEF StageIsSound
<1>. HIDE DEF Inv
<1>. QED
  BY <1>1, <1>2, <1>3, PTL DEF DeskSpec

(* No slow answer of the customer API is written over a newer one             *)
(* (BookingFlags).                                                            *)
THEOREM DeskFlagsGoForward ==
    ASSUME Nobody \notin Callers
    PROVE  DeskSpec => FlagsForward
<1>. DEFINE Inv == part = "flags" => FlagsInv
<1>1. DeskInit => Inv
  BY PartInit, FlagsInit
<1>2. Inv /\ [DeskNext]_all
        => Inv' /\ [part = "flags" => Flags!FlagsForward]_(Flags!vars)
  BY PartNext, FlagsStep
<1>. HIDE DEF Inv
<1>. QED
  BY <1>1, <1>2, PTL DEF DeskSpec, FlagsForward

(* A folder claimed after its wait was quiet for the set time                 *)
(* (FolderStability).                                                         *)
THEOREM DeskClaimsQuietFolders ==
    ASSUME Waits \subseteq Nat
    PROVE  DeskSpec => StableIsQuiet
<1>. DEFINE Inv == part = "stability" => StabilityInv /\ ClaimInv
<1>1. DeskInit => Inv
  BY PartInit, StabilityInit
<1>2. Inv /\ [DeskNext]_all
        => Inv' /\ [part = "stability" => Stability!StableIsQuiet]_(Stability!vars)
  BY PartNext, StabilityStep
<1>. HIDE DEF Inv
<1>. QED
  BY <1>1, <1>2, PTL DEF DeskSpec, StableIsQuiet

(* The monitor claims no folder half way through an assignment                *)
(* (FolderAssign).                                                            *)
THEOREM DeskClaimsWholeAssignments ==
    DeskSpec => NeverHalfAssigned
<1>. DEFINE Inv == part = "assign" => AssignInv
<1>1. DeskInit => Inv
  BY PartInit, AssignInit
<1>2. Inv /\ [DeskNext]_all
        => Inv' /\ [part = "assign" => Assign!NeverHalfAssigned]_(Assign!vars)
  BY PartNext, AssignStep, AssignClaim
<1>. HIDE DEF Inv
<1>. QED
  BY <1>1, <1>2, PTL DEF DeskSpec, NeverHalfAssigned

(* A profile keeps its account, settings and clients agree which one is       *)
(* active (DropboxAccounts).                                                  *)
THEOREM DeskKeepsProfiles ==
    ASSUME AccountsApart
    PROVE  DeskSpec => ProfilesAreSound
<1>. DEFINE Inv == part = "profiles" => AccountInv
<1>1. DeskInit => Inv
  BY PartInit, AccountInit
<1>2. Inv /\ [DeskNext]_all
        => Inv' /\ [part = "profiles" => Dropbox!ProfilesAreSound]_(Dropbox!vars)
  BY PartNext, AccountStep
<1>. HIDE DEF Inv
<1>. QED
  BY <1>1, <1>2, PTL DEF DeskSpec, ProfilesAreSound

(* An installation is shown to the operator with the jobs it announced and    *)
(* all of its activity, whatever hosts, jobs, requests, removals, prunes and  *)
(* restarts there are (record_event, upsert_job_origin, get_jobs_by_host,     *)
(* get_host_activity).                                                        *)
THEOREM DeskShowsPresence ==
    ASSUME Nobody \notin Hosts, Unnamed \in Hosts, IsFiniteSet(Jobs),
           PageSize \in Nat \ {0}, Limit \in Nat \ {0}, MaxRaw \in Nat \ {0}
    PROVE  DeskSpec => []PresenceIsTrue
<1>. DEFINE Inv == part = "presence" => OriginIsAnnouncer
<1>1. DeskInit => Inv
  BY PartInit, OriginInit
<1>2. Inv /\ [DeskNext]_all => Inv'
  BY PartNext, OriginStep
<1>3. Inv => PresenceIsTrue
  BY JobsShown, ActivityShown DEF PresenceIsTrue, Presence!PresenceIsTrue
<1>. HIDE DEF Inv
<1>. QED
  BY <1>1, <1>2, <1>3, PTL DEF DeskSpec

(* What the batch dialog proposes is one folder a customer and one customer a *)
(* folder, and passes nobody over for a folder that suits somebody less       *)
(* (propose_unique_assignments).                                              *)
THEOREM DeskProposesFairly ==
    ASSUME IsFiniteSet(People), IsFiniteSet(Folders), ListsAreSorted
    PROVE  DeskSpec => []ProposalFits
<1>1. ProposalFits
  BY ProposalIsFit DEF ProposalFits
<1>. QED
  BY <1>1, PTL

(* No original is delivered unpaid, nothing that the answer names is lost,    *)
(* and no job waits for a lookup its client cannot make (MediaFlags).         *)
THEOREM DeskReadsFlags ==
    ASSUME TypesNameOne
    PROVE  DeskSpec => []FlagsAreSound
<1>. DEFINE Inv == part = "media" => MediaInv
<1>1. DeskInit => Inv
  BY PartInit, MediaInit
<1>2. Inv /\ [DeskNext]_all => Inv'
  BY PartNext, MediaStep
<1>3. Inv => FlagsAreSound
  BY FlagsSound DEF FlagsAreSound
<1>. HIDE DEF Inv
<1>. QED
  BY <1>1, <1>2, <1>3, PTL DEF DeskSpec

(* The crew that was confirmed or predicted for a folder is predicted again   *)
(* from the name it was given, also for a guest who is called like one of the *)
(* crew (build_job_folder_name, predict_from_folder_name).                    *)
THEOREM DeskReadsItsNames ==
    ASSUME RosterIsPlain, GuestsArePlain
    PROVE  DeskSpec => CrewReadBack
<1>. DEFINE Inv == part = "crew" => CrewInv
<1>1. DeskInit => Inv
  BY PartInit, CrewInit
<1>2. Inv /\ [DeskNext]_all
        => Inv' /\ [part = "crew" => Crew!CrewReadBack]_(Crew!vars)
  BY PartNext, CrewStep
<1>. HIDE DEF Inv
<1>. QED
  BY <1>1, <1>2, PTL DEF DeskSpec, CrewReadBack
=============================================================================
