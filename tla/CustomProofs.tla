------------------------------ MODULE CustomProofs ------------------------------
(***************************************************************************)
(* The Custom API client for any number of folders, files, chunk and file  *)
(* sizes, failures and crashes: a session is finalised only when it has    *)
(* every file, a customer is sent the folder's own link, and no second     *)
(* order is made of a folder while the code has the first in sight.        *)
(***************************************************************************)
EXTENDS CustomApi, Integers, TLAPS

Steps == {"rest", "looked", "begin", "open", "put", "submit", "created", "poll",
          "file", "last", "finalize", "link", "failed"}

UserState ==
    [pc : Steps, f : All \cup {None}, i : 1..(NFiles + 1), off : Int,
     prev : Profiles \cup {None}, db : Profiles \cup {None}]

Checkpoint ==
    [phase : {"uploading", "finalizing", "manifest_pending"}, i : 1..(NFiles + 1),
     off : Int, order : All \cup {None}, url : All \cup {None},
     db : Profiles \cup {None}]

SessionState == [got : [FilesOf -> Int], done : SUBSET FilesOf, final : BOOLEAN]

ClientTypes ==
    /\ mode \in {"proxied", "direct"}
    /\ lastUrl \in All \cup {None} /\ lastSession \in All \cup {None}
    /\ lastOrder \in All \cup {None}
    /\ slot \in Profiles /\ active \in Profiles

StoreTypes ==
    /\ ck \in [All -> SUBSET Checkpoint]
    /\ \A f \in All : \A c, d \in ck[f] : c = d
    /\ session \in [All -> SessionState]
    /\ link \in [All -> All \cup {None}]
    /\ orders \in [All -> Nat]

\* The worker's jobs and the append have folders of their own.
FolderOf(t) == IF t = "worker" THEN Folders ELSE Appended

UserTypes ==
    /\ run \in [Users -> UserState]
    /\ \A t \in Users : run[t].pc \notin {"rest", "looked"} =>
          run[t].f \in FolderOf(t) /\ run[t].prev \in Profiles
    /\ \A t \in Users : run[t].pc = "last" => run[t].i <= NFiles

TypeOK == ClientTypes /\ StoreTypes /\ UserTypes

\* An order in sight is in the checkpoint, or its transfer is over or all but over.
InSight(f) ==
    \/ Knows(f) \/ f \in ended
    \/ \E t \in Users : run[t].f = f /\ run[t].pc \in {"poll", "link"}

OrdersInSight ==
    \A f \in All : orders[f] <= 1 /\ (orders[f] # 0 => InSight(f))

\* A folder in work is not over; while its media go up its checkpoint has no order.
BeforeOrder ==
    /\ \A t \in Users : run[t].pc \notin {"rest", "looked"} => run[t].f \notin ended
    /\ \A t \in Users : run[t].pc \in {"open", "put", "file", "last"} => ~Knows(run[t].f)
    /\ \A f \in All : \A c \in ck[f] : c.phase # "manifest_pending" => c.order = None

Orders == OrdersInSight /\ BeforeOrder

\* Direct uploads open no session of the API.
DirectUses ==
    mode = "direct" =>
        /\ \A t \in Users : run[t].pc \notin {"file", "last", "finalize"}
        /\ \A f \in All : ~session[f].final

\* Proxied uploads are the worker's alone.
ProxiedUses ==
    mode = "proxied" =>
        /\ At("append", "rest")
        /\ run["worker"].pc \in {"rest", "begin", "file", "last", "finalize", "link", "failed"}

Has(f, j) == j \in session[f].done /\ session[f].got[j] = Size[j]

\* The checkpoint of a proxied folder is not ahead of its session: the files before its
\* index are there in full, and until it says so nothing was finalised.
CheckpointIsTrue ==
    mode = "proxied" => \A f \in All : \A c \in ck[f] :
        /\ \A j \in FilesOf : j < c.i => Has(f, j)
        /\ \/ c.phase = "uploading" /\ ~session[f].final
           \/ c.phase = "finalizing" /\ c.i = NFiles + 1

\* The worker goes on from what the checkpoint says, and the client's last session and link
\* are those of the folder in work.
WorkerFollows ==
    mode = "proxied" =>
        LET r == run["worker"]
        IN  /\ r.pc \in {"file", "last"} =>
                   \E c \in ck[r.f] : c.phase = "uploading" /\ c.i = r.i
            /\ r.pc = "finalize" => \E c \in ck[r.f] : c.phase = "finalizing"
            /\ r.pc \in {"file", "last", "finalize", "link"} => lastSession = r.f
            /\ r.pc = "link" => lastUrl \in {r.f, None}

Proxied == ProxiedUses /\ CheckpointIsTrue /\ WorkerFollows /\ OrderIsWhole

IInv == TypeOK /\ Orders /\ DirectUses /\ Proxied

-----------------------------------------------------------------------------
\* What a save leaves in a folder's checkpoint.
LEMMA SaveEffect ==
  ASSUME StoreTypes, NEW f \in All, NEW c \in Checkpoint, Save(f, c)
  PROVE  /\ ck' \in [All -> SUBSET Checkpoint]
         /\ \A g \in All : \A b, d \in ck'[g] : b = d
         /\ ck'[f] = {c} /\ \A g \in All \ {f} : ck'[g] = ck[g]
BY DEF StoreTypes, Save

\* The checkpoints the client writes.
LEMMA CheckpointTypes ==
  ASSUME ClientTypes
  PROVE  /\ \A i \in 1..(NFiles + 1), off \in Int : Uploading(i, off) \in Checkpoint
         /\ \A i \in 1..(NFiles + 1), p \in Profiles \cup {None} :
               BoundUploading(i, p) \in Checkpoint
         /\ \A order, url \in All \cup {None} : Pending(order, url) \in Checkpoint
         /\ Finalizing \in Checkpoint
<1>1. 1 \in 1..(NFiles + 1) /\ NFiles + 1 \in 1..(NFiles + 1) /\ 0 \in Int
  BY CustomAssumption
<1>2. \A i \in 1..(NFiles + 1), off \in Int : Uploading(i, off) \in Checkpoint
  BY DEF Uploading, Checkpoint
<1>3. \A i \in 1..(NFiles + 1), p \in Profiles \cup {None} : BoundUploading(i, p) \in Checkpoint
  BY <1>1 DEF BoundUploading, Uploading, Checkpoint
<1>4. \A order, url \in All \cup {None} : Pending(order, url) \in Checkpoint
  BY <1>1 DEF Pending, Checkpoint, ClientTypes
<1>5. Finalizing \in Checkpoint
  BY <1>1 DEF Finalizing, Uploading, Checkpoint
<1> QED BY <1>2, <1>3, <1>4, <1>5

\* The checkpoint an attempt goes on from.
LEMMA ResumedType ==
  ASSUME ClientTypes, StoreTypes, NEW f \in All
  PROVE  /\ Resumed(f) \in Checkpoint
         /\ ck[f] # {} => ck[f] = {Resumed(f)}
         /\ ck[f] = {} => Resumed(f) = Uploading(1, 0)
<1>1. CASE ck[f] = {}
  BY <1>1, CheckpointTypes, CustomAssumption DEF Resumed
<1>2. CASE ck[f] # {}
  <2>1. PICK c \in ck[f] : ck[f] = {c} /\ c \in Checkpoint
    BY <1>2 DEF StoreTypes
  <2>2. Resumed(f) = CHOOSE d \in ck[f] : TRUE
    BY <1>2 DEF Resumed
  <2> QED BY <2>1, <2>2
<1> QED BY <1>1, <1>2

\* At the start nothing is saved, opened or sent.
LEMMA InitIInv == Init => IInv
<1> SUFFICES ASSUME Init PROVE IInv
  OBVIOUS
<1>1. 1 \in 1..(NFiles + 1) /\ 0 \in Int
  BY CustomAssumption
<1>2. Off \in UserState /\ Off.pc = "rest"
  BY <1>1 DEF Off, UserState, Steps
<1>3. DirectSession \in SessionState /\ DirectSession.final = FALSE
  BY DEF DirectSession, SessionState
<1>4. TypeOK
  BY <1>2, <1>3 DEF Init, TypeOK, ClientTypes, StoreTypes, UserTypes
<1>5. Orders /\ DirectUses /\ ProxiedUses /\ WorkerFollows /\ CheckpointIsTrue
  BY <1>2, <1>3 DEF Init, Orders, OrdersInSight, BeforeOrder, DirectUses, ProxiedUses,
     WorkerFollows, CheckpointIsTrue, At, Users
<1>6. OrderIsWhole
  BY <1>3 DEF Init, OrderIsWhole, FinalizedHasAll, ProxiedLinkIsOwn
<1> QED BY <1>4, <1>5, <1>6 DEF IInv, Proxied

-----------------------------------------------------------------------------
\* Who moves, moves alone, keeps its folder and the slot's former profile, or comes to rest.
LEMMA StepMoves ==
  ASSUME TypeOK, NEW t \in Users, Step(t) \/ Faults(t)
  PROVE  /\ run' \in [Users -> UserState]
         /\ \A u \in Users \ {t} : run'[u] = run[u]
         /\ run'[t].pc = "last" => run'[t].i <= NFiles
         /\ \/ run'[t].pc = "rest"
            \/ /\ run'[t].f = run[t].f /\ run'[t].prev = run[t].prev
               /\ run[t].pc \notin {"rest", "looked"}
            \/ /\ Start(t) /\ run'[t].f \in FolderOf(t) /\ run'[t].prev = slot
               /\ run'[t].pc = "begin"
<1>1. /\ run \in [Users -> UserState] /\ run[t] \in UserState /\ slot \in Profiles
      /\ NFiles \in Nat \ {0} /\ Size \in [FilesOf -> Nat] /\ Chunk \in Nat \ {0}
  BY CustomAssumption DEF TypeOK, UserTypes, ClientTypes, FilesOf
<1>2. Off \in UserState /\ Off.pc = "rest"
  BY <1>1 DEF Off, UserState, Steps
<1>3. CASE \/ LookupFails(t) \/ FileRejected(t) \/ FilesDone(t) \/ Finalize(t) \/ SubmitKnown(t)
           \/ SubmitNew(t) \/ Accepted(t) \/ Faults(t)
  <2>1. PICK pc \in Steps \ {"last"} :
          Goes(t, pc) /\ (pc = "rest" \/ run[t].pc \notin {"rest", "looked"})
    BY <1>3 DEF LookupFails, FileRejected, FilesDone, Finalize, SubmitKnown,
       SubmitNew,
                Accepted, Faults, ConnectFails, RequestFails, Unnamed, SaveFails, Unordered,
                At, Steps
  <2> QED BY <1>1, <2>1 DEF Goes, UserState
<1>4. CASE Start(t)
  <2>1. PICK f \in FolderOf(t) :
          run' = [run EXCEPT ![t] = [Off EXCEPT !.pc = "begin", !.f = f, !.prev = slot]]
    BY <1>4 DEF Start, FolderOf
  <2> DEFINE x == [Off EXCEPT !.pc = "begin", !.f = f, !.prev = slot]
  <2>2. x \in UserState /\ x.pc = "begin" /\ x.f = f /\ x.prev = slot
    BY <1>1, <1>2 DEF UserState, Steps, FolderOf, All
  <2> QED BY <1>1, <1>4, <2>1, <2>2
<1>5. CASE ShareableLink(t) \/ Failed(t)
  BY <1>1, <1>2, <1>5 DEF ShareableLink, Failed, Ends
<1>6. CASE TryAgain(t)
  <2> DEFINE x == [Off EXCEPT !.pc = "begin", !.f = run[t].f, !.prev = run[t].prev]
  <2>1. x \in UserState /\ x.pc = "begin" /\ x.f = run[t].f /\ x.prev = run[t].prev
    BY <1>1, <1>2 DEF UserState, Steps
  <2>2. run[t].pc \notin {"rest", "looked"} /\ run' = [run EXCEPT ![t] = x]
    BY <1>6 DEF TryAgain, At
  <2> QED BY <1>1, <2>1, <2>2
<1>7. CASE Begin(t)
  <2> DEFINE c == Resumed(run[t].f)
  <2>1. run[t].pc = "begin" /\ run[t].f \in All
    BY <1>7 DEF Begin, At, TypeOK, UserTypes, FolderOf, All
  <2>2. c \in Checkpoint
    BY <2>1, ResumedType DEF TypeOK
  <2> HIDE DEF c
  <2>3. CASE mode = "direct"
    <3>1. BeginDirect(t, run[t].f, c)
      BY <1>7, <2>3 DEF Begin, c
    <3> DEFINE pc == IF c.db \notin {None, slot} THEN "failed"
                     ELSE IF c.phase = "uploading" THEN "open" ELSE "submit"
    <3>2. /\ pc \in Steps \ {"last"}
          /\ run' = [run EXCEPT ![t].i = c.i, ![t].pc = pc]
      BY <3>1 DEF BeginDirect, Steps
    <3> HIDE DEF pc
    <3>3. run' \in [Users -> UserState]
      BY <1>1, <2>2, <3>2 DEF UserState, Checkpoint
    <3>4. \A u \in Users \ {t} : run'[u] = run[u]
      BY <1>1, <3>2
    <3>5. run'[t].pc = pc /\ run'[t].f = run[t].f /\ run'[t].prev = run[t].prev
      BY <1>1, <3>2 DEF UserState
    <3> QED BY <2>1, <3>2, <3>3, <3>4, <3>5
  <2>4. CASE mode # "direct"
    <3>1. BeginProxied(t, run[t].f, c)
      BY <1>7, <2>4 DEF Begin, c
    <3> DEFINE pc == IF c.phase = "finalizing" THEN "finalize" ELSE "file"
    <3>2. /\ pc \in Steps \ {"last"}
          /\ run' = [run EXCEPT ![t].pc = pc, ![t].i = c.i, ![t].off = c.off]
      BY <3>1 DEF BeginProxied, Steps
    <3> HIDE DEF pc
    <3>3. run' \in [Users -> UserState]
      BY <1>1, <2>2, <3>2 DEF UserState, Checkpoint
    <3>4. \A u \in Users \ {t} : run'[u] = run[u]
      BY <1>1, <3>2
    <3>5. run'[t].pc = pc /\ run'[t].f = run[t].f /\ run'[t].prev = run[t].prev
      BY <1>1, <3>2 DEF UserState
    <3> QED BY <2>1, <3>2, <3>3, <3>4, <3>5
  <2> QED BY <2>3, <2>4
<1>8. CASE FileChunk(t)
  <2>1. run[t].i \in FilesOf /\ run[t].pc = "file"
    BY <1>1, <1>8 DEF FileChunk, Sends, At, UserState, FilesOf
  <2>2. Reached(t) \in Int
    BY <1>1, <2>1 DEF Reached, Piece, Smaller, UserState
  <2>3. PICK pc \in Steps : run' = [run EXCEPT ![t].off = Reached(t), ![t].pc = pc]
    BY <1>8 DEF FileChunk, Steps
  <2>4. run' \in [Users -> UserState]
    BY <1>1, <2>2, <2>3 DEF UserState
  <2>5. \A u \in Users \ {t} : run'[u] = run[u]
    BY <1>1, <2>3
  <2>6. run'[t].f = run[t].f /\ run'[t].prev = run[t].prev /\ run'[t].i = run[t].i
    BY <1>1, <2>3 DEF UserState
  <2>7. run[t].i <= NFiles
    BY <1>1, <2>1 DEF FilesOf
  <2> QED BY <2>1, <2>4, <2>5, <2>6, <2>7
<1>9. CASE FileLast(t)
  <2>1. run[t].pc \in {"file", "last"} /\ run[t].i <= NFiles
    BY <1>9 DEF FileLast, At, TypeOK, UserTypes
  <2>2. run[t].i + 1 \in 1..(NFiles + 1)
    BY <1>1, <2>1 DEF UserState
  <2>3. run' = [run EXCEPT ![t].pc = "file", ![t].i = run[t].i + 1, ![t].off = 0]
    BY <1>9 DEF FileLast
  <2> QED BY <1>1, <2>1, <2>2, <2>3 DEF UserState, Steps
<1>10. CASE Open(t)
  BY <1>1, <1>10 DEF Open, At, UserState, Steps
<1>11. CASE Put(t)
  BY <1>1, <1>11 DEF Put, At, UserState
<1>12. CASE PutsDone(t)
  BY <1>1, <1>12 DEF PutsDone, At, UserState, Steps
<1> QED
  BY <1>3, <1>4, <1>5, <1>6, <1>7, <1>8, <1>9, <1>10, <1>11, <1>12 DEF Step, Faults

\* The folder in work, once a transfer has begun.
LEMMA FolderInWork ==
  ASSUME TypeOK, NEW t \in Users, run[t].pc \notin {"rest", "looked"}
  PROVE  run[t].f \in FolderOf(t) /\ run[t].f \in All /\ run[t].prev \in Profiles
BY DEF TypeOK, UserTypes, FolderOf, All

\* What a step does to the client that all transfers share.
LEMMA ClientStep ==
  ASSUME TypeOK, NEW t \in Users, Step(t) \/ Faults(t)
  PROVE  ClientTypes' /\ link' \in [All -> All \cup {None}]
<1>1. ClientTypes /\ link \in [All -> All \cup {None}] /\ ck \in [All -> SUBSET Checkpoint]
  BY DEF TypeOK, StoreTypes
<1>2. CASE \/ LookupFails(t) \/ FileChunk(t) \/ FileLast(t) \/ FileRejected(t) \/ FilesDone(t)
           \/ Open(t) \/ Put(t) \/ PutsDone(t) \/ TryAgain(t) \/ ConnectFails(t)
           \/ RequestFails(t)
  BY <1>1, <1>2 DEF LookupFails, FileChunk, FileLast, FileRejected, FilesDone,
     Open, Put,
                    PutsDone, TryAgain, ConnectFails, RequestFails, ClientTypes, clientVars
<1>3. CASE Start(t)
  <2>1. \A f \in FolderOf(t) : Bound[f] \in Profiles
    BY CustomAssumption DEF FolderOf
  <2>2. slot' \in Profiles
    BY <1>1, <1>3, <2>1 DEF Start, FolderOf, ClientTypes
  <2> QED BY <1>1, <1>3, <2>2 DEF Start, ClientTypes
<1>4. CASE Begin(t)
  <2>1. run[t].f \in All
    BY <1>4, FolderInWork DEF Begin, At
  <2>2. lastSession' \in {lastSession, run[t].f}
    BY <1>4 DEF Begin, BeginDirect, BeginProxied
  <2> QED BY <1>1, <1>4, <2>1, <2>2 DEF Begin, ClientTypes
<1>5. CASE Finalize(t) \/ SubmitNew(t) \/ Accepted(t) \/ Unnamed(t) \/ SaveFails(t)
  <2>1. run[t].f \in All
    BY <1>5, FolderInWork DEF Finalize, SubmitNew, Accepted, Unnamed, SaveFails, Unordered, At
  <2>2. lastUrl' \in {lastUrl, run[t].f, None} /\ lastOrder' \in {lastOrder, run[t].f}
    BY <1>5 DEF Finalize, SubmitNew, Accepted, Unnamed, SaveFails, UrlNoted, Answers
  <2>3. UNCHANGED <<mode, lastSession, slot, active, link>>
    BY <1>5 DEF Finalize, SubmitNew, Accepted, Unnamed, SaveFails
  <2> QED BY <1>1, <2>1, <2>2, <2>3 DEF ClientTypes
<1>6. CASE SubmitKnown(t)
  <2>1. run[t].f \in All
    BY <1>6, FolderInWork DEF SubmitKnown, At
  <2>2. lastUrl' \in All \cup {None} /\ lastOrder' \in All \cup {None}
    BY <1>1, <1>6, <2>1 DEF SubmitKnown, Checkpoint, ClientTypes
  <2> QED BY <1>1, <1>6, <2>2 DEF SubmitKnown, ClientTypes
<1>7. CASE ShareableLink(t)
  <2>1. run[t].f \in All /\ run[t].prev \in Profiles
    BY <1>7, FolderInWork DEF ShareableLink, At
  <2>2. PICK u \in All \cup {None} : link' = [link EXCEPT ![run[t].f] = u]
    BY <1>1, <1>7 DEF ShareableLink, Answers, ClientTypes
  <2>3. link' \in [All -> All \cup {None}] /\ lastUrl' \in All \cup {None}
    BY <1>1, <1>7, <2>1, <2>2 DEF ShareableLink
  <2> QED BY <1>1, <1>7, <2>1, <2>3 DEF ShareableLink, Ends, ClientTypes
<1>8. CASE Failed(t)
  <2>1. run[t].prev \in Profiles
    BY <1>8, FolderInWork DEF Failed, At
  <2> QED BY <1>1, <1>8, <2>1 DEF Failed, Ends, ClientTypes
<1> QED BY <1>2, <1>3, <1>4, <1>5, <1>6, <1>7, <1>8 DEF Step, Faults

\* What a step saves: at most one checkpoint, that of its own folder.
LEMMA SaveStep ==
  ASSUME TypeOK, NEW t \in Users, Step(t) \/ Faults(t)
  PROVE  /\ ck' \in [All -> SUBSET Checkpoint]
         /\ \A f \in All : \A c, d \in ck'[f] : c = d
         /\ \A f \in All : f # run[t].f => ck'[f] = ck[f]
<1> DEFINE g == run[t].f
<1>1. StoreTypes /\ ClientTypes /\ slot \in Profiles
  BY DEF TypeOK, ClientTypes
<1>2. CASE UNCHANGED ck
  BY <1>1, <1>2 DEF StoreTypes
<1>3. CASE g \in All /\ \E c \in Checkpoint : Save(g, c)
  BY <1>1, <1>3, SaveEffect
<1>4. CASE g \in All /\ ck' = [ck EXCEPT ![g] = {}]
  BY <1>1, <1>4 DEF StoreTypes
<1>5. CASE Begin(t)
  <2>1. g \in All
    BY <1>5, FolderInWork DEF Begin, At
  <2>2. ck[g] = {} => Resumed(g) \in Checkpoint
    BY <1>1, <2>1, ResumedType
  <2>3. BoundUploading(1, slot) \in Checkpoint
    BY <1>1, CheckpointTypes, CustomAssumption
  <2>4. UNCHANGED ck \/ \E c \in Checkpoint : Save(g, c)
    BY <1>5, <2>2, <2>3 DEF Begin, BeginDirect, BeginProxied
  <2> QED BY <1>2, <1>3, <2>1, <2>4
<1>6. CASE FileChunk(t) \/ FileLast(t)
  <2>1. g \in All /\ run[t].i \in 1..(NFiles + 1) /\ run[t].off \in Int
    BY <1>6, FolderInWork DEF FileChunk, FileLast, Sends, At, TypeOK, UserTypes,
       UserState
  <2>2. run[t].i <= NFiles /\ run[t].i \in FilesOf
    <3>1. run[t].pc = "last" => run[t].i <= NFiles
      BY DEF TypeOK, UserTypes
    <3>2. run[t].i <= NFiles
      BY <1>6, <3>1 DEF FileChunk, FileLast, Sends, At
    <3> QED BY <2>1, <3>2, CustomAssumption DEF FilesOf
  <2>3. Reached(t) \in Int /\ run[t].i + 1 \in 1..(NFiles + 1) /\ 0 \in Int
    BY <2>1, <2>2, CustomAssumption DEF Reached, Piece, Smaller, FilesOf
  <2>4. \/ Save(g, Uploading(run[t].i, Reached(t)))
        \/ Save(g, Uploading(run[t].i + 1, 0))
    BY <1>6 DEF FileChunk, FileLast, ChunkSaved
  <2> QED BY <1>1, <1>3, <2>1, <2>3, <2>4, CheckpointTypes
<1>7. CASE FilesDone(t)
  <2>1. g \in All
    BY <1>7, FolderInWork DEF FilesDone, At
  <2> QED BY <1>1, <1>3, <1>7, <2>1, CheckpointTypes DEF FilesDone
<1>8. CASE Put(t)
  <2>1. /\ g \in All /\ run[t].i + 1 \in 1..(NFiles + 1)
        /\ run[t].db \in Profiles \cup {None}
    <3>1. run[t] \in UserState /\ run[t].pc = "put" /\ run[t].i <= NFiles
      BY <1>8 DEF Put, At, TypeOK, UserTypes
    <3>2. run[t].i \in 1..(NFiles + 1) /\ run[t].db \in Profiles \cup {None}
      BY <3>1 DEF UserState
    <3> QED BY <3>1, <3>2, FolderInWork, CustomAssumption
  <2> QED BY <1>1, <1>3, <1>8, <2>1, CheckpointTypes DEF Put
<1>9. CASE PutsDone(t) \/ SubmitKnown(t)
  <2>1. g \in All /\ Pending(None, None) \in Checkpoint
    BY <1>1, <1>9, FolderInWork, CheckpointTypes DEF PutsDone, SubmitKnown, At
  <2> QED BY <1>3, <1>9, <2>1 DEF PutsDone, SubmitKnown
<1>10. CASE SubmitNew(t) \/ Unnamed(t)
  <2>1. /\ g \in All /\ lastUrl' \in All \cup {None} /\ lastOrder \in All \cup {None}
        /\ lastOrder' \in All \cup {None}
    BY <1>1, <1>10, FolderInWork, ClientStep
    DEF SubmitNew, Unnamed, Unordered, At, Step, Faults, ClientTypes
  <2>2. \E o, url \in All \cup {None} : Save(g, Pending(o, url))
    BY <1>10, <2>1 DEF SubmitNew, Unnamed
  <2> QED BY <1>1, <1>3, <2>1, <2>2, CheckpointTypes
<1>11. CASE Finalize(t) \/ Accepted(t)
  BY <1>4, <1>11, FolderInWork DEF Finalize, Accepted, At
<1>13. CASE SaveFails(t)
  BY <1>2, <1>4, <1>13, FolderInWork DEF SaveFails, At
<1>12. CASE \/ LookupFails(t) \/ Start(t) \/ FileRejected(t) \/ Open(t) \/ ShareableLink(t)
            \/ Failed(t) \/ TryAgain(t) \/ ConnectFails(t) \/ RequestFails(t)
  BY <1>2, <1>12 DEF LookupFails, Start, FileRejected, Open, ShareableLink,
     Failed, TryAgain,
                     ConnectFails, RequestFails
<1> QED
  BY <1>5, <1>6, <1>7, <1>8, <1>9, <1>10, <1>11, <1>12, <1>13 DEF Step, Faults

\* What a step does to the API's sessions.
LEMMA SessionStep ==
  ASSUME TypeOK, NEW t \in Users, Step(t) \/ Faults(t)
  PROVE  session' \in [All -> SessionState]
<1> DEFINE g == run[t].f
<1>1. session \in [All -> SessionState]
  BY DEF TypeOK, StoreTypes
<1>2. CASE UNCHANGED session
  BY <1>1, <1>2
<1>3. CASE Begin(t)
  <2>1. DirectSession \in SessionState
    BY DEF DirectSession, SessionState
  <2>2. UNCHANGED session \/ SessionOpens(g)
    BY <1>3 DEF Begin, BeginDirect, BeginProxied
  <2> QED BY <1>1, <2>1, <2>2 DEF SessionOpens
<1>4. ASSUME NEW j \in Int, NEW b \in Int, Answer(g, j, b), g \in All
      PROVE  session' \in [All -> SessionState]
  <2>1. session[g] \in SessionState /\ session[g].got \in [FilesOf -> Int]
    BY <1>1, <1>4 DEF SessionState
  <2>2. [session[g].got EXCEPT ![j] = b] \in [FilesOf -> Int]
    BY <2>1
  <2>3. [session[g] EXCEPT !.got = [session[g].got EXCEPT ![j] = b]] \in SessionState
    BY <2>1, <2>2 DEF SessionState
  <2> QED BY <1>1, <1>4, <2>3 DEF Answer
<1>5. Sends(t) => run[t].i \in Int /\ Reached(t) \in Int
  BY CustomAssumption DEF Sends, Reached, Piece, Smaller, TypeOK, UserTypes,
     UserState
<1>6. CASE FileChunk(t)
  BY <1>4, <1>5, <1>6, FolderInWork DEF FileChunk, Sends, At
<1>7. CASE FileLast(t)
  <2>1. run[t].i \in FilesOf
    BY <1>7 DEF FileLast, At, TypeOK, UserTypes, UserState, FilesOf
  <2>2. Size[run[t].i] \in Int
    BY <2>1, CustomAssumption DEF FilesOf
  <2> QED BY <1>1, <1>7, <2>1, <2>2 DEF FileLast, SessionState
<1>8. ASSUME session' = [session EXCEPT ![g].final = TRUE], g \in All
      PROVE  session' \in [All -> SessionState]
  <2>1. [session[g] EXCEPT !.final = TRUE] \in SessionState
    BY <1>1, <1>8 DEF SessionState
  <2> QED BY <1>1, <1>8, <2>1
<1>9. CASE Finalize(t)
  BY <1>8, <1>9, FolderInWork DEF Finalize, At
<1>10. CASE RequestFails(t)
  BY <1>2, <1>4, <1>5, <1>8, <1>10, FolderInWork DEF RequestFails, At
<1>11. CASE \/ LookupFails(t) \/ Start(t) \/ FileRejected(t) \/ FilesDone(t) \/ Open(t) \/ Put(t)
            \/ PutsDone(t) \/ SubmitKnown(t) \/ SubmitNew(t) \/ Accepted(t) \/ ShareableLink(t)
            \/ Failed(t) \/ TryAgain(t) \/ ConnectFails(t) \/ Unnamed(t) \/ SaveFails(t)
  BY <1>2, <1>11 DEF LookupFails, Start, FileRejected, FilesDone, Open, Put,
     PutsDone,
                     SubmitKnown, SubmitNew, Accepted, ShareableLink, Failed, TryAgain,
                     ConnectFails, Unnamed, SaveFails
<1> QED BY <1>3, <1>6, <1>7, <1>9, <1>10, <1>11 DEF Step, Faults

\* The API's orders are counted.
LEMMA OrderTypes ==
  ASSUME TypeOK, NEW t \in Users, Step(t) \/ Faults(t)
  PROVE  orders' \in [All -> Nat]
<1>1. orders \in [All -> Nat]
  BY DEF TypeOK, StoreTypes
<1>2. CASE UNCHANGED orders
  BY <1>1, <1>2
<1>3. CASE SubmitNew(t)
  <2>1. run[t].f \in All
    BY <1>3, FolderInWork DEF SubmitNew, Unordered, At
  <2>2. orders[run[t].f] + 1 \in Nat /\ orders' = [orders EXCEPT ![run[t].f] = orders[run[t].f] + 1]
    BY <1>1, <1>3, <2>1 DEF SubmitNew
  <2> QED BY <1>1, <2>1, <2>2
<1>4. CASE RequestFails(t) \/ SaveFails(t)
  BY <1>1, <1>4 DEF RequestFails, SaveFails, LosesSight
<1>5. Step(t) \/ Faults(t) => UNCHANGED orders \/ SubmitNew(t) \/ RequestFails(t) \/ SaveFails(t)
  BY DEF Step, Faults, LookupFails, Start, Begin, FileChunk, FileLast, FileRejected,
     FilesDone, Finalize, Open, Put, PutsDone, SubmitKnown, Accepted, ShareableLink, Failed,
     TryAgain, ConnectFails, Unnamed
<1> QED BY <1>2, <1>3, <1>4, <1>5

\* Every step keeps the types.
LEMMA TypesStep == TypeOK /\ [Next]_vars => TypeOK'
<1> SUFFICES ASSUME TypeOK, [Next]_vars PROVE TypeOK'
  OBVIOUS
<1>1. ASSUME NEW t \in Users, Step(t) \/ Faults(t) PROVE TypeOK'
  <2>1. ClientTypes' /\ StoreTypes'
    BY <1>1, ClientStep, SaveStep, SessionStep, OrderTypes DEF StoreTypes
  <2>2. UserTypes'
    BY <1>1, StepMoves DEF TypeOK, UserTypes, ClientTypes
  <2> QED BY <2>1, <2>2 DEF TypeOK
<1>2. CASE Look
  <2>1. run' = [run EXCEPT !["append"].pc = "looked"]
    BY <1>2 DEF Look, Goes
  <2>2. run' \in [Users -> UserState]
    <3>1. run \in [Users -> UserState] /\ "append" \in Users /\ "looked" \in Steps
      BY DEF TypeOK, UserTypes, Users, Steps
    <3>2. [run["append"] EXCEPT !.pc = "looked"] \in UserState
      BY <3>1 DEF UserState
    <3> QED BY <2>1, <3>1, <3>2
  <2>3. run'["append"].pc = "looked" /\ \A u \in Users \ {"append"} : run'[u] = run[u]
    BY <2>1 DEF TypeOK, UserTypes, UserState, Users
  <2>4. UserTypes'
    BY <2>2, <2>3 DEF TypeOK, UserTypes
  <2> QED BY <1>2, <2>4 DEF Look, TypeOK, ClientTypes, StoreTypes, clientVars
<1>3. CASE Crash
  <2>1. Off \in UserState /\ Off.pc = "rest"
    BY CustomAssumption DEF Off, UserState, Steps
  <2>2. UserTypes'
    BY <1>3, <2>1 DEF Crash, UserTypes
  <2>3. orders' \in [All -> Nat]
    BY <1>3 DEF Crash, LosesSight, TypeOK, StoreTypes
  <2> QED BY <1>3, <2>2, <2>3 DEF Crash, TypeOK, ClientTypes, StoreTypes
<1>4. CASE SetActive
  BY <1>4 DEF SetActive, TypeOK, ClientTypes, StoreTypes, UserTypes, clientVars
<1>5. CASE UNCHANGED vars
  BY <1>5 DEF vars, clientVars, TypeOK, ClientTypes, StoreTypes, UserTypes
<1> QED BY <1>1, <1>2, <1>3, <1>4, <1>5 DEF Next, Rest

\* The two users never work on the same folder.
LEMMA FoldersApart ==
  ASSUME TypeOK, NEW t \in Users, NEW u \in Users \ {t},
         run[t].pc \notin {"rest", "looked"}, run[u].pc \notin {"rest", "looked"}
  PROVE  run[t].f # run[u].f
<1>1. FolderOf(t) \cap FolderOf(u) = {}
  BY CustomAssumption DEF FolderOf, Users
<1> QED BY <1>1, FolderInWork

-----------------------------------------------------------------------------
\* The steps that begin a transfer, end it or let it fail.
LEMMA RestPlaces ==
  ASSUME TypeOK, NEW t \in Users,
         \/ LookupFails(t) \/ FileRejected(t) \/ ConnectFails(t) \/ RequestFails(t)
         \/ SaveFails(t) \/ Start(t) \/ ShareableLink(t) \/ Failed(t) \/ TryAgain(t)
  PROVE  run'[t].pc \in {"rest", "begin", "failed"}
<1>1. run \in [Users -> UserState]
  BY DEF TypeOK, UserTypes
<1>2. Off.pc = "rest" /\ \A f, q : [Off EXCEPT !.pc = "begin", !.f = f, !.prev = q].pc = "begin"
  BY DEF Off
<1>3. CASE \/ LookupFails(t) \/ FileRejected(t) \/ ConnectFails(t) \/ RequestFails(t)
           \/ SaveFails(t)
  BY <1>1, <1>3 DEF LookupFails, FileRejected, ConnectFails, RequestFails, SaveFails, Goes,
     UserState
<1>4. CASE Start(t)
  <2>1. PICK f : run' = [run EXCEPT ![t] = [Off EXCEPT !.pc = "begin", !.f = f, !.prev = slot]]
    BY <1>4 DEF Start
  <2> QED BY <1>1, <1>2, <2>1
<1>5. CASE TryAgain(t)
  BY <1>1, <1>2, <1>5 DEF TryAgain
<1>6. CASE ShareableLink(t) \/ Failed(t)
  BY <1>1, <1>2, <1>6 DEF ShareableLink, Failed, Ends
<1> QED BY <1>3, <1>4, <1>5, <1>6

\* Where a step of one user leads, as far as the two modes tell it apart.
LEMMA NextPlaces ==
  ASSUME TypeOK, NEW t \in Users, Step(t) \/ Faults(t)
  PROVE  \/ run'[t].pc \in {"rest", "begin", "failed"}
         \/ Begin(t) \/ FileChunk(t) \/ FileLast(t) \/ FilesDone(t) \/ Finalize(t)
         \/ /\ Open(t) \/ Put(t) \/ PutsDone(t) \/ SubmitKnown(t) \/ SubmitNew(t) \/ Accepted(t)
               \/ Unnamed(t)
            /\ run'[t].pc \in {"put", "submit", "poll", "created", "link"}
<1>1. run \in [Users -> UserState]
  BY DEF TypeOK, UserTypes
<1>2. CASE SubmitKnown(t) \/ SubmitNew(t) \/ Accepted(t) \/ Unnamed(t)
  BY <1>1, <1>2 DEF SubmitKnown, SubmitNew, Accepted, Unnamed, Goes, UserState
<1>3. CASE Open(t) \/ Put(t) \/ PutsDone(t)
  BY <1>1, <1>3 DEF Open, Put, PutsDone, At, UserState
<1> QED BY <1>2, <1>3, RestPlaces DEF Step, Faults

\* In direct mode no step opens, fills or finalises a session.
LEMMA DirectStep ==
  ASSUME TypeOK, DirectUses, [Next]_vars
  PROVE  DirectUses'
<1> SUFFICES ASSUME mode' = "direct"
             PROVE  /\ \A u \in Users : run'[u].pc \notin {"file", "last", "finalize"}
                    /\ \A f \in All : ~session'[f].final
  BY DEF DirectUses
<1>1. /\ run \in [Users -> UserState] /\ session \in [All -> SessionState]
  BY DEF TypeOK, UserTypes, StoreTypes
<1>2. mode = "direct"
  BY DEF Next, Look, Step, LookupFails, Start, Begin, FileChunk, FileLast,
     FileRejected,
         FilesDone, Finalize, Open, Put, PutsDone, SubmitKnown, SubmitNew, Accepted,
         ShareableLink, Failed, TryAgain, Faults, ConnectFails, RequestFails, Unnamed, SaveFails,
     Crash, SetActive, Rest, vars
<1>3. /\ \A u \in Users : run[u].pc \notin {"file", "last", "finalize"}
      /\ \A f \in All : ~session[f].final
  BY <1>2 DEF DirectUses
<1>4. ASSUME NEW t \in Users, Step(t) \/ Faults(t)
      PROVE  run'[t].pc \notin {"file", "last", "finalize"} /\ UNCHANGED session
  <2>1. CASE Begin(t)
    <3>1. BeginDirect(t, run[t].f, Resumed(run[t].f))
      BY <1>2, <2>1 DEF Begin
    <3> QED BY <1>1, <3>1 DEF BeginDirect, UserState
  <2>2. ~FileChunk(t) /\ ~FileLast(t) /\ ~FilesDone(t) /\ ~Finalize(t)
    BY <1>3 DEF FileChunk, Sends, FileLast, FilesDone, Finalize, At
  <2>3. CASE ~Begin(t)
    <3>1. run'[t].pc \notin {"file", "last", "finalize"}
      BY <1>4, <2>2, <2>3, NextPlaces
    <3>2. UNCHANGED session
      BY <1>3, <1>4, <2>2, <2>3 DEF Step, LookupFails, Start, FileRejected, Open,
         Put,
         PutsDone, SubmitKnown, SubmitNew, Accepted, ShareableLink, Failed, TryAgain,
         Faults, ConnectFails, RequestFails, Unnamed, SaveFails, Sends, At
    <3> QED BY <3>1, <3>2
  <2> QED BY <2>1, <2>3
<1>5. ASSUME NEW t \in Users, Step(t) \/ Faults(t), NEW u \in Users
      PROVE  run'[u].pc \notin {"file", "last", "finalize"}
  BY <1>3, <1>4, <1>5, StepMoves
<1>6. CASE \E t \in Users : Step(t) \/ Faults(t)
  BY <1>3, <1>4, <1>5, <1>6
<1>7. CASE Look
  BY <1>1, <1>3, <1>7 DEF Look, Goes, UserState
<1>8. CASE Crash
  BY <1>3, <1>8 DEF Crash, Off
<1>9. CASE SetActive \/ UNCHANGED vars
  BY <1>3, <1>9 DEF SetActive, vars
<1> QED BY <1>6, <1>7, <1>8, <1>9 DEF Next, Rest

-----------------------------------------------------------------------------
\* What a step leaves of the orders: only its own user's folder is touched.
LEMMA OneOrder ==
  ASSUME TypeOK, NEW t \in Users, Step(t) \/ Faults(t)
  PROVE  /\ \A f \in All : f # run[t].f => orders'[f] = orders[f]
         /\ \A f \in All : f # run[t].f => (f \in ended' <=> f \in ended)
         /\ run[t].pc \in {"rest", "looked"} => UNCHANGED <<ck, orders, ended>>
<1>1. orders \in [All -> Nat]
  BY DEF TypeOK, StoreTypes
<1>2. \A f \in All : f # run[t].f => orders'[f] = orders[f]
  <2>1. CASE SubmitNew(t)
    BY <1>1, <2>1 DEF SubmitNew
  <2>2. CASE RequestFails(t) \/ SaveFails(t)
    BY <1>1, <2>2 DEF RequestFails, SaveFails, LosesSight
  <2>3. CASE UNCHANGED orders
    BY <2>3
  <2>4. UNCHANGED orders \/ SubmitNew(t) \/ RequestFails(t) \/ SaveFails(t)
    BY DEF Step, Faults, LookupFails, Start, Begin, FileChunk, FileLast, FileRejected,
       FilesDone, Finalize, Open, Put, PutsDone, SubmitKnown, Accepted, ShareableLink,
       Failed, TryAgain, ConnectFails, Unnamed
  <2> QED BY <2>1, <2>2, <2>3, <2>4
<1>3. ended' = ended \/ ShareableLink(t)
  BY DEF Step, Faults, LookupFails, Start, Begin, FileChunk, FileLast, FileRejected,
     FilesDone, Finalize, Open, Put, PutsDone, SubmitKnown, SubmitNew, Accepted, Failed,
     TryAgain, ConnectFails, RequestFails, Unnamed, SaveFails
<1>4. ASSUME run[t].pc \in {"rest", "looked"} PROVE LookupFails(t) \/ Start(t)
  BY <1>4 DEF Step, Faults, Begin, FileChunk, FileLast, FileRejected, FilesDone, Finalize,
     Open, Put, PutsDone, SubmitKnown, SubmitNew, Accepted, ShareableLink, Failed, TryAgain,
     ConnectFails, RequestFails, Unnamed, SaveFails, Unordered, Sends, At
<1> QED BY <1>2, <1>3, <1>4 DEF ShareableLink, LookupFails, Start

\* What a step does to the folder its user has in work: no order is in sight but in the
\* checkpoint, or with the user on its way to the end.
LEMMA OrderInWork ==
  ASSUME TypeOK, DirectUses, Proxied, Orders, NEW t \in Users, Step(t) \/ Faults(t),
         run[t].pc \notin {"rest", "looked"}, NEW g \in All, g = run[t].f
  PROVE  /\ orders'[g] <= 1
         /\ orders'[g] # 0 => Knows(g)' \/ g \in ended' \/ run'[t].pc \in {"poll", "link"}
         /\ run'[t].pc \in {"open", "put", "file", "last"} => ~Knows(g)'
         /\ \A c \in ck'[g] : c.phase # "manifest_pending" => c.order = None
<1>1. /\ run \in [Users -> UserState] /\ ck \in [All -> SUBSET Checkpoint]
      /\ orders \in [All -> Nat] /\ slot \in Profiles /\ StoreTypes /\ ClientTypes
      /\ run[t] \in UserState
  BY DEF TypeOK, UserTypes, StoreTypes, ClientTypes
<1>2. /\ orders[g] <= 1 /\ g \notin ended
      /\ \A c \in ck[g] : c.phase # "manifest_pending" => c.order = None
  BY DEF Orders, OrdersInSight, BeforeOrder
<1>3. orders[g] # 0 => Knows(g) \/ run[t].pc \in {"poll", "link"}
  <2>1. ASSUME NEW u \in Users, run[u].f = g, run[u].pc \in {"poll", "link"} PROVE u = t
    BY <2>1, FoldersApart
  <2> QED BY <1>2, <2>1 DEF Orders, OrdersInSight, InSight
<1>4. run[t].pc \in {"open", "put", "file", "last"} => ~Knows(g) /\ orders[g] = 0
  BY <1>2, <1>3 DEF Orders, BeforeOrder
<1>5. ASSUME NEW c \in Checkpoint, Save(g, c) PROVE ck'[g] = {c}
  BY <1>1, <1>5, SaveEffect
<1>6. ASSUME NEW c, c.order = None, ck'[g] = {c} PROVE ~Knows(g)'
  BY <1>6 DEF Knows
<1>7. CASE Begin(t)
  <2>1. UNCHANGED <<orders, ended>> /\ run[t].pc = "begin"
    BY <1>7 DEF Begin, At
  <2>2. PICK d \in Checkpoint :
          /\ d = Resumed(g)
          /\ ck[g] # {} => ck[g] = {d}
          /\ ck[g] = {} => d.order = None /\ d.phase = "uploading"
    BY <1>1, ResumedType DEF Uploading
  <2>3. d.phase # "manifest_pending" => d.order = None
    <3>1. CASE ck[g] = {}
      BY <2>2, <3>1
    <3>2. CASE ck[g] # {}
      <4>1. d \in ck[g]
        BY <2>2, <3>2
      <4> QED BY <1>2, <4>1
    <3> QED BY <3>1, <3>2
  <2>4. CASE mode = "direct"
    <3>1. BeginDirect(t, g, d)
      BY <1>7, <2>2, <2>4 DEF Begin
    <3>2. BoundUploading(1, slot) \in Checkpoint
      BY <1>1, CheckpointTypes, CustomAssumption
    <3>3. /\ BoundUploading(1, slot).order = None
          /\ BoundUploading(1, slot).phase = "uploading"
      BY DEF BoundUploading, Uploading
    <3>4. CASE ck[g] = {}
      <4>1. ck'[g] = {BoundUploading(1, slot)}
        BY <1>5, <3>1, <3>2, <3>4 DEF BeginDirect
      <4>2. ~Knows(g)' /\ orders[g] = 0
        BY <1>3, <2>1, <3>3, <3>4, <4>1, <1>6 DEF Knows
      <4> QED BY <2>1, <3>3, <4>1, <4>2
    <3>5. CASE ck[g] # {}
      <4>1. UNCHANGED ck
        BY <3>1, <3>5 DEF BeginDirect
      <4>2. run'[t].pc \in {"open", "put", "file", "last"} => d.phase = "uploading"
        <5> DEFINE pc == IF d.db \notin {None, slot} THEN "failed"
                         ELSE IF d.phase = "uploading" THEN "open" ELSE "submit"
        <5>1. run' = [run EXCEPT ![t].i = d.i, ![t].pc = pc]
          BY <3>1 DEF BeginDirect
        <5>2. pc \in {"open", "put", "file", "last"} => d.phase = "uploading"
          OBVIOUS
        <5> HIDE DEF pc
        <5>3. run'[t].pc = pc
          BY <1>1, <5>1 DEF UserState
        <5> QED BY <5>2, <5>3
      <4>3. d.phase = "uploading" => ~Knows(g)'
        BY <2>2, <2>3, <3>5, <4>1 DEF Knows
      <4> QED BY <1>2, <1>3, <2>1, <4>1, <4>2, <4>3 DEF Knows
    <3> QED BY <3>4, <3>5
  <2>5. CASE mode # "direct"
    <3>1. BeginProxied(t, g, d) /\ mode = "proxied"
      BY <1>1, <1>7, <2>2, <2>5 DEF Begin, ClientTypes
    <3>2. ck'[g] = {d} /\ (ck[g] = {} \/ UNCHANGED ck)
      <4>1. CASE ck[g] = {}
        BY <1>5, <2>2, <3>1, <4>1 DEF BeginProxied
      <4>2. CASE ck[g] # {}
        BY <2>2, <3>1, <4>2 DEF BeginProxied
      <4> QED BY <4>1, <4>2
    <3>3. d.order = None
      <4>1. CASE ck[g] = {}
        BY <2>2, <4>1
      <4>2. CASE ck[g] # {}
        <5>1. d \in ck[g]
          BY <2>2, <4>2
        <5>2. d.phase \in {"uploading", "finalizing"}
          BY <3>1, <5>1 DEF Proxied, CheckpointIsTrue
        <5> QED BY <2>3, <5>2
      <4> QED BY <4>1, <4>2
    <3>4. ~Knows(g)' /\ ~Knows(g)
      BY <1>6, <2>2, <3>2, <3>3 DEF Knows
    <3> QED BY <1>3, <2>1, <3>2, <3>3, <3>4
  <2> QED BY <2>4, <2>5
<1>8. CASE FileChunk(t) \/ FileLast(t) \/ Put(t)
  <2>1. UNCHANGED <<orders, ended>> /\ run[t].pc \in {"put", "file", "last"}
    BY <1>8 DEF FileChunk, FileLast, Put, Sends, At
  <2>2. \E i, off : \/ ck' = [ck EXCEPT ![g] = {Uploading(i, off)}]
                    \/ ck' = [ck EXCEPT ![g] = {BoundUploading(i, off)}]
    BY <1>8 DEF FileChunk, ChunkSaved, FileLast, Put, Save
  <2>3. \A i, off : /\ Uploading(i, off).order = None
                    /\ BoundUploading(i, off).order = None
    BY DEF Uploading, BoundUploading
  <2>4. PICK d : ck'[g] = {d} /\ d.order = None
    BY <1>1, <2>2, <2>3
  <2>5. ~Knows(g)'
    BY <1>6, <2>4
  <2> QED BY <1>4, <2>1, <2>4, <2>5
<1>9. CASE FilesDone(t) \/ PutsDone(t)
  <2>1. UNCHANGED <<orders, ended>> /\ run[t].pc \in {"put", "file"}
    BY <1>9 DEF FilesDone, PutsDone, At
  <2>2. ck' = [ck EXCEPT ![g] = {Finalizing}] \/ ck' = [ck EXCEPT ![g] = {Pending(None, None)}]
    BY <1>9 DEF FilesDone, PutsDone, Save
  <2>3. Finalizing.order = None /\ Pending(None, None).order = None
    BY DEF Finalizing, Uploading, Pending
  <2>4. PICK d : ck'[g] = {d} /\ d.order = None
    BY <1>1, <2>2, <2>3
  <2> QED BY <1>4, <1>6, <2>1, <2>4
<1>10. CASE Finalize(t) \/ Accepted(t)
  <2>1. /\ UNCHANGED <<orders, ended>> /\ ck' = [ck EXCEPT ![g] = {}]
        /\ Goes(t, "link")
    BY <1>10 DEF Finalize, Accepted
  <2>2. ck'[g] = {} /\ run'[t].pc = "link"
    BY <1>1, <2>1 DEF Goes, UserState
  <2> QED BY <1>2, <2>1, <2>2
<1>11. CASE SubmitKnown(t)
  <2>1. UNCHANGED <<orders, ended>> /\ Goes(t, "poll") /\ Save(g, Pending(None, None))
    BY <1>11 DEF SubmitKnown
  <2>2. run'[t].pc = "poll" /\ ck'[g] = {Pending(None, None)}
    BY <1>1, <2>1 DEF Goes, Save, UserState
  <2>3. Pending(None, None).order = None
    BY DEF Pending
  <2> QED BY <1>2, <2>1, <2>2, <2>3
<1>12. CASE SubmitNew(t) \/ Unnamed(t)
  <2>1. PICK o, url : ck' = [ck EXCEPT ![g] = {Pending(o, url)}]
    BY <1>12 DEF SubmitNew, Unnamed, Save
  <2>2. ck'[g] = {Pending(o, url)}
    BY <1>1, <2>1
  <2>3. orders[g] = 0 /\ Goes(t, "created")
    BY <1>3, <1>12 DEF SubmitNew, Unnamed, Unordered, At
  <2>4. run'[t].pc = "created" /\ Pending(o, url).phase = "manifest_pending"
    BY <1>1, <2>3 DEF Goes, UserState, Pending
  <2>5. CASE SubmitNew(t)
    <3>1. orders'[g] = 1
      BY <1>1, <2>3, <2>5 DEF SubmitNew
    <3>2. ck'[g] = {Pending(g, lastUrl')} /\ Pending(g, lastUrl').order = g /\ g # None
      BY <1>1, <2>5, CustomAssumption DEF SubmitNew, Save, Pending, All
    <3>3. Knows(g)'
      BY <3>2 DEF Knows
    <3> QED BY <2>2, <2>4, <3>1, <3>3
  <2>6. CASE Unnamed(t)
    BY <2>2, <2>3, <2>4, <2>6 DEF Unnamed
  <2> QED BY <1>12, <2>5, <2>6
<1>13. CASE ShareableLink(t)
  <2>1. UNCHANGED <<orders, ck>> /\ g \in ended'
    BY <1>13 DEF ShareableLink
  <2>2. run'[t].pc = "rest"
    BY <1>1, <1>13 DEF ShareableLink, Ends, Off
  <2> QED BY <1>2, <2>1, <2>2
<1>14. CASE \/ LookupFails(t) \/ Start(t) \/ FileRejected(t) \/ Failed(t) \/ TryAgain(t)
            \/ ConnectFails(t)
  <2>1. UNCHANGED <<orders, ck>> /\ run[t].pc \notin {"poll", "link"}
    BY <1>14 DEF LookupFails, Start, FileRejected, Failed, TryAgain, ConnectFails, At
  <2>2. run'[t].pc \in {"rest", "begin", "failed"}
    BY <1>14, RestPlaces
  <2>3. Knows(g)' = Knows(g)
    BY <2>1 DEF Knows
  <2> QED BY <1>2, <1>3, <2>1, <2>2, <2>3
<1>15. CASE Open(t)
  <2>1. UNCHANGED <<orders, ck>> /\ run[t].pc = "open"
    BY <1>15 DEF Open, At
  <2> QED BY <1>2, <1>4, <2>1 DEF Knows
<1>16. CASE RequestFails(t)
  <2>1. UNCHANGED ck /\ run'[t].pc = "failed"
    BY <1>1, <1>16 DEF RequestFails, Goes, UserState
  <2>2. /\ orders'[g] \in {0, orders[g]}
        /\ run[t].pc \in {"poll", "link"} => orders'[g] = 0
    BY <1>1, <1>16 DEF RequestFails, LosesSight, Forgets, At
  <2> QED BY <1>1, <1>2, <1>3, <2>1, <2>2 DEF Knows
<1>17. CASE SaveFails(t)
  <2>1. /\ run'[t].pc = "failed" /\ run[t].pc = "submit"
        /\ ck' = ck \/ (ck'[g] = {} /\ ck' # ck)
    BY <1>1, <1>17 DEF SaveFails, Goes, UserState, At
  <2>2. orders'[g] = (IF ck' # ck THEN 0 ELSE orders[g])
    BY <1>1, <1>17 DEF SaveFails, LosesSight
  <2>3. CASE ck' = ck
    BY <1>2, <1>3, <2>1, <2>2, <2>3 DEF Knows
  <2>4. CASE ck' # ck
    BY <2>1, <2>2, <2>4
  <2> QED BY <2>3, <2>4
<1> QED
  BY <1>7, <1>8, <1>9, <1>10, <1>11, <1>12, <1>13, <1>14, <1>15, <1>16, <1>17 DEF Step, Faults

\* Every step keeps the orders that are in sight in sight, and makes none beside them.
LEMMA OrdersStep ==
  ASSUME TypeOK, DirectUses, Proxied, Orders, [Next]_vars
  PROVE  Orders'
<1>1. /\ run \in [Users -> UserState] /\ ck \in [All -> SUBSET Checkpoint]
      /\ orders \in [All -> Nat]
  BY DEF TypeOK, UserTypes, StoreTypes
<1>2. ASSUME NEW t \in Users, Step(t) \/ Faults(t) PROVE Orders'
  <2>1. \A u \in Users \ {t} : run'[u] = run[u]
    BY <1>2, StepMoves
  <2>2. ASSUME NEW f \in All, f # run[t].f \/ run[t].pc \in {"rest", "looked"}
        PROVE  /\ ck'[f] = ck[f] /\ orders'[f] = orders[f] /\ (f \in ended' <=> f \in ended)
    BY <1>2, <2>2, SaveStep, OneOrder
  <2>3. ASSUME NEW f \in All, f # run[t].f \/ run[t].pc \in {"rest", "looked"}
        PROVE  orders'[f] <= 1 /\ (orders'[f] # 0 => InSight(f)')
    <3>1. /\ ck'[f] = ck[f] /\ orders'[f] = orders[f] /\ (f \in ended' <=> f \in ended)
      BY <2>2, <2>3
    <3>2. orders[f] <= 1 /\ (orders[f] # 0 => InSight(f))
      BY DEF Orders, OrdersInSight
    <3>3. ASSUME NEW u \in Users, run[u].f = f, run[u].pc \in {"poll", "link"}
          PROVE  run'[u].f = f /\ run'[u].pc \in {"poll", "link"}
      BY <2>1, <2>3, <3>3
    <3> QED BY <3>1, <3>2, <3>3 DEF InSight, Knows
  <2>4. ASSUME NEW g \in All, g = run[t].f, run[t].pc \notin {"rest", "looked"}
        PROVE  /\ run'[t].pc = "rest" \/ run'[t].f = g
               /\ orders'[g] <= 1
               /\ orders'[g] # 0 => Knows(g)' \/ g \in ended' \/ run'[t].pc \in {"poll", "link"}
               /\ run'[t].pc \in {"open", "put", "file", "last"} => ~Knows(g)'
               /\ \A c \in ck'[g] : c.phase # "manifest_pending" => c.order = None
    <3>1. run'[t].pc = "rest" \/ run'[t].f = g
      BY <1>2, <2>4, StepMoves DEF Start, At
    <3> QED BY <1>2, <2>4, <3>1, OrderInWork
  <2>5. OrdersInSight'
    <3>1. ASSUME NEW f \in All, f = run[t].f, run[t].pc \notin {"rest", "looked"}
          PROVE  orders'[f] <= 1 /\ (orders'[f] # 0 => InSight(f)')
      <4>1. /\ orders'[f] <= 1 /\ (run'[t].pc = "rest" \/ run'[t].f = f)
            /\ orders'[f] # 0 => Knows(f)' \/ f \in ended' \/ run'[t].pc \in {"poll", "link"}
        BY <2>4, <3>1
      <4> QED BY <4>1 DEF InSight
    <3> QED BY <2>3, <3>1 DEF OrdersInSight
  <2>6. ASSUME NEW u \in Users, run'[u].pc \notin {"rest", "looked"}
        PROVE  run'[u].f \notin ended'
    <3>1. CASE u # t
      <4>1. run[u].f \in All /\ run[u].f \notin ended /\ run'[u] = run[u]
        BY <2>1, <2>6, <3>1, FolderInWork DEF Orders, BeforeOrder
      <4>2. run[u].f # run[t].f \/ run[t].pc \in {"rest", "looked"}
        BY <2>6, <3>1, <4>1, FoldersApart
      <4> QED BY <2>2, <4>1, <4>2
    <3>2. CASE u = t
      <4>1. CASE ShareableLink(t)
        BY <1>1, <2>6, <3>2, <4>1 DEF ShareableLink, Ends, Off
      <4>2. CASE Start(t)
        <5>1. PICK f \in All : /\ f \notin ended
                               /\ run' = [run EXCEPT ![t] = [Off EXCEPT !.pc = "begin", !.f = f,
                                                                       !.prev = slot]]
          BY <4>2 DEF Start, All
        <5>2. run'[t].f = f
          BY <1>1, <5>1 DEF Off
        <5> QED BY <3>2, <4>2, <5>1, <5>2 DEF Start
      <4>3. CASE ~ShareableLink(t) /\ ~Start(t)
        <5>1. UNCHANGED ended
          BY <1>2, <4>3 DEF Step, Faults, LookupFails, Begin, FileChunk, FileLast,
             FileRejected, FilesDone, Finalize, Open, Put, PutsDone, SubmitKnown, SubmitNew,
             Accepted, Failed, TryAgain, ConnectFails, RequestFails, Unnamed, SaveFails
        <5>2. run'[t].f = run[t].f /\ run[t].pc \notin {"rest", "looked"}
          BY <1>2, <2>6, <3>2, <4>3, StepMoves
        <5> QED BY <3>2, <5>1, <5>2 DEF Orders, BeforeOrder
      <4> QED BY <4>1, <4>2, <4>3
    <3> QED BY <3>1, <3>2
  <2>7. ASSUME NEW u \in Users, run'[u].pc \in {"open", "put", "file", "last"}
        PROVE  \A c \in ck'[run'[u].f] : c.order = None
    <3>1. CASE u # t
      <4>1. /\ run[u].f \in All /\ run'[u] = run[u]
            /\ \A c \in ck[run[u].f] : c.order = None
        BY <2>1, <2>7, <3>1, FolderInWork DEF Orders, BeforeOrder, Knows
      <4>2. run[u].f # run[t].f \/ run[t].pc \in {"rest", "looked"}
        BY <2>7, <3>1, <4>1, FoldersApart
      <4>3. ck'[run[u].f] = ck[run[u].f]
        BY <2>2, <4>1, <4>2
      <4> QED BY <4>1, <4>3
    <3>2. CASE u = t
      <4>1. run[t].pc \notin {"rest", "looked"} /\ run'[t].f = run[t].f
        <5>1. run'[t].pc \notin {"rest", "begin"}
          BY <2>7, <3>2
        <5> QED BY <1>2, <5>1, StepMoves
      <4>2. PICK g \in All : g = run[t].f
        BY <4>1, FolderInWork
      <4>3. ~Knows(g)'
        BY <2>4, <2>7, <3>2, <4>1, <4>2
      <4> QED BY <3>2, <4>1, <4>2, <4>3 DEF Knows
    <3> QED BY <3>1, <3>2
  <2>8. ASSUME NEW f \in All, NEW c \in ck'[f], c.phase # "manifest_pending"
        PROVE  c.order = None
    <3>1. CASE f # run[t].f \/ run[t].pc \in {"rest", "looked"}
      BY <2>2, <2>8, <3>1 DEF Orders, BeforeOrder
    <3>2. CASE f = run[t].f /\ run[t].pc \notin {"rest", "looked"}
      BY <2>4, <2>8, <3>2
    <3> QED BY <3>1, <3>2
  <2> QED BY <2>5, <2>6, <2>7, <2>8 DEF Orders, BeforeOrder, Knows
<1>3. CASE Look
  <2>1. /\ UNCHANGED <<ck, orders, ended>> /\ run["append"].pc = "rest"
        /\ run' = [run EXCEPT !["append"].pc = "looked"]
    BY <1>3 DEF Look, Goes, At, Users
  <2>2. \A u \in Users : run'[u] = run[u] \/ (run[u].pc = "rest" /\ run'[u].pc = "looked")
    BY <1>1, <2>1 DEF UserState, Users
  <2> QED BY <2>1, <2>2 DEF Orders, OrdersInSight, BeforeOrder, InSight, Knows
<1>4. CASE Crash
  <2>1. /\ UNCHANGED <<ck, ended>> /\ \A u \in Users : run'[u].pc = "rest"
        /\ LosesSight({t \in Users : Forgets(t)})
    BY <1>4 DEF Crash, Off
  <2>2. ASSUME NEW f \in All PROVE orders'[f] <= 1 /\ (orders'[f] # 0 => InSight(f)')
    <3>1. orders[f] <= 1 /\ (orders[f] # 0 => InSight(f))
      BY DEF Orders, OrdersInSight
    <3>2. orders'[f] = IF \E t \in {u \in Users : Forgets(u)} : run[t].f = f THEN 0 ELSE orders[f]
      BY <2>1 DEF LosesSight
    <3>3. orders'[f] # 0 => Knows(f) \/ f \in ended
      BY <3>1, <3>2 DEF InSight, Forgets, At
    <3> QED BY <1>1, <2>1, <3>1, <3>2, <3>3 DEF InSight, Knows
  <2> QED BY <2>1, <2>2 DEF Orders, OrdersInSight, BeforeOrder
<1>5. CASE SetActive \/ UNCHANGED vars
  BY <1>5 DEF SetActive, vars, Orders, OrdersInSight, BeforeOrder, InSight, Knows
<1> QED BY <1>2, <1>3, <1>4, <1>5 DEF Next, Rest

-----------------------------------------------------------------------------
\* In proxied mode a step that leaves the stores alone and takes the worker to a place where
\* it has nothing open, or leaves it where it is with the client as it was.
LEMMA QuietProxied ==
  ASSUME Proxied, mode = "proxied", UNCHANGED <<mode, ck, session, link>>,
         run'["append"].pc = "rest",
         \/ run'["worker"].pc \in {"rest", "begin", "failed"}
         \/ run'["worker"] = run["worker"] /\ UNCHANGED <<lastUrl, lastSession>>
  PROVE  Proxied'
<1>1. ProxiedUses'
  BY DEF Proxied, ProxiedUses, At
<1>2. CheckpointIsTrue'
  BY DEF Proxied, CheckpointIsTrue, Has
<1>3. WorkerFollows'
  BY DEF Proxied, WorkerFollows
<1>4. OrderIsWhole'
  BY DEF Proxied, OrderIsWhole, FinalizedHasAll, ProxiedLinkIsOwn
<1> QED BY <1>1, <1>2, <1>3, <1>4 DEF Proxied

\* What the stores of a folder are to satisfy; the others keep theirs.
FolderIsTrue(f) ==
    /\ \A c \in ck[f] :
          /\ \A j \in FilesOf : j < c.i => Has(f, j)
          /\ \/ c.phase = "uploading" /\ ~session[f].final
             \/ c.phase = "finalizing" /\ c.i = NFiles + 1
    /\ session[f].final => \A j \in FilesOf : Has(f, j)

\* A step of the worker on its folder.
LEMMA OneFolder ==
  ASSUME Proxied, mode = "proxied", mode' = mode, NEW f \in All,
         \A g \in All \ {f} : ck'[g] = ck[g] /\ session'[g] = session[g],
         FolderIsTrue(f)', UNCHANGED link, run'["append"].pc = "rest",
         run'["worker"].pc \in {"rest", "begin", "file", "last", "finalize", "link", "failed"},
         WorkerFollows'
  PROVE  Proxied'
<1>1. ProxiedUses'
  BY DEF ProxiedUses, At
<1>2. CheckpointIsTrue'
  BY DEF Proxied, CheckpointIsTrue, FolderIsTrue, Has
<1>3. FinalizedHasAll'
  BY DEF Proxied, OrderIsWhole, FinalizedHasAll, FolderIsTrue, Has
<1>4. ProxiedLinkIsOwn'
  BY DEF Proxied, OrderIsWhole, ProxiedLinkIsOwn
<1> QED BY <1>1, <1>2, <1>3, <1>4 DEF Proxied, OrderIsWhole

\* What is known of the folder the worker has begun.
LEMMA WorkersFolder ==
  ASSUME TypeOK, Proxied, mode = "proxied",
         run["worker"].pc \in {"begin", "file", "last", "finalize", "link"}
  PROVE  /\ run["worker"] \in UserState /\ run["worker"].f \in All /\ "worker" \in Users
         /\ FolderIsTrue(run["worker"].f)
         /\ run["append"].pc = "rest"
         /\ session[run["worker"].f] \in SessionState
         /\ session[run["worker"].f].got \in [FilesOf -> Int]
         /\ run["worker"].pc \in {"file", "last", "finalize"} =>
               \E c \in ck[run["worker"].f] :
                  /\ ck[run["worker"].f] = {c}
                  /\ IF run["worker"].pc = "finalize" THEN c.phase = "finalizing"
                     ELSE c.phase = "uploading" /\ c.i = run["worker"].i
<1>1. "worker" \in Users /\ "append" \in Users /\ run \in [Users -> UserState]
  BY DEF Users, TypeOK, UserTypes
<1>2. run["worker"].f \in All
  BY <1>1, FolderInWork
<1>3. FolderIsTrue(run["worker"].f)
  BY <1>2 DEF Proxied, CheckpointIsTrue, OrderIsWhole, FinalizedHasAll,
     FolderIsTrue, Has
<1>4. run["append"].pc = "rest"
  BY DEF Proxied, ProxiedUses, At
<1>5. ASSUME run["worker"].pc \in {"file", "last", "finalize"}
      PROVE  \E c \in ck[run["worker"].f] :
                  /\ ck[run["worker"].f] = {c}
                  /\ IF run["worker"].pc = "finalize" THEN c.phase = "finalizing"
                     ELSE c.phase = "uploading" /\ c.i = run["worker"].i
  BY <1>2, <1>5 DEF Proxied, WorkerFollows, TypeOK, StoreTypes
<1>6. session \in [All -> SessionState]
  BY DEF TypeOK, StoreTypes
<1>7. /\ session[run["worker"].f] \in SessionState
      /\ session[run["worker"].f].got \in [FilesOf -> Int]
  BY <1>2, <1>6 DEF SessionState
<1> QED BY <1>1, <1>2, <1>3, <1>4, <1>5, <1>7

\* upload_proxied_session begins: with a new session, or with what the checkpoint says.
LEMMA BeginIsTrue ==
  ASSUME TypeOK, Proxied, mode = "proxied", NEW f \in All, f = run["worker"].f,
         Begin("worker")
  PROVE  Proxied'
<1> DEFINE c == Resumed(f)
<1>1. /\ run["worker"].pc = "begin" /\ BeginProxied("worker", f, c)
      /\ UNCHANGED <<mode, lastUrl, link>>
  BY DEF Begin, At
<1>2. /\ f \in All /\ FolderIsTrue(f) /\ run["append"].pc = "rest" /\ "worker" \in Users
  BY <1>1, WorkersFolder
<1>3. /\ run'["worker"].pc = (IF c.phase = "finalizing" THEN "finalize" ELSE "file")
      /\ run'["worker"].i = c.i /\ run'["worker"].f = f
      /\ run'["append"] = run["append"] /\ lastSession' = f
  BY <1>1, <1>2 DEF BeginProxied, TypeOK, UserTypes, UserState, Users
<1>4. /\ c \in Checkpoint
      /\ ck[f] # {} => ck[f] = {c}
      /\ ck[f] = {} => c = Uploading(1, 0)
  BY <1>2, ResumedType DEF TypeOK
<1>5. CASE ck[f] = {}
  <2>1. c.phase = "uploading" /\ c.i = 1
    BY <1>4, <1>5 DEF Uploading
  <2>2. /\ Save(f, c) /\ session' = [session EXCEPT ![f] = DirectSession]
    BY <1>1, <1>5 DEF BeginProxied, SessionOpens
  <2>3. /\ ck'[f] = {c} /\ session'[f] = DirectSession
        /\ \A g \in All \ {f} : ck'[g] = ck[g] /\ session'[g] = session[g]
    BY <1>2, <1>4, <2>2, SaveEffect DEF TypeOK, StoreTypes
  <2>4. FolderIsTrue(f)'
    BY <2>1, <2>3 DEF FolderIsTrue, FilesOf, DirectSession
  <2>5. WorkerFollows'
    BY <1>3, <2>1, <2>3 DEF WorkerFollows
  <2> HIDE DEF c
  <2> QED BY <1>1, <1>2, <1>3, <2>3, <2>4, <2>5, OneFolder
<1>6. CASE ck[f] # {}
  <2>1. UNCHANGED <<ck, session>>
    BY <1>1, <1>6 DEF BeginProxied
  <2>2. c \in ck[f] /\ c.phase \in {"uploading", "finalizing"}
    BY <1>2, <1>4, <1>6 DEF FolderIsTrue
  <2>3. WorkerFollows'
    BY <1>3, <2>1, <2>2 DEF WorkerFollows
  <2>4. FolderIsTrue(f)'
    BY <1>2, <2>1 DEF FolderIsTrue, Has
  <2> HIDE DEF c
  <2> QED BY <1>1, <1>2, <1>3, <2>1, <2>3, <2>4, OneFolder
<1> QED BY <1>5, <1>6

\* A piece of a file: what was there before the file in work stays there in full.
LEMMA ChunkIsTrue ==
  ASSUME TypeOK, Proxied, mode = "proxied", NEW f \in All, f = run["worker"].f,
         NEW i \in 1..(NFiles + 1), i = run["worker"].i, FileChunk("worker") \/ FileLast("worker")
  PROVE  Proxied'
<1>1. run["worker"].pc \in {"file", "last"} /\ UNCHANGED <<mode, lastUrl, lastSession, link>>
  BY DEF FileChunk, FileLast, Sends, At, clientVars
<1>2. /\ f \in All /\ FolderIsTrue(f) /\ run["append"].pc = "rest" /\ "worker" \in Users
      /\ session[f] \in SessionState /\ session[f].got \in [FilesOf -> Int]
      /\ run["worker"] \in UserState
  BY <1>1, WorkersFolder
<1>3. PICK c \in ck[f] : ck[f] = {c} /\ c.phase = "uploading" /\ c.i = i
  BY <1>1, WorkersFolder
<1>4. i \in FilesOf
  <2>1. i \in 1..(NFiles + 1)
    BY <1>2 DEF UserState
  <2>2. run["worker"].pc = "last" => i <= NFiles
    BY <1>2 DEF TypeOK, UserTypes
  <2>3. i <= NFiles
    BY <2>2 DEF FileChunk, FileLast, Sends, At
  <2> QED BY <2>1, <2>3, CustomAssumption DEF FilesOf
<1>5. lastSession = f /\ ~session[f].final /\ \A j \in FilesOf : j < i => Has(f, j)
  BY <1>1, <1>2, <1>3 DEF Proxied, WorkerFollows, FolderIsTrue
<1>6. /\ StoreTypes /\ ClientTypes /\ run \in [Users -> UserState]
      /\ session \in [All -> SessionState]
  BY DEF TypeOK, UserTypes, StoreTypes
<1>7. CASE FileChunk("worker")
  <2> DEFINE now == Reached("worker")
  <2>1. /\ session' = [session EXCEPT ![f].got[i] = now] /\ Save(f, Uploading(i, now))
        /\ run'["worker"].pc \in {"file", "last"} /\ run'["worker"].f = f
        /\ run'["worker"].i = i /\ run'["append"] = run["append"]
    BY <1>2, <1>6, <1>7 DEF FileChunk, Answer, ChunkSaved, UserState, Users
  <2>2. now \in Int
    BY <1>2, <1>4, CustomAssumption DEF Reached, Piece, Smaller, UserState,
       FilesOf
  <2>3. Uploading(i, now) \in Checkpoint
    BY <1>4, <1>6, <2>2, CheckpointTypes, CustomAssumption DEF FilesOf
  <2>4. /\ ck'[f] = {Uploading(i, now)}
        /\ \A g \in All \ {f} : ck'[g] = ck[g] /\ session'[g] = session[g]
    BY <1>2, <1>6, <2>1, <2>3, SaveEffect
  <2>5. /\ session'[f].done = session[f].done /\ ~session'[f].final
        /\ \A j \in FilesOf : j < i => session'[f].got[j] = session[f].got[j]
    BY <1>2, <1>4, <1>5, <1>6, <2>1 DEF SessionState, FilesOf
  <2>6. Uploading(i, now).phase = "uploading" /\ Uploading(i, now).i = i
    BY DEF Uploading
  <2> HIDE DEF now
  <2>7. FolderIsTrue(f)'
    BY <1>5, <2>4, <2>5, <2>6 DEF FolderIsTrue, Has
  <2>8. WorkerFollows'
    BY <1>1, <1>5, <2>1, <2>4, <2>6 DEF WorkerFollows
  <2> QED BY <1>1, <1>2, <2>1, <2>4, <2>7, <2>8, OneFolder
<1>8. CASE FileLast("worker")
  <2>1. /\ session' = [session EXCEPT ![f].got[i] = Size[i], ![f].done = @ \cup {i}]
        /\ Save(f, Uploading(i + 1, 0))
        /\ run'["worker"].pc = "file" /\ run'["worker"].f = f
        /\ run'["worker"].i = i + 1 /\ run'["append"] = run["append"]
    BY <1>2, <1>6, <1>8 DEF FileLast, UserState, Users
  <2>2. Uploading(i + 1, 0) \in Checkpoint
    BY <1>4, <1>6, CheckpointTypes, CustomAssumption DEF FilesOf
  <2>3. /\ ck'[f] = {Uploading(i + 1, 0)}
        /\ \A g \in All \ {f} : ck'[g] = ck[g] /\ session'[g] = session[g]
    BY <1>2, <1>6, <2>1, <2>2, SaveEffect
  <2>4. /\ session'[f].done = session[f].done \cup {i} /\ session'[f].got[i] = Size[i]
        /\ ~session'[f].final
        /\ \A j \in FilesOf : j < i => session'[f].got[j] = session[f].got[j]
    <3>1. session'[f].got = [session[f].got EXCEPT ![i] = Size[i]]
      BY <1>2, <1>6, <2>1 DEF SessionState
    <3>2. session'[f].done = session[f].done \cup {i} /\ session'[f].final = session[f].final
      BY <1>2, <1>6, <2>1 DEF SessionState
    <3>3. session'[f].got[i] = Size[i]
      BY <1>2, <1>4, <3>1
    <3>4. ASSUME NEW j \in FilesOf, j < i PROVE session'[f].got[j] = session[f].got[j]
      <4>1. j # i
        BY <1>4, <3>4, CustomAssumption DEF FilesOf
      <4> QED BY <1>2, <1>4, <3>1, <4>1
    <3> QED BY <1>5, <3>2, <3>3, <3>4
  <2>5. Uploading(i + 1, 0).phase = "uploading" /\ Uploading(i + 1, 0).i = i + 1
    BY DEF Uploading
  <2>6. \A j \in FilesOf : j < i + 1 => j < i \/ j = i
    BY <1>4 DEF FilesOf
  <2>7. FolderIsTrue(f)'
    BY <1>5, <2>3, <2>4, <2>5, <2>6 DEF FolderIsTrue, Has
  <2>8. WorkerFollows'
    BY <1>1, <1>5, <2>1, <2>3, <2>5 DEF WorkerFollows
  <2> QED BY <1>1, <1>2, <2>1, <2>3, <2>7, <2>8, OneFolder
<1> QED BY <1>7, <1>8

\* Every file is there, and the session is finalised.
LEMMA FinalIsTrue ==
  ASSUME TypeOK, Proxied, mode = "proxied", NEW f \in All, f = run["worker"].f,
         FilesDone("worker") \/ Finalize("worker")
  PROVE  Proxied'
<1>1. /\ run["worker"].pc \in {"file", "finalize"} /\ UNCHANGED <<mode, lastSession, link>>
  BY DEF FilesDone, Finalize, At, clientVars
<1>2. /\ f \in All /\ FolderIsTrue(f) /\ run["append"].pc = "rest" /\ "worker" \in Users
      /\ session[f] \in SessionState /\ run["worker"] \in UserState
  BY <1>1, WorkersFolder
<1>3. /\ StoreTypes /\ ClientTypes /\ run \in [Users -> UserState]
      /\ session \in [All -> SessionState] /\ ck \in [All -> SUBSET Checkpoint]
  BY DEF TypeOK, UserTypes, StoreTypes
<1>4. lastSession = f
  BY <1>1 DEF Proxied, WorkerFollows
<1>5. CASE FilesDone("worker")
  <2>1. /\ run["worker"].pc = "file" /\ run["worker"].i > NFiles /\ Save(f, Finalizing)
        /\ run'["worker"].pc = "finalize" /\ run'["worker"].f = f
        /\ run'["append"] = run["append"] /\ UNCHANGED session
    BY <1>2, <1>3, <1>5 DEF FilesDone, At, Goes, UserState, Users
  <2>2. PICK c \in ck[f] : c.phase = "uploading" /\ c.i = run["worker"].i
    BY <2>1, WorkersFolder
  <2>3. c.i > NFiles /\ c.i \in Int
    BY <1>2, <2>1, <2>2 DEF UserState
  <2>4. \A j \in FilesOf : Has(f, j)
    BY <1>2, <2>2, <2>3, CustomAssumption DEF FolderIsTrue, FilesOf
  <2>5. /\ ck'[f] = {Finalizing} /\ \A g \in All \ {f} : ck'[g] = ck[g]
    BY <1>2, <1>3, <2>1, SaveEffect, CheckpointTypes
  <2>6. Finalizing.phase = "finalizing" /\ Finalizing.i = NFiles + 1
    BY DEF Finalizing, Uploading
  <2>7. FolderIsTrue(f)'
    BY <2>1, <2>4, <2>5, <2>6 DEF FolderIsTrue, Has
  <2>8. WorkerFollows'
    BY <1>1, <1>4, <2>1, <2>5, <2>6 DEF WorkerFollows
  <2> QED BY <1>1, <1>2, <2>1, <2>5, <2>7, <2>8, OneFolder
<1>6. CASE Finalize("worker")
  <2>1. /\ run["worker"].pc = "finalize" /\ session' = [session EXCEPT ![f].final = TRUE]
        /\ ck' = [ck EXCEPT ![f] = {}] /\ lastUrl' \in {f, None}
        /\ run'["worker"].pc = "link" /\ run'["worker"].f = f
        /\ run'["append"] = run["append"]
    BY <1>2, <1>3, <1>6 DEF Finalize, Answers, At, Goes, UserState, Users
  <2>2. PICK c \in ck[f] : c.phase = "finalizing"
    BY <2>1, WorkersFolder
  <2>3. \A j \in FilesOf : Has(f, j)
    BY <1>2, <2>2, CustomAssumption DEF FolderIsTrue, FilesOf
  <2>4. /\ ck'[f] = {}
        /\ \A g \in All \ {f} : ck'[g] = ck[g] /\ session'[g] = session[g]
    BY <1>3, <1>2, <2>1
  <2>5. session'[f].done = session[f].done /\ session'[f].got = session[f].got
    BY <1>2, <1>3, <2>1 DEF SessionState
  <2>6. FolderIsTrue(f)'
    BY <2>3, <2>4, <2>5 DEF FolderIsTrue, Has
  <2>7. WorkerFollows'
    BY <1>1, <1>4, <2>1 DEF WorkerFollows
  <2> QED BY <1>1, <1>2, <2>1, <2>4, <2>6, <2>7, OneFolder
<1> QED BY <1>5, <1>6

\* A request that failed may have taken effect: a piece that arrived, or a session that was
\* finalised, with every file there.
LEMMA FailureIsTrue ==
  ASSUME TypeOK, Proxied, mode = "proxied", NEW f \in All, f = run["worker"].f,
         NEW i \in 1..(NFiles + 1), i = run["worker"].i, RequestFails("worker"), session' # session
  PROVE  Proxied'
<1>1. /\ run["worker"].pc \in {"file", "finalize"}
      /\ UNCHANGED <<mode, ck, link>>
      /\ \/ run["worker"].pc = "finalize" /\ session' = [session EXCEPT ![f].final = TRUE]
         \/ Sends("worker") /\ session' = [session EXCEPT ![f].got[i] = Reached("worker")]
  BY DEF RequestFails, Sends, At, Answer
<1>2. /\ f \in All /\ FolderIsTrue(f) /\ run["append"].pc = "rest" /\ "worker" \in Users
      /\ session[f] \in SessionState /\ session[f].got \in [FilesOf -> Int]
      /\ run["worker"] \in UserState
  BY <1>1, WorkersFolder
<1>3. /\ run \in [Users -> UserState] /\ session \in [All -> SessionState]
  BY DEF TypeOK, UserTypes, StoreTypes
<1>4. /\ run'["worker"].pc = "failed" /\ run'["append"] = run["append"]
      /\ \A g \in All \ {f} : ck'[g] = ck[g] /\ session'[g] = session[g]
  BY <1>1, <1>2, <1>3 DEF RequestFails, Goes, UserState, Users
<1>5. WorkerFollows'
  BY <1>4 DEF WorkerFollows
<1>6. FolderIsTrue(f)'
  <2>1. CASE run["worker"].pc = "finalize"
    <3>1. PICK c \in ck[f] : c.phase = "finalizing" /\ ck[f] = {c}
      BY <2>1, WorkersFolder
    <3>2. \A j \in FilesOf : Has(f, j)
      <4>1. c.i = NFiles + 1 /\ \A j \in FilesOf : j < c.i => Has(f, j)
        BY <1>2, <3>1 DEF FolderIsTrue
      <4>2. \A j \in FilesOf : j < NFiles + 1
        BY CustomAssumption DEF FilesOf
      <4> QED BY <4>1, <4>2
    <3>3. session'[f].done = session[f].done /\ session'[f].got = session[f].got
      BY <1>1, <1>2, <1>3, <2>1 DEF SessionState, Sends, At
    <3>4. c.i = NFiles + 1
      BY <1>2, <3>1 DEF FolderIsTrue
    <3> QED BY <1>1, <3>1, <3>2, <3>3, <3>4 DEF FolderIsTrue, Has
  <2>2. CASE run["worker"].pc = "file"
    <3>1. PICK c \in ck[f] : c.phase = "uploading" /\ c.i = i /\ ck[f] = {c}
      BY <2>2, WorkersFolder
    <3>2. /\ session'[f].done = session[f].done /\ session'[f].final = session[f].final
          /\ \A j \in FilesOf : j < i => session'[f].got[j] = session[f].got[j]
      <4>1. i \in 1..(NFiles + 1)
        BY <1>2 DEF UserState
      <4>2. session'[f] = [session[f] EXCEPT !.got = [session[f].got EXCEPT ![i] = Reached("worker")]]
        BY <1>1, <1>2, <1>3, <2>2
      <4> QED BY <1>2, <4>1, <4>2 DEF SessionState, FilesOf
    <3> QED BY <1>1, <1>2, <3>1, <3>2 DEF FolderIsTrue, Has
  <2> QED BY <1>1, <2>1, <2>2
<1> QED BY <1>1, <1>2, <1>4, <1>5, <1>6, OneFolder

\* The link the customer is sent is the one this folder's finalize answered, or the one its
\* own session's status answers.
LEMMA LinkIsTrue ==
  ASSUME TypeOK, Proxied, mode = "proxied", NEW f \in All, f = run["worker"].f,
         ShareableLink("worker")
  PROVE  Proxied'
<1>1. run["worker"].pc = "link" /\ UNCHANGED <<mode, ck, session>>
  BY DEF ShareableLink, At
<1>2. f \in All /\ run["append"].pc = "rest"
  BY <1>1, WorkersFolder
<1>3. lastSession = f /\ lastUrl \in {f, None}
  BY <1>1 DEF Proxied, WorkerFollows
<1>4. PICK u \in {f, None} : link' = [link EXCEPT ![f] = u]
  BY <1>3 DEF ShareableLink, Answers
<1>5. run'["worker"].pc = "rest" /\ run'["append"] = run["append"]
  BY DEF ShareableLink, Ends, Off, TypeOK, UserTypes, Users
<1>6. OrderIsWhole'
  <2>1. FinalizedHasAll'
    BY <1>1 DEF Proxied, OrderIsWhole, FinalizedHasAll
  <2>2. ProxiedLinkIsOwn'
    BY <1>1, <1>4 DEF Proxied, OrderIsWhole, ProxiedLinkIsOwn, TypeOK, StoreTypes
  <2> QED BY <2>1, <2>2 DEF OrderIsWhole
<1>7. ProxiedUses' /\ WorkerFollows'
  BY <1>2, <1>5 DEF ProxiedUses, WorkerFollows, At
<1>8. CheckpointIsTrue'
  BY <1>1 DEF Proxied, CheckpointIsTrue, Has
<1> QED BY <1>6, <1>7, <1>8 DEF Proxied

\* Every step of a proxied transfer, of a crash and of the settings.
LEMMA ProxiedStep ==
  ASSUME TypeOK, Proxied, mode = "proxied", [Next]_vars
  PROVE  Proxied'
<1>1. /\ run \in [Users -> UserState] /\ "worker" \in Users /\ "append" \in Users
      /\ run["append"].pc = "rest" /\ mode # "direct"
      /\ run["worker"].pc \in {"rest", "begin", "file", "last", "finalize", "link", "failed"}
  BY DEF TypeOK, UserTypes, Users, Proxied, ProxiedUses, At
<1>2. ASSUME Step("append") \/ Faults("append") PROVE FALSE
  BY <1>1, <1>2 DEF Step, LookupFails, Start, Begin, FileChunk, FileLast,
     FileRejected,
     FilesDone, Finalize, Open, Put, PutsDone, SubmitKnown, SubmitNew, Accepted,
     ShareableLink, Failed, TryAgain, Faults, ConnectFails, RequestFails, Unnamed, SaveFails,
     Unordered, Sends, At
<1>3. ASSUME Step("worker") \/ Faults("worker")
      PROVE  Proxied'
  <2>1. run'["append"].pc = "rest"
    BY <1>1, <1>3, StepMoves
  <2>2. CASE Start("worker") \/ TryAgain("worker") \/ Failed("worker") \/ FileRejected("worker")
             \/ ConnectFails("worker") \/ LookupFails("worker")
    <3>1. UNCHANGED <<mode, ck, session, link>>
      BY <2>2 DEF Start, TryAgain, Failed, FileRejected, ConnectFails, LookupFails
    <3>2. run'["worker"].pc \in {"rest", "begin", "failed"}
      BY <1>1, <2>2, RestPlaces
    <3> QED BY <2>1, <3>1, <3>2, QuietProxied
  <2>3. ASSUME Open("worker") \/ Put("worker") \/ PutsDone("worker") \/ SubmitKnown("worker")
               \/ SubmitNew("worker") \/ Accepted("worker") \/ Unnamed("worker")
               \/ SaveFails("worker")
        PROVE  FALSE
    BY <1>1, <2>3 DEF Open, Put, PutsDone, SubmitKnown, SubmitNew, Accepted, Unnamed,
       SaveFails, Unordered, At
  <2>4. CASE \/ Begin("worker") \/ FileChunk("worker") \/ FileLast("worker")
             \/ FilesDone("worker") \/ Finalize("worker") \/ ShareableLink("worker")
             \/ RequestFails("worker")
    <3>1. run["worker"].pc \notin {"rest", "looked"} /\ run["worker"] \in UserState
      BY <1>1, <2>4 DEF Begin, FileChunk, FileLast, FilesDone, Finalize,
         ShareableLink,
         RequestFails, Sends, At
    <3>2. run["worker"].f \in All /\ run["worker"].i \in 1..(NFiles + 1)
      BY <1>1, <3>1, FolderInWork DEF UserState
    <3>3. CASE Begin("worker")
      BY <3>2, <3>3, BeginIsTrue
    <3>4. CASE FileChunk("worker") \/ FileLast("worker")
      BY <3>2, <3>4, ChunkIsTrue
    <3>5. CASE FilesDone("worker") \/ Finalize("worker")
      BY <3>2, <3>5, FinalIsTrue
    <3>6. CASE ShareableLink("worker")
      BY <3>2, <3>6, LinkIsTrue
    <3>7. CASE RequestFails("worker") /\ session' # session
      BY <3>2, <3>7, FailureIsTrue
    <3>8. CASE RequestFails("worker") /\ session' = session
      <4>1. UNCHANGED <<mode, ck, link>> /\ run'["worker"].pc = "failed"
        BY <1>1, <3>8 DEF RequestFails, Goes, UserState
      <4> QED BY <2>1, <3>8, <4>1, QuietProxied
    <3> QED BY <2>4, <3>3, <3>4, <3>5, <3>6, <3>7, <3>8
  <2> QED BY <1>3, <2>2, <2>3, <2>4 DEF Step, Faults
<1>4. CASE Crash
  BY <1>1, <1>4, QuietProxied DEF Crash, Off
<1>5. CASE SetActive \/ UNCHANGED vars
  BY <1>1, <1>5, QuietProxied DEF SetActive, vars, clientVars
<1>6. ~Look
  BY <1>1 DEF Look
<1> QED BY <1>2, <1>3, <1>4, <1>5, <1>6 DEF Next, Rest, Users

\* In direct mode no link of a proxied folder is at stake.
LEMMA ProxiedElsewhere ==
  ASSUME TypeOK, DirectUses, DirectUses', mode' = "direct"
  PROVE  Proxied'
BY DEF Proxied, ProxiedUses, CheckpointIsTrue, WorkerFollows, OrderIsWhole,
   FinalizedHasAll,
       ProxiedLinkIsOwn, DirectUses

\* Every step preserves the invariant.
LEMMA NextIInv == IInv /\ [Next]_vars => IInv'
<1> SUFFICES ASSUME IInv, [Next]_vars PROVE IInv'
  OBVIOUS
<1>1. TypeOK /\ Orders /\ DirectUses /\ Proxied
  BY DEF IInv
<1>2. TypeOK' /\ Orders' /\ DirectUses'
  BY <1>1, TypesStep, OrdersStep, DirectStep
<1>3. mode \in {"proxied", "direct"} /\ mode' = mode
  BY <1>1 DEF TypeOK, ClientTypes, Next, Look, Step, LookupFails, Start, Begin,
     FileChunk,
     FileLast, FileRejected, FilesDone, Finalize, Open, Put, PutsDone, SubmitKnown, SubmitNew,
     Accepted, ShareableLink, Failed, TryAgain, Faults, ConnectFails, RequestFails, Unnamed, SaveFails,
     Crash, SetActive,
     Rest, vars
<1>4. Proxied'
  BY <1>1, <1>2, <1>3, ProxiedStep, ProxiedElsewhere
<1> QED BY <1>2, <1>4 DEF IInv

-----------------------------------------------------------------------------
\* The invariant holds in every behaviour.
THEOREM CustomInvariance == Spec => []IInv
BY InitIInv, NextIInv, PTL DEF Spec

\* upload_proxied_session, finalize_or_poll, shareable_link: a session that is finalised has
\* every file in full, and a customer is sent the folder's own link or none, whatever was
\* resumed, took effect without an answer or was cut off, for any number of files and any
\* sizes.
THEOREM OrderIsAlwaysWhole == Spec => []OrderIsWhole
<1>1. IInv => OrderIsWhole
  BY DEF IInv, Proxied
<1> QED BY <1>1, CustomInvariance, PTL

\* submit_manifest_v11 and its on_checkpoint: as long as the code has an order of a folder in
\* sight, no failure, stop or resumption makes a second one, for any number of folders, files
\* and faults.
THEOREM OrdersAreAccounted == Spec => []OneOrderInSight
<1>1. IInv => OneOrderInSight
  BY DEF IInv, Orders, OrdersInSight, OneOrderInSight
<1> QED BY <1>1, CustomInvariance, PTL
=============================================================================
