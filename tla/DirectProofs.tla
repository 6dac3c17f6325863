---------------------------- MODULE DirectProofs ----------------------------
(* What a successful Dropbox attempt leaves behind, for every folder, every   *)
(* chunk, slice and lane size and every number of attempts and faults:        *)
(*   UploadIsAlwaysWhole   a file is there in full or not at all, no saved    *)
(*                         cursor is ahead of its session, and an attempt     *)
(*                         that began with the first file left none out;      *)
(*   OlderMediaAreKept     an append writes over no older medium as long as   *)
(*                         every probe was answered.                          *)
(*                                                                            *)
(* Neither is inductive.  That nothing is torn rests on what a lane has sent  *)
(* (LanesFit, SerialFile) and on where a saved cursor may stand (CursorsFit); *)
(* that nothing is left out rests on where each file of the slice is: still   *)
(* queued, in a lane, closed and waiting for the commit, or done              *)
(* (SliceCovered); and the older media rest on the names the checkpoints keep *)
(* (NamesFree).                                                               *)
EXTENDS DirectUpload, FiniteSetTheorems, WellFoundedInduction, TLAPS

Naming == [Files -> 0..Copies]
Payloads == [next : 1..(N + 1), off : Nat, rows : SUBSET Files, names : Naming,
             resolved : BOOLEAN, phase : {"uploading", "manifest_pending"}]
Places == {"idle", "slice", "manifest", "serial", "small", "large", "commit",
           "group"}

(* Types, as far as the argument needs them.                                  *)
Types ==
    /\ kind \in {"native", "custom"} /\ append \in BOOLEAN /\ missed \in BOOLEAN
    /\ remote \in [Names -> Int] /\ held \in [Files -> Int]
    /\ ck \cup pend \subseteq Payloads
    /\ pc \in Places /\ names \in Naming
    /\ start \in 1..(N + 1) /\ idx \in 1..(N + 1) /\ last \in 0..N
    /\ queue \subseteq Files /\ rows \subseteq Files /\ skip \subseteq Files
    /\ DOMAIN lane \subseteq Files /\ DOMAIN ready \subseteq Files

(* A lane has sent no more than its file; a closed session has all of it.     *)
LanesFit ==
    /\ \A f \in DOMAIN lane : lane[f] \in 0..Size[f]
    /\ \A f \in DOMAIN ready : ready[f] = Size[f]

(* A saved cursor stands in a large file, not ahead of its session; the       *)
(* attempt that runs is past that file, or at it and not behind the cursor.   *)
CursorFits(c) ==
    /\ c.next \in Files /\ ~Small(c.next) /\ c.off <= Size[c.next]
    /\ held[c.next] = Closed \/ held[c.next] >= c.off
    /\ \/ pc = "idle" \/ c.next < idx
       \/ pc = "serial" /\ c.next \in DOMAIN lane /\ c.off <= lane[c.next]
CursorsFit == \A c \in ck \cup pend : c.off > 0 => CursorFits(c)

(* Only the Custom API client keeps rows, and the order waits only once every *)
(* file has been handled.                                                     *)
RowsFit == kind = "native" => rows = {} /\ skip = {}
PayloadFits(c) ==
    /\ kind = "native" => c.rows = {}
    /\ c.phase = "manifest_pending" => c.next = N + 1
PayloadsFit == \A c \in ck \cup pend : PayloadFits(c)

(* The one file of a serial slice, and how much of it its session has.        *)
SerialFile ==
    pc = "serial" =>
        \E f \in idx..last :
            /\ DOMAIN lane = {f} /\ \A g \in idx..last : g = f \/ g \in skip
            /\ lane[f] > 0 => held[f] = Closed \/ held[f] >= lane[f]

Done(f) == remote[Name(f)] = Size[f]
Waiting == queue \cup DOMAIN lane

(* Where the files of the slice in work are.                                  *)
SliceCovered ==
    /\ pc = "small" => /\ Waiting \subseteq {f \in Slice : Small(f)}
                       /\ \A f \in Slice \ Waiting : Small(f) => Done(f)
    /\ pc = "large" => Waiting \subseteq Large /\ Large \subseteq Waiting \cup DOMAIN ready
    /\ pc = "commit" => Large \subseteq DOMAIN ready
    /\ pc \in {"large", "commit"} => \A f \in Slice : Small(f) => Done(f)
    /\ pc = "group" => \A f \in Slice : Done(f)

(* What an attempt that began with the first file has done.                   *)
FreshDone ==
    /\ pc # "idle" => result = "running"
    /\ pc # "idle" /\ start = 1 =>
         /\ skip = {} /\ \A f \in Files : f < idx => Done(f)
         /\ pc = "manifest" => idx = N + 1

(* An older medium has its own name, is there for an append only, and is not  *)
(* among the names of the attempt or of a checkpoint.                         *)
NamesFree ==
    /\ ~append => \A x \in Names : remote[x] # Older
    /\ \A x \in Names : remote[x] = Older => x[2] = 0
    /\ \A c \in ck \cup pend : c.resolved => append
    /\ ~missed =>
         /\ pc # "idle" => \A f \in Files : remote[Name(f)] # Older
         /\ \A c \in ck \cup pend : c.resolved =>
                \A f \in Files : remote[<<f, c.names[f]>>] # Older

IInv ==
    /\ Types /\ LanesFit /\ CursorsFit /\ RowsFit /\ PayloadsFit
    /\ SerialFile /\ SliceCovered /\ FreshDone /\ NamesFree /\ NoTornFile /\ FreshComplete

-----------------------------------------------------------------------------
(* The operators the model is built from.                                     *)

Below == {p \in Nat \X Nat : p[1] < p[2]}

(* The order of the naturals as a well-founded relation.                      *)
LEMMA BelowIsWellFounded == IsWellFoundedOn(Below, Nat)
<1>1. OpToRel(<, Nat) = Below
  BY Zenon DEF OpToRel, Below
<1>. QED
  BY <1>1, NatLessThanWellFounded, Zenon

(* Least returns the least member of a set of naturals.                       *)
LEMMA LeastOfNats ==
  ASSUME NEW S \in SUBSET Nat, S # {}
  PROVE  Least(S) \in S /\ \A y \in S : Least(S) <= y
<1>1. PICK x \in S : \A y \in S : ~(<<y, x>> \in Below)
  BY BelowIsWellFounded, WFMin, Zenon
<1>2. \A y \in S : ~(y < x)
  BY <1>1 DEF Below
<1>3. x \in Nat /\ \A y \in S : y \in Nat
  BY SMT
<1>4. \A y \in S : x <= y
  BY <1>2, <1>3
<1>. QED
  BY <1>4, Zenon DEF Least

(* Greatest returns the greatest member of a bounded set of naturals.         *)
LEMMA GreatestOfBounded ==
  ASSUME NEW m \in Nat, NEW S \in SUBSET (0..m), S # {}
  PROVE  Greatest(S) \in S /\ \A y \in S : y <= Greatest(S)
<1>. DEFINE M == {m - x : x \in S}
<1>1. M \in SUBSET Nat /\ M # {}
  <2>1. PICK x \in S : TRUE
    BY Zenon
  <2>2. m - x \in M
    BY <2>1, Zenon
  <2>3. \A y \in S : m - y \in Nat
    BY SMT
  <2>4. M \subseteq Nat
    BY <2>3, Zenon
  <2>. QED
    BY <2>2, <2>4, Zenon
<1>2. PICK k \in M : \A y \in M : k <= y
  BY <1>1, LeastOfNats, Zenon
<1>3. PICK x \in S : k = m - x
  OBVIOUS
<1>4. \A y \in S : y <= x
  BY <1>2, <1>3
<1>. QED
  BY <1>4, Zenon DEF Greatest

(* Least of two numbers.                                                      *)
LEMMA LeastOfTwo ==
  ASSUME NEW a \in Int, NEW b \in Int
  PROVE  Least({a, b}) = IF a <= b THEN a ELSE b
<1>1. CASE a <= b
  <2>1. Least({a, b}) \in {a, b} /\ \A y \in {a, b} : Least({a, b}) <= y
    <3>1. a \in {a, b} /\ \A y \in {a, b} : a <= y
      BY <1>1
    <3>. QED
      BY <3>1, Zenon DEF Least
  <2>. QED
    BY <1>1, <2>1
<1>2. CASE b < a
  <2>1. Least({a, b}) \in {a, b} /\ \A y \in {a, b} : Least({a, b}) <= y
    <3>1. b \in {a, b} /\ \A y \in {a, b} : b <= y
      BY <1>2
    <3>. QED
      BY <3>1, Zenon DEF Least
  <2>. QED
    BY <1>2, <2>1
<1>. QED
  BY <1>1, <1>2

(* What the constants say of a file.                                          *)
LEMMA FileSizes ==
  /\ N \in Nat \ {0} /\ \A f \in Files : f \in Nat /\ Size[f] \in Nat
  /\ SmallMax \in Nat \ {0} /\ Chunk \in Nat \ {0} /\ BatchMax \in Nat \ {0}
  /\ Copies \in Nat \ {0}
BY SizesAssumption DEF Files

(* A piece is what is left of the file or one chunk, the smaller.             *)
LEMMA PieceFits ==
  ASSUME NEW f \in Files, NEW sent \in 0..Size[f]
  PROVE  /\ Piece(f, sent) \in Nat /\ sent + Piece(f, sent) \in 0..Size[f]
         /\ Size[f] - sent <= Chunk => sent + Piece(f, sent) = Size[f]
BY FileSizes, LeastOfTwo DEF Piece

(* The index an attempt resumes at: not before the saved one, nor before the  *)
(* file after a row.                                                          *)
LEMMA ResumeFits ==
  ASSUME NEW next \in 1..(N + 1), NEW done \in SUBSET Files
  PROVE  /\ EffectiveResumeIndex(next, done) \in 1..(N + 1)
         /\ next <= EffectiveResumeIndex(next, done)
         /\ \A f \in done : f < EffectiveResumeIndex(next, done)
<1>. DEFINE S == {next} \cup {f + 1 : f \in done}
<1>1. S \subseteq 1..(N + 1) /\ S # {} /\ next \in S /\ \A f \in done : f + 1 \in S
  BY FileSizes DEF Files
<1>2. N + 1 \in Nat /\ S \in SUBSET (0..(N + 1))
  BY <1>1, FileSizes
<1>. HIDE DEF S
<1>3. Greatest(S) \in S /\ \A y \in S : y <= Greatest(S)
  BY <1>1, <1>2, GreatestOfBounded
<1>4. EffectiveResumeIndex(next, done) = Greatest(S)
  BY DEF EffectiveResumeIndex, S
<1>5. Greatest(S) \in 1..(N + 1) /\ next <= Greatest(S)
  BY <1>1, <1>3, Zenon
<1>6. \A f \in done : f + 1 <= Greatest(S) /\ f \in Nat
  BY <1>1, <1>3 DEF Files
<1>7. \A f \in done : f < Greatest(S)
  BY <1>5, <1>6, FileSizes
<1>. QED
  BY <1>4, <1>5, <1>7, Zenon

(* A remapped name is a name, and one that is free or the last looked at.     *)
LEMMA RemappedIsFree ==
  ASSUME NEW occupied
  PROVE  /\ Remapped(occupied) \in Naming
         /\ \A f \in Files : \/ <<f, Remapped(occupied)[f]>> \notin occupied
                             \/ Remapped(occupied)[f] = Copies
<1>. DEFINE S(f) == {n \in 0..Copies : <<f, n>> \notin occupied} \cup {Copies}
<1>1. \A f : S(f) \in SUBSET Nat /\ S(f) # {} /\ S(f) \subseteq 0..Copies
  BY FileSizes
<1>2. \A f : \A n \in S(f) : <<f, n>> \notin occupied \/ n = Copies
  OBVIOUS
<1>3. Remapped(occupied) = [f \in Files |-> Least(S(f))]
  BY DEF Remapped
<1>. HIDE DEF S
<1>4. \A f : Least(S(f)) \in S(f)
  BY <1>1, LeastOfNats, Zenon
<1>. QED
  BY <1>1, <1>2, <1>3, <1>4 DEF Naming

-----------------------------------------------------------------------------
(* What every step but Begin has in common.                                   *)

(* A step writes only the names of the attempt, each with the whole file.     *)
RemoteGrows ==
    /\ remote' \in [Names -> Int]
    /\ \A x \in Names :
         \/ remote'[x] = remote[x]
         \/ pc # "idle" /\ x = Name(x[1]) /\ remote'[x] = Size[x[1]]

(* A payload a running attempt writes.                                        *)
Own(c) ==
    /\ c \in Payloads /\ c.names = names /\ PayloadFits(c)
    /\ c.resolved => append

Steady ==
    /\ kind' = kind /\ append' = append /\ missed' = missed /\ names' = names
    /\ start' = start /\ RemoteGrows /\ (pc = "idle" => pc' = "idle")
    /\ \A c \in ck' \cup pend' : c \in ck \cup pend \/ (pc # "idle" /\ Own(c))

(* The payloads written are of the attempt's own files.                       *)
LEMMA PayloadIsOwn ==
  ASSUME Types, NEW next \in 1..(N + 1), NEW off \in Nat,
         NEW done \in SUBSET Files, kind = "native" => done = {},
         NEW resolved \in BOOLEAN, resolved => append
  PROVE  /\ Own(Payload(next, off, done, resolved))
         /\ Payload(next, off, done, resolved).off = off
         /\ Payload(next, off, done, resolved).next = next
BY DEF Payload, Own, PayloadFits, Payloads, Types

(* A due or a held back write leaves no payload but the old ones and its own. *)
LEMMA UpdateWrites ==
  ASSUME NEW c, NEW force, Update(c, force)
  PROVE  ck' \cup pend' \subseteq ck \cup {c}
BY DEF Update

(* The name of a file is one of the remote names.                             *)
LEMMA NamesInRange ==
  ASSUME NEW n \in Naming, NEW f \in Files
  PROVE  <<f, n[f]>> \in Names
BY DEF Naming, Names

(* What is done stays done.                                                   *)
LEMMA DoneStays ==
  ASSUME Types, RemoteGrows, names' = names, NEW f \in Files, Done(f)
  PROVE  Done(f)'
<1>1. <<f, names[f]>> \in Names
  BY NamesInRange DEF Types
<1>2. remote'[<<f, names[f]>>] = Size[f]
  BY <1>1 DEF RemoteGrows, Done, Name
<1>. QED
  BY <1>2 DEF Done, Name

(* A step that is steady tears no file, keeps the names free and writes       *)
(* payloads that fit.                                                         *)
LEMMA SteadyKeeps ==
  ASSUME IInv, Steady
  PROVE  /\ ck' \cup pend' \subseteq Payloads
         /\ NoTornFile' /\ PayloadsFit' /\ NamesFree'
<1>. USE DEF IInv
<1>1. ck' \cup pend' \subseteq Payloads
  BY DEF Steady, Own, Types
<1>2. NoTornFile'
  <2>1. \A x \in Names : remote'[x] \in {Absent, Older, Size[x[1]]}
    BY DEF Steady, RemoteGrows, NoTornFile
  <2>. QED
    BY <2>1 DEF NoTornFile
<1>3. PayloadsFit'
  BY DEF Steady, Own, PayloadsFit, PayloadFits
<1>4. ASSUME NEW x \in Names, remote'[x] = Older
      PROVE  remote[x] = Older
  <2>1. x[1] \in Files /\ Size[x[1]] # Older
    BY FileSizes DEF Names, Older
  <2>. QED
    BY <1>4, <2>1 DEF Steady, RemoteGrows
<1>5. NamesFree'
  <2>1. ~append' => \A x \in Names : remote'[x] # Older
    BY <1>4 DEF NamesFree, Steady
  <2>2. \A x \in Names : remote'[x] = Older => x[2] = 0
    BY <1>4 DEF NamesFree
  <2>3. \A c \in ck' \cup pend' : c.resolved => append'
    BY DEF NamesFree, Steady, Own
  <2>4. ASSUME ~missed', pc # "idle", NEW f \in Files
        PROVE  remote'[<<f, names[f]>>] # Older
    <3>1. <<f, names[f]>> \in Names
      BY NamesInRange DEF Types
    <3>2. remote[<<f, names[f]>>] # Older
      BY <2>4 DEF NamesFree, Steady, Name
    <3>. QED
      BY <3>1, <3>2, <1>4
  <2>5. ASSUME ~missed', NEW c \in ck' \cup pend', c.resolved, NEW f \in Files
        PROVE  remote'[<<f, c.names[f]>>] # Older
    <3>1. <<f, c.names[f]>> \in Names
      <4>1. c.names \in Naming
        BY <1>1 DEF Payloads
      <4>. QED
        BY <4>1, NamesInRange
    <3>2. CASE c \in ck \cup pend
      <4>1. remote[<<f, c.names[f]>>] # Older
        BY <2>5, <3>2 DEF NamesFree, Steady
      <4>. QED
        BY <4>1, <3>1, <1>4
    <3>3. CASE pc # "idle" /\ Own(c)
      BY <2>5, <3>3, <2>4 DEF Own
    <3>. QED
      BY <3>2, <3>3 DEF Steady
  <2>. QED
    BY <2>1, <2>2, <2>3, <2>4, <2>5 DEF NamesFree, Steady, Name
<1>. QED
  BY <1>1, <1>2, <1>3, <1>5

-----------------------------------------------------------------------------
(* The end of an attempt.                                                     *)

(* A step that ends the attempt keeps the invariant when it is steady, leaves *)
(* the saved cursors behind their sessions, and reports success only for      *)
(* files that are done.                                                       *)
LEMMA OverKeeps ==
  ASSUME IInv, Steady, NEW r, Over(r), held' \in [Files -> Int],
         \A c \in ck' : c.off > 0 =>
             /\ c.next \in Files /\ ~Small(c.next) /\ c.off <= Size[c.next]
             /\ held'[c.next] = Closed \/ held'[c.next] >= c.off,
         (r = "uploaded" /\ start = 1) => (\A f \in Files : Done(f)')
  PROVE  IInv' /\ RemoteGrows
<1>1. /\ pc' = "idle" /\ result' = r /\ pend' = {} /\ idx' = 1 /\ last' = 0
      /\ queue' = {} /\ lane' = Idle /\ ready' = Idle /\ rows' = {} /\ skip' = {}
      /\ append' = append /\ names' = names /\ start' = start
  BY Zenon DEF Over, attemptVars
<1>2. DOMAIN Idle = {}
  BY DEF Idle
<1>3. kind' = kind /\ missed' = missed /\ remote' \in [Names -> Int]
  BY Zenon DEF Steady, RemoteGrows
<1>4. /\ ck' \cup pend' \subseteq Payloads
      /\ NoTornFile' /\ PayloadsFit' /\ NamesFree'
  BY SteadyKeeps, Zenon
<1>5. Types'
  BY <1>1, <1>2, <1>3, <1>4, FileSizes DEF Types, Places, IInv
<1>6. LanesFit' /\ RowsFit'
  BY <1>1, <1>2 DEF LanesFit, RowsFit
<1>7. CursorsFit'
  BY <1>1 DEF CursorsFit, CursorFits
<1>8. SerialFile' /\ SliceCovered' /\ FreshDone'
  BY <1>1 DEF SerialFile, SliceCovered, FreshDone
<1>9. FreshComplete'
  BY <1>1 DEF FreshComplete, Done
<1>. QED
  BY <1>4, <1>5, <1>6, <1>7, <1>8, <1>9 DEF IInv, Steady

(* Saved cursors whose file and session are left alone still fit.             *)
LEMMA CursorsLeft ==
  ASSUME IInv, \A f \in Files : held'[f] = held[f] \/ held'[f] = Closed
                                \/ (held[f] # Closed /\ held'[f] >= held[f]),
         held' \in [Files -> Int], NEW c \in ck \cup pend, c.off > 0
  PROVE  /\ c.next \in Files /\ ~Small(c.next) /\ c.off <= Size[c.next]
         /\ held'[c.next] = Closed \/ held'[c.next] >= c.off
<1>1. CursorFits(c) /\ c.off \in Nat
  BY DEF IInv, CursorsFit, Types, Payloads
<1>. QED
  BY <1>1 DEF CursorFits, IInv, Types, Closed

(* The steps after the last slice.                                            *)
LEMMA FilesUploadedKeeps ==
  ASSUME IInv, FilesUploaded
  PROVE  IInv' /\ RemoteGrows
<1>1. pc = "slice" /\ idx > N /\ remote' = remote /\ held' = held /\ missed' = missed
  BY Zenon DEF FilesUploaded
<1>2. idx = N + 1
  BY <1>1, FileSizes DEF IInv, Types
<1>3. start = 1 => \A f \in Files : Done(f)
  BY <1>1, <1>2, FileSizes DEF IInv, FreshDone, Files
<1>4. RemoteGrows
  BY <1>1 DEF RemoteGrows, IInv, Types
<1>5. CASE kind = "native"
  <2>1. ck' = {} /\ Over("uploaded")
    BY <1>5, Zenon DEF FilesUploaded
  <2>2. pend' = {} /\ append' = append /\ names' = names /\ kind' = kind /\ start' = start
        /\ pc' = "idle"
    BY <2>1, Zenon DEF Over
  <2>3. Steady
    BY <1>1, <1>4, <2>1, <2>2 DEF Steady
  <2>4. \A f \in Files : Done(f)' <=> Done(f)
    BY <1>1, <2>2 DEF Done, Name
  <2>. QED
    BY <1>1, <1>3, <2>1, <2>3, <2>4, OverKeeps DEF IInv, Types
<1>6. CASE kind # "native"
  <2>1. /\ pc' = "manifest"
        /\ ck' = {[Payload(N + 1, 0, rows, FALSE) EXCEPT
                           !.phase = "manifest_pending"]}
        /\ UNCHANGED <<kind, append, pend, saved, limit, names, start, idx,
                           last, queue, lane, ready, rows, skip, result,
                           attempts>>
    BY <1>6, Zenon DEF FilesUploaded
  <2>. DEFINE c0 == [Payload(N + 1, 0, rows, FALSE) EXCEPT
                           !.phase = "manifest_pending"]
  <2>2. Own(c0) /\ c0.off = 0 /\ c0.next = N + 1
    <3>1. N + 1 \in 1..(N + 1) /\ rows \in SUBSET Files /\ names \in Naming
      BY FileSizes DEF IInv, Types
    <3>. DEFINE d0 == Payload(N + 1, 0, rows, FALSE)
    <3>2. d0 \in Payloads /\ d0.names = names /\ d0.resolved = FALSE
          /\ d0.next = N + 1 /\ d0.off = 0
      BY <3>1 DEF Payload, Payloads
    <3>3. c0 = [d0 EXCEPT !.phase = "manifest_pending"]
      OBVIOUS
    <3>. HIDE DEF d0
    <3>. HIDE DEF c0
    <3>4. c0 \in Payloads
      BY <3>2, <3>3 DEF Payloads
    <3>5. c0.names = names /\ c0.resolved = FALSE /\ c0.next = N + 1 /\ c0.off = 0
      BY <3>2, <3>3 DEF Payloads
    <3>. QED
      BY <1>6, <3>4, <3>5 DEF Own, PayloadFits
  <2>. HIDE DEF c0
  <2>3. ck' = {c0}
    BY <2>1, Zenon DEF c0
  <2>4. Steady
    BY <1>1, <1>4, <2>1, <2>2, <2>3 DEF Steady
  <2>5. /\ ck' \cup pend' \subseteq Payloads
        /\ NoTornFile' /\ PayloadsFit' /\ NamesFree'
    BY <2>4, SteadyKeeps, Zenon
  <2>6. Types'
    BY <1>1, <2>1, <2>5 DEF Types, Places, IInv
  <2>7. LanesFit' /\ RowsFit'
    BY <1>1, <2>1 DEF LanesFit, RowsFit, IInv
  <2>8. CursorsFit'
    <3>1. ASSUME NEW c \in pend, c.off > 0
          PROVE  c.next < idx /\ CursorFits(c)
      BY <1>1, <3>1 DEF IInv, CursorsFit, CursorFits
    <3>2. ASSUME NEW c \in pend, c.off > 0
          PROVE  CursorFits(c)'
      BY <1>1, <2>1, <3>1, <3>2 DEF CursorFits
    <3>3. ~(c0.off > 0)
      BY <2>2
    <3>4. \A c \in ck' \cup pend' : c = c0 \/ c \in pend
      BY <2>1, <2>3
    <3>. QED
      BY <3>2, <3>3, <3>4 DEF CursorsFit
  <2>9. SerialFile' /\ SliceCovered'
    BY <2>1 DEF SerialFile, SliceCovered
  <2>10. \A f \in Files : Done(f)' <=> Done(f)
    BY <1>1, <2>1 DEF Done, Name
  <2>11. FreshDone' /\ FreshComplete'
    BY <1>1, <1>2, <2>1, <2>10 DEF FreshDone, FreshComplete, Done, IInv
  <2>. QED
    BY <2>5, <2>6, <2>7, <2>8, <2>9, <2>11, <1>4 DEF IInv
<1>. QED
  BY <1>5, <1>6

(* The order is accepted.                                                     *)
LEMMA ManifestAcceptedKeeps ==
  ASSUME IInv, ManifestAccepted
  PROVE  IInv' /\ RemoteGrows
<1>1. /\ pc = "manifest" /\ ck' = {} /\ Over("uploaded")
      /\ remote' = remote /\ held' = held /\ missed' = missed
  BY Zenon DEF ManifestAccepted
<1>2. pend' = {} /\ append' = append /\ names' = names /\ kind' = kind /\ start' = start
      /\ pc' = "idle"
  BY <1>1, Zenon DEF Over
<1>3. Steady
  BY <1>1, <1>2 DEF Steady, RemoteGrows, IInv, Types
<1>4. start = 1 => \A f \in Files : Done(f)'
  <2>1. start = 1 => \A f \in Files : Done(f)
    BY <1>1, FileSizes DEF IInv, FreshDone, Files
  <2>. QED
    BY <1>1, <1>2, <2>1 DEF Done, Name
<1>. QED
  BY <1>1, <1>3, <1>4, OverKeeps DEF IInv, Types

-----------------------------------------------------------------------------
(* Slices and serial files.                                                   *)

(* Fewer lanes, a rest or a stutter.                                          *)
LEMMA StutterKeeps ==
  ASSUME IInv, UNCHANGED vars \/ RateLimited
  PROVE  IInv' /\ RemoteGrows
<1>1. UNCHANGED <<kind, append, remote, held, ck, pend, pc, names, start, idx,
                  last, queue, lane, ready, rows, skip, result, missed>>
  BY Zenon DEF vars, attemptVars, RateLimited
<1>2. Types' /\ LanesFit' /\ CursorsFit' /\ RowsFit' /\ PayloadsFit'
  BY <1>1 DEF IInv, Types, LanesFit, CursorsFit, CursorFits, RowsFit, PayloadsFit,
              PayloadFits
<1>3. SerialFile' /\ SliceCovered'
  BY <1>1 DEF IInv, SerialFile, SliceCovered, Waiting, Large, Slice, Done, Name
<1>4. FreshDone' /\ NamesFree' /\ NoTornFile' /\ FreshComplete'
  BY <1>1 DEF IInv, FreshDone, NamesFree, NoTornFile, FreshComplete, Done, Name
<1>. QED
  BY <1>1, <1>2, <1>3, <1>4 DEF IInv, RemoteGrows, Types

(* What a refill of the lanes takes from the queue it leaves nowhere else.    *)
LEMMA RefillMoves ==
  ASSUME NEW q, NEW l, NEW cap, Refill(q, l, cap)
  PROVE  /\ queue' \cup DOMAIN lane' = q \cup DOMAIN l
         /\ \A f \in DOMAIN lane' : lane'[f] = 0 \/ (f \in DOMAIN l /\ lane'[f] = l[f])
<1>. DEFINE new == Taken(q, DOMAIN l, cap)
<1>1. new \subseteq q
  BY DEF Taken
<1>2. queue' = q \ new
      /\ lane' = [f \in DOMAIN l \cup new |-> IF f \in new THEN 0 ELSE l[f]]
  BY Zenon DEF Refill
<1>. HIDE DEF new
<1>. QED
  BY <1>1, <1>2

(* The head of the loop over the slices.                                      *)
LEMMA NextSliceKeeps ==
  ASSUME IInv, NextSlice
  PROVE  IInv' /\ RemoteGrows
<1>. DEFINE todo == {f \in idx..last' : f \notin skip}
            small == {f \in todo : Small(f)}
<1>1. /\ pc = "slice" /\ idx <= N /\ last' = Least({idx + BatchMax - 1, N})
      /\ ready' = Idle
      /\ UNCHANGED <<kind, append, remote, held, ck, pend, limit, names,
                     start, rows, skip, result, missed>>
      /\ IF todo = {}
         THEN idx' = last' + 1 /\ UNCHANGED <<pc, queue, lane>>
         ELSE /\ pc' = IF Cardinality(todo) = 1 THEN "serial"
                       ELSE IF small # {} THEN "small" ELSE "large"
              /\ IF Cardinality(todo) = 1
                 THEN queue' = {} /\ lane' = [f \in todo |-> 0]
                 ELSE Refill(IF small # {} THEN small ELSE todo, Idle, current_workers(limit))
              /\ UNCHANGED idx
  BY Zenon DEF NextSlice
<1>2. idx \in Nat /\ 1 <= idx /\ N \in Nat /\ last' \in Nat /\ idx <= last' /\ last' <= N
  BY <1>1, FileSizes, LeastOfTwo DEF IInv, Types
<1>3. todo \subseteq Files /\ small \subseteq todo
  BY <1>2 DEF Files
<1>4. Steady
  BY <1>1, <1>2 DEF Steady, RemoteGrows, IInv, Types
<1>5. /\ ck' \cup pend' \subseteq Payloads
      /\ NoTornFile' /\ PayloadsFit' /\ NamesFree'
  BY <1>4, SteadyKeeps, Zenon
<1>6. result = "running" /\ (start = 1 => skip = {})
  BY <1>1 DEF IInv, FreshDone
<1>7. \A f \in Files : Done(f)' <=> Done(f)
  BY <1>1 DEF Done, Name
<1>8. ASSUME idx' \in Nat, idx <= idx'
      PROVE  CursorsFit'
  <2>1. \A c \in ck \cup pend : c.off > 0 => CursorFits(c) /\ c.next < idx
    BY <1>1 DEF IInv, CursorsFit, CursorFits
  <2>2. ASSUME NEW c \in ck \cup pend, c.off > 0
        PROVE  CursorFits(c)'
    <3>1. c.next \in Files /\ c.next < idx'
      BY <1>2, <1>8, <2>1, <2>2, FileSizes DEF CursorFits
    <3>. QED
      BY <1>1, <1>8, <2>1, <2>2, <3>1 DEF CursorFits
  <2>. QED
    BY <1>1, <2>2 DEF CursorsFit
<1>9. DOMAIN Idle = {}
  BY DEF Idle
<1>10. FreshComplete' /\ RowsFit'
  BY <1>1, <1>6 DEF FreshComplete, RowsFit, IInv
<1>11. CASE todo = {}
  <2>1. idx' = last' + 1 /\ UNCHANGED <<pc, queue, lane>>
    BY <1>1, <1>11
  <2>2. Types' /\ LanesFit'
    BY <1>1, <1>2, <1>5, <1>9, <2>1 DEF Types, LanesFit, IInv
  <2>3. CursorsFit'
    <3>0. idx' = last' + 1
      BY <2>1
    <3>3. \A i, j \in Nat : i <= j => j + 1 \in Nat /\ i <= j + 1
      OBVIOUS
    <3>2. last' + 1 \in Nat /\ idx <= last' + 1
      BY <1>2, <3>3, Zenon
    <3>1. idx' \in Nat /\ idx <= idx'
      BY <3>0, <3>2, Zenon
    <3>. QED
      BY <1>8, <3>1, Zenon
  <2>4. SerialFile' /\ SliceCovered'
    BY <1>1, <2>1 DEF SerialFile, SliceCovered
  <2>5. start # 1
    BY <1>2, <1>6, <1>11
  <2>6. FreshDone'
    BY <1>1, <1>6, <2>5 DEF FreshDone
  <2>. QED
    BY <1>4, <1>5, <1>10, <2>2, <2>3, <2>4, <2>6 DEF IInv, Steady
<1>12. CASE todo # {}
  <2>1. idx' = idx /\ skip' = skip
    BY <1>1, <1>12
  <2>2. Slice' = todo /\ Large' = {f \in todo : ~Small(f)}
    BY <2>1 DEF Slice, Large
  <2>3. CursorsFit'
    <3>1. idx' \in Nat /\ idx <= idx'
      BY <1>2, <2>1
    <3>. QED
      BY <1>8, <3>1, Zenon
  <2>4. pc' # "idle" /\ pc' # "manifest"
    BY <1>1, <1>12
  <2>5. FreshDone'
    <3>1. start' = start /\ result' = result
      BY <1>1
    <3>2. start = 1 => \A f \in Files : f < idx => Done(f)
      BY <1>1 DEF FreshDone, IInv
    <3>. QED
      BY <1>6, <1>7, <2>1, <2>4, <3>1, <3>2 DEF FreshDone
  <2>6. CASE Cardinality(todo) = 1
    <3>1. pc' = "serial" /\ queue' = {} /\ lane' = [f \in todo |-> 0]
      BY <1>1, <1>12, <2>6
    <3>2. PICK f : todo = {f}
      <4>1. IsFiniteSet(idx..last')
        BY <1>2, FS_Interval
      <4>2. IsFiniteSet(todo)
        BY <4>1, FS_Subset
      <4>. QED
        BY <4>2, <2>6, FS_Singleton, Zenon
    <3>3. f \in Files /\ f \in idx..last' /\ DOMAIN lane' = {f} /\ lane'[f] = 0
      BY <1>3, <3>1, <3>2
    <3>4. Types'
      <4>1. pc' \in Places /\ queue' \subseteq Files /\ DOMAIN lane' \subseteq Files
        BY <3>1, <3>3 DEF Places
      <4>. QED
        BY <1>1, <1>2, <1>5, <1>9, <2>1, <4>1 DEF Types, IInv
    <3>5. LanesFit'
      BY <1>1, <1>9, <3>3, FileSizes DEF LanesFit
    <3>6. SerialFile'
      <4>1. \A g \in idx..last' : g = f \/ g \in skip
        BY <3>2
      <4>2. ~(lane'[f] > 0)
        BY <3>3
      <4>. HIDE DEF todo, small
      <4>. QED
        BY <2>1, <3>3, <4>1, <4>2 DEF SerialFile
    <3>7. SliceCovered'
      BY <3>1 DEF SliceCovered
    <3>. QED
      BY <1>4, <1>5, <1>10, <2>3, <2>5, <3>4, <3>5, <3>6, <3>7 DEF IInv, Steady
  <2>7. CASE Cardinality(todo) # 1
    <3>. DEFINE first == IF small # {} THEN small ELSE todo
    <3>. HIDE DEF todo, small
    <3>1. /\ pc' = (IF small # {} THEN "small" ELSE "large")
          /\ Refill(first, Idle, current_workers(limit))
      BY <1>1, <1>12, <2>7, Zenon
    <3>8. ready' = Idle
      BY <1>1
    <3>9. todo = {f \in todo : Small(f)} \cup {f \in todo : ~Small(f)}
          /\ small = {f \in todo : Small(f)}
      BY DEF small
    <3>2. /\ queue' \cup DOMAIN lane' = first
          /\ \A f \in DOMAIN lane' : lane'[f] = 0
      BY <1>9, <3>1, RefillMoves
    <3>3. first \subseteq Files
      BY <1>3
    <3>4. Types'
      <4>1. queue' \subseteq Files /\ DOMAIN lane' \subseteq Files
        BY <3>2, <3>3, Zenon
      <4>2. pc' \in Places
        BY <3>1 DEF Places
      <4>. QED
        BY <1>1, <1>2, <1>5, <1>9, <2>1, <4>1, <4>2 DEF Types, IInv
    <3>5. LanesFit'
      <4>1. \A f \in DOMAIN lane' : f \in Files /\ lane'[f] = 0
        BY <3>2, <3>3, Zenon
      <4>2. \A f \in DOMAIN lane' : lane'[f] \in 0..Size[f]
        BY <4>1, FileSizes
      <4>. QED
        BY <1>9, <3>8, <4>2 DEF LanesFit
    <3>6. SerialFile'
      BY <3>1 DEF SerialFile
    <3>7. SliceCovered'
      <4>1. Waiting' = first
        BY <3>2 DEF Waiting
      <4>2. CASE small # {}
        BY <2>2, <3>1, <3>9, <4>1, <4>2 DEF SliceCovered
      <4>3. CASE small = {}
        BY <2>2, <3>1, <3>9, <4>1, <4>3 DEF SliceCovered
      <4>. QED
        BY <4>2, <4>3
    <3>. QED
      BY <1>4, <1>5, <1>10, <2>3, <2>5, <3>4, <3>5, <3>6, <3>7 DEF IInv, Steady
  <2>. QED
    BY <2>6, <2>7
<1>. QED
  BY <1>11, <1>12

(* The one file of a serial slice, with its types.                            *)
LEMMA SerialFacts ==
  ASSUME IInv, pc = "serial", NEW f \in DOMAIN lane
  PROVE  /\ f \in Files /\ f \in idx..last /\ DOMAIN lane = {f}
         /\ \A g \in idx..last : g = f \/ g \in skip
         /\ lane[f] \in 0..Size[f] /\ held[f] \in Int
         /\ lane[f] > 0 => (held[f] = Closed \/ held[f] >= lane[f])
<1>1. PICK h \in idx..last :
            /\ DOMAIN lane = {h} /\ \A g \in idx..last : g = h \/ g \in skip
            /\ lane[h] > 0 => (held[h] = Closed \/ held[h] >= lane[h])
  BY DEF IInv, SerialFile
<1>2. f = h
  BY <1>1
<1>3. f \in Files /\ lane[f] \in 0..Size[f] /\ held[f] \in Int
  BY DEF IInv, Types, LanesFit
<1>. QED
  BY <1>1, <1>2, <1>3

(* The rows a running attempt writes with a payload of its own.               *)
LEMMA RowsSavedOwn ==
  ASSUME IInv, NEW c \in RowsSaved
  PROVE  Own(c) /\ c.off = 0
<1>1. EffectiveResumeIndex(start, rows) \in 1..(N + 1)
  BY ResumeFits DEF IInv, Types
<1>2. append \in BOOLEAN /\ rows \in SUBSET Files /\ (kind = "native" => rows = {})
  BY DEF IInv, Types, RowsFit
<1>3. c = Payload(EffectiveResumeIndex(start, rows), 0, rows, append)
  BY DEF RowsSaved
<1>. HIDE DEF IInv
<1>4. 0 \in Nat /\ Types
  BY DEF IInv
<1>. QED
  BY <1>1, <1>2, <1>3, <1>4, PayloadIsOwn

(* One chunk of a serial file.                                                *)
LEMMA SerialChunkKeeps ==
  ASSUME IInv, SerialChunk
  PROVE  IInv' /\ RemoteGrows
<1>1. /\ pc = "serial"
      /\ UNCHANGED <<kind, append, remote, pc, names, start, idx, last,
                     queue, ready, rows, skip, result, missed>>
  BY Zenon DEF SerialChunk
<1>. PICK f \in DOMAIN lane :
         /\ \/ SessionStarts(f, lane[f])
            \/ SessionAppends(f, lane[f]) /\ held[f] = lane[f]
         /\ held' = [held EXCEPT ![f] = lane[f] + Piece(f, lane[f])]
         /\ lane' = [lane EXCEPT ![f] = lane[f] + Piece(f, lane[f])]
         /\ ProgressSaved(f, lane[f] + Piece(f, lane[f]))
  BY Zenon DEF SerialChunk
<1>. DEFINE now == lane[f] + Piece(f, lane[f])
<1>. PICK c0 : c0 = Payload(f, now, rows, append)
  BY Zenon
<1>2. /\ f \in Files /\ f \in idx..last /\ DOMAIN lane = {f}
      /\ \A g \in idx..last : g = f \/ g \in skip
      /\ lane[f] \in 0..Size[f] /\ held[f] \in Int
      /\ lane[f] > 0 => (held[f] = Closed \/ held[f] >= lane[f])
  BY <1>1, SerialFacts
<1>3. now \in 0..Size[f] /\ lane[f] <= now /\ now \in Nat /\ ~Small(f)
  <2>1. Piece(f, lane[f]) \in Nat /\ now \in 0..Size[f] /\ Size[f] \in Nat
    BY <1>2, PieceFits, FileSizes
  <2>2. ~Small(f)
    BY DEF SessionStarts, SessionAppends
  <2>. QED
    BY <1>2, <2>1, <2>2
<1>4. ck' \cup pend' \subseteq ck \cup {c0}
  BY UpdateWrites DEF ProgressSaved
<1>5. Own(c0) /\ c0.off = now /\ c0.next = f
  <2>1. f \in 1..(N + 1) /\ append \in BOOLEAN /\ rows \in SUBSET Files
        /\ (kind = "native" => rows = {}) /\ Types
    <3>1. f \in 1..(N + 1)
      BY <1>2, FileSizes DEF Files
    <3>. QED
      BY <3>1, Zenon DEF IInv, Types, RowsFit
  <2>. HIDE DEF now
  <2>. QED
    BY <1>3, <2>1, PayloadIsOwn
<1>6. held' = [held EXCEPT ![f] = now] /\ lane' = [lane EXCEPT ![f] = now]
  OBVIOUS
<1>. HIDE DEF now
<1>7. Steady
  BY <1>1, <1>4, <1>5 DEF Steady, RemoteGrows, IInv, Types
<1>8. /\ ck' \cup pend' \subseteq Payloads
      /\ NoTornFile' /\ PayloadsFit' /\ NamesFree'
  BY <1>7, SteadyKeeps, Zenon
<1>9. DOMAIN lane' = {f} /\ lane'[f] = now /\ held' \in [Files -> Int]
      /\ held'[f] = now /\ \A g \in Files : g # f => held'[g] = held[g]
  BY <1>2, <1>3, <1>6 DEF IInv, Types
<1>10. Types'
  BY <1>1, <1>2, <1>8, <1>9 DEF IInv, Types
<1>11. LanesFit' /\ RowsFit' /\ FreshComplete'
  BY <1>1, <1>3, <1>9 DEF IInv, LanesFit, RowsFit, FreshComplete, Done, Name
<1>12. CursorsFit'
  <2>1. ASSUME NEW c \in ck, c.off > 0
        PROVE  CursorFits(c)'
    <3>1. CursorFits(c) /\ c.off \in Nat
      BY <2>1 DEF IInv, CursorsFit, Types, Payloads
    <3>2. CASE c.next < idx
      <4>1. c.next # f /\ c.next \in Files
        BY <1>2, <3>1, <3>2, FileSizes DEF CursorFits, IInv, Types
      <4>. QED
        BY <1>1, <1>9, <3>1, <3>2, <4>1 DEF CursorFits
    <3>3. CASE c.next = f /\ c.off <= lane[f]
      <4>1. c.off <= now
        BY <1>2, <1>3, <3>1, <3>3, FileSizes
      <4>. QED
        BY <1>1, <1>9, <3>1, <3>3, <4>1 DEF CursorFits
    <3>. QED
      BY <1>1, <1>2, <3>1, <3>2, <3>3 DEF CursorFits
  <2>2. CursorFits(c0)'
    BY <1>1, <1>2, <1>3, <1>5, <1>9, FileSizes DEF CursorFits
  <2>. QED
    BY <1>4, <2>1, <2>2 DEF CursorsFit
<1>13. SerialFile' /\ SliceCovered'
  BY <1>1, <1>2, <1>3, <1>9 DEF SerialFile, SliceCovered
<1>14. FreshDone'
  BY <1>1 DEF FreshDone, IInv, Done, Name
<1>. QED
  BY <1>7, <1>8, <1>10, <1>11, <1>12, <1>13, <1>14 DEF IInv, Steady

(* The durable write at the end of a slice.                                   *)
LEMMA GroupSavedOwn ==
  ASSUME IInv, NEW next \in 1..(N + 1), NEW done \in SUBSET Files,
         GroupSaved(next, done)
  PROVE  /\ rows' \subseteq Files /\ (kind = "native" => rows' = {})
         /\ pend' = {} /\ \A c \in ck' : Own(c) /\ c.off = 0
<1>1. /\ rows' = (IF kind = "custom" THEN rows \cup done ELSE rows)
      /\ ck' = {Payload(next, 0, rows', append /\ kind = "custom")}
      /\ pend' = {}
  BY Zenon DEF GroupSaved, RowsNoted, GroupPayload
<1>2. rows' \in SUBSET Files /\ (kind = "native" => rows' = {})
  BY <1>1 DEF IInv, Types, RowsFit
<1>. DEFINE b == append /\ kind = "custom"
<1>3. b \in BOOLEAN /\ (b => append) /\ 0 \in Nat /\ Types
  BY DEF IInv
<1>. HIDE DEF b
<1>4. Own(Payload(next, 0, rows', b)) /\ Payload(next, 0, rows', b).off = 0
  BY <1>2, <1>3, PayloadIsOwn
<1>. QED
  BY <1>1, <1>2, <1>4 DEF b

(* The end of a serial file.                                                  *)
LEMMA SerialDoneKeeps ==
  ASSUME IInv, SerialDone
  PROVE  IInv' /\ RemoteGrows
<1>1. /\ pc = "serial" /\ pc' = "slice" /\ idx' = last + 1 /\ lane' = Idle
      /\ UNCHANGED <<kind, append, names, start, last, queue, ready, skip, result,
                     missed>>
  BY Zenon DEF SerialDone
<1>. PICK f \in DOMAIN lane :
         /\ Small(f) \/ Finishes(f)
         /\ remote' = [remote EXCEPT ![Name(f)] =
                           IF Small(f) THEN Size[f] ELSE held[f] + Piece(f, lane[f])]
         /\ held' = [held EXCEPT ![f] = Closed]
         /\ GroupSaved(f + 1, {f})
  BY Zenon DEF SerialDone
<1>2. /\ f \in Files /\ f \in idx..last
      /\ \A g \in idx..last : g = f \/ g \in skip
      /\ lane[f] \in 0..Size[f]
  BY <1>1, SerialFacts
<1>3. Small(f) \/ held[f] + Piece(f, lane[f]) = Size[f]
  <2>1. ASSUME Finishes(f)
        PROVE  held[f] + Piece(f, lane[f]) = Size[f]
    BY <1>2, <2>1, PieceFits DEF Finishes, SessionCommits
  <2>. QED
    BY <2>1
<1>4. remote' = [remote EXCEPT ![Name(f)] = Size[f]]
  BY <1>3
<1>5. Name(f) \in Names /\ Name(f) = <<f, names[f]>>
  BY <1>2, NamesInRange DEF Name, IInv, Types
<1>6. RemoteGrows /\ remote'[Name(f)] = Size[f]
  BY <1>1, <1>2, <1>4, <1>5, FileSizes DEF RemoteGrows, IInv, Types
<1>7. /\ rows' \subseteq Files /\ (kind = "native" => rows' = {})
      /\ pend' = {} /\ \A c \in ck' : Own(c) /\ c.off = 0
  <2>1. f + 1 \in 1..(N + 1) /\ {f} \in SUBSET Files
    BY <1>2, FileSizes DEF Files
  <2>. QED
    BY <2>1, GroupSavedOwn
<1>8. Steady
  BY <1>1, <1>6, <1>7 DEF Steady
<1>9. /\ ck' \cup pend' \subseteq Payloads
      /\ NoTornFile' /\ PayloadsFit' /\ NamesFree'
  BY <1>8, SteadyKeeps, Zenon
<1>10. DOMAIN Idle = {}
  BY DEF Idle
<1>11. Types'
  <2>1. last + 1 \in 1..(N + 1) /\ held' \in [Files -> Int]
    BY <1>2, FileSizes DEF IInv, Types, Closed
  <2>2. remote' \in [Names -> Int] /\ pc' \in Places
    BY <1>1, <1>6 DEF RemoteGrows, Places
  <2>. QED
    BY <1>1, <1>7, <1>9, <1>10, <2>1, <2>2 DEF IInv, Types
<1>12. LanesFit' /\ RowsFit' /\ CursorsFit'
  BY <1>1, <1>7, <1>10 DEF IInv, LanesFit, RowsFit, CursorsFit
<1>13. SerialFile' /\ SliceCovered'
  BY <1>1 DEF SerialFile, SliceCovered
<1>14. result = "running"
  BY <1>1 DEF FreshDone, IInv
<1>15. FreshDone'
  <2>1. ASSUME start = 1, NEW g \in Files, g < last + 1
        PROVE  Done(g)'
    <3>1. CASE g < idx
      <4>1. Done(g)
        BY <1>1, <2>1, <3>1 DEF FreshDone, IInv
      <4>. QED
        BY <1>1, <1>6, <4>1, DoneStays DEF IInv
    <3>2. CASE g \in idx..last
      <4>1. g = f
        BY <1>1, <1>2, <2>1, <3>2 DEF FreshDone, IInv
      <4>. QED
        BY <1>1, <1>6, <4>1 DEF Done, Name
    <3>. QED
      BY <2>1, <3>1, <3>2, FileSizes DEF IInv, Types
  <2>. QED
    BY <1>1, <1>14, <2>1 DEF FreshDone, IInv
<1>16. FreshComplete'
  BY <1>1, <1>14 DEF FreshComplete
<1>. QED
  BY <1>8, <1>9, <1>11, <1>12, <1>13, <1>15, <1>16 DEF IInv, Steady

(* The session is not where the cursor is.                                    *)
LEMMA SerialRejectedKeeps ==
  ASSUME IInv, SerialRejected
  PROVE  IInv' /\ RemoteGrows
<1>1. pc = "serial" /\ Over("failed") /\ UNCHANGED <<remote, held, missed>>
  BY Zenon DEF SerialRejected
<1>2. /\ kind' = kind /\ append' = append /\ names' = names /\ start' = start
      /\ pc' = "idle" /\ pend' = {}
  BY <1>1, Zenon DEF Over
<1>. PICK f \in DOMAIN lane :
         /\ ~Small(f) /\ lane[f] > 0 /\ held[f] # lane[f]
         /\ ck' = IF rows # {} THEN RowsSaved
                  ELSE {Payload(f, lane[f], rows, append)}
  BY Zenon DEF SerialRejected
<1>. DEFINE c0 == Payload(f, lane[f], rows, append)
<1>3. /\ f \in Files /\ lane[f] \in 0..Size[f]
      /\ held[f] = Closed \/ held[f] >= lane[f]
  BY <1>1, SerialFacts
<1>4. Own(c0) /\ c0.off = lane[f] /\ c0.next = f
  <2>1. f \in 1..(N + 1) /\ append \in BOOLEAN /\ rows \in SUBSET Files
        /\ (kind = "native" => rows = {}) /\ Types /\ lane[f] \in Nat
    BY <1>3, FileSizes DEF IInv, Types, RowsFit, Files
  <2>. QED
    BY <2>1, PayloadIsOwn
<1>. HIDE DEF c0
<1>5. \A c \in ck' : c = c0 \/ (Own(c) /\ c.off = 0)
  BY RowsSavedOwn DEF c0
<1>6. Steady
  BY <1>1, <1>2, <1>4, <1>5 DEF Steady, RemoteGrows, IInv, Types
<1>7. ASSUME NEW c \in ck', c.off > 0
      PROVE  /\ c.next \in Files /\ ~Small(c.next) /\ c.off <= Size[c.next]
             /\ held'[c.next] = Closed \/ held'[c.next] >= c.off
  <2>1. c = c0
    BY <1>5, <1>7
  <2>. QED
    BY <1>1, <1>3, <1>4, <2>1, FileSizes
<1>8. held' \in [Files -> Int]
  BY <1>1 DEF IInv, Types
<1>. QED
  BY <1>1, <1>6, <1>7, <1>8, OverKeeps

-----------------------------------------------------------------------------
(* Groups.                                                                    *)

(* A group is past every file a saved cursor stands in.                       *)
LEMMA GroupCursors ==
  ASSUME IInv, pc \notin {"idle", "serial"}, held' = held, idx' \in Nat, idx <= idx',
         \A c \in ck' \cup pend' : c \in ck \cup pend \/ c.off = 0
  PROVE  CursorsFit'
<1>1. ASSUME NEW c \in ck \cup pend, c.off > 0
      PROVE  CursorFits(c)'
  <2>1. CursorFits(c) /\ c.next < idx /\ c.next \in Files
    BY <1>1 DEF IInv, CursorsFit, CursorFits
  <2>2. c.next < idx'
    BY <2>1, FileSizes DEF IInv, Types
  <2>. QED
    BY <2>1, <2>2 DEF CursorFits
<1>2. \A c \in ck' \cup pend' : c.off > 0 => c \in ck \cup pend
  OBVIOUS
<1>. QED
  BY <1>1, <1>2 DEF CursorsFit

(* The save after a file of a group.                                          *)
LEMMA FileDoneOwn ==
  ASSUME IInv, NEW f \in Files, FileDone(f)
  PROVE  /\ rows' \subseteq Files /\ (kind = "native" => rows' = {})
         /\ \A c \in ck' \cup pend' : c \in ck \cup pend \/ (Own(c) /\ c.off = 0)
<1>1. /\ rows' = (IF kind = "custom" THEN rows \cup {f} ELSE rows)
      /\ Update(Payload(f + 1, 0, rows', append), FALSE)
  BY Zenon DEF FileDone, RowsNoted, FilePayload
<1>2. rows' \in SUBSET Files /\ (kind = "native" => rows' = {})
  BY <1>1 DEF IInv, Types, RowsFit
<1>3. f + 1 \in 1..(N + 1)
  BY FileSizes DEF Files
<1>4. append \in BOOLEAN /\ 0 \in Nat /\ Types
  BY DEF IInv, Types
<1>5. Own(Payload(f + 1, 0, rows', append)) /\ Payload(f + 1, 0, rows', append).off = 0
  BY <1>2, <1>3, <1>4, PayloadIsOwn
<1>6. ck' \cup pend' \subseteq ck \cup {Payload(f + 1, 0, rows', append)}
  BY <1>1, UpdateWrites
<1>. QED
  BY <1>2, <1>5, <1>6

(* The files of the slice in work.                                            *)
LEMMA SliceInFiles ==
  ASSUME IInv
  PROVE  Slice \subseteq Files /\ Large \subseteq Slice
BY FileSizes DEF IInv, Types, Slice, Large, Files

(* A step of a group that leaves the slice, the saved files and the sessions  *)
(* as they are keeps what does not depend on the group's lanes.               *)
LEMMA GroupStep ==
  ASSUME IInv, Steady, pc \notin {"idle", "serial", "manifest", "slice"},
         pc' \in {"small", "large", "commit", "group"},
         UNCHANGED <<held, idx, last, skip, result>>, rows' \subseteq Files,
         kind = "native" => rows' = {},
         \A c \in ck' \cup pend' : c \in ck \cup pend \/ c.off = 0,
         queue' \subseteq Files, DOMAIN lane' \subseteq Files,
         DOMAIN ready' \subseteq Files, LanesFit', SliceCovered'
  PROVE  IInv' /\ RemoteGrows
<1>1. /\ kind' = kind /\ append' = append /\ missed' = missed /\ names' = names
      /\ start' = start /\ RemoteGrows
  BY Zenon DEF Steady
<1>2. /\ ck' \cup pend' \subseteq Payloads
      /\ NoTornFile' /\ PayloadsFit' /\ NamesFree'
  BY SteadyKeeps, Zenon
<1>3. Types'
  BY <1>1, <1>2 DEF IInv, Types, RemoteGrows, Places
<1>4. CursorsFit'
  <2>1. idx' \in Nat /\ idx <= idx'
    BY FileSizes DEF IInv, Types
  <2>. QED
    BY <2>1, GroupCursors
<1>5. RowsFit' /\ SerialFile'
  BY <1>1 DEF IInv, RowsFit, SerialFile
<1>6. result = "running"
  BY DEF FreshDone, IInv
<1>7. FreshDone'
  <2>1. ASSUME start = 1, NEW g \in Files, g < idx
        PROVE  Done(g)'
    <3>1. Done(g)
      BY <2>1 DEF FreshDone, IInv
    <3>. QED
      BY <1>1, <3>1, DoneStays DEF IInv
  <2>. QED
    BY <1>1, <1>6, <2>1 DEF FreshDone, IInv
<1>8. FreshComplete'
  BY <1>6 DEF FreshComplete
<1>. QED
  BY <1>1, <1>2, <1>3, <1>4, <1>5, <1>7, <1>8 DEF IInv

(* A file that is written under its name in full.                             *)
LEMMA FileWritten ==
  ASSUME IInv, pc # "idle", NEW f \in Files,
         remote' = [remote EXCEPT ![Name(f)] = Size[f]]
  PROVE  RemoteGrows /\ (names' = names => Done(f)')
<1>1. Name(f) \in Names /\ Name(f) = <<f, names[f]>>
  BY NamesInRange DEF Name, IInv, Types
<1>2. RemoteGrows /\ remote'[Name(f)] = Size[f]
  BY <1>1, FileSizes DEF RemoteGrows, IInv, Types
<1>. QED
  BY <1>2 DEF Done, Name

(* A lane without its file.                                                   *)
LEMMA WithoutFile ==
  ASSUME NEW f
  PROVE  /\ DOMAIN Without(f) = DOMAIN lane \ {f}
         /\ \A g \in DOMAIN lane \ {f} : Without(f)[g] = lane[g]
BY DEF Without

(* A small file of a group is there.                                          *)
LEMMA SmallDoneKeeps ==
  ASSUME IInv, SmallDone
  PROVE  IInv' /\ RemoteGrows
<1>1. /\ pc = "small"
      /\ UNCHANGED <<kind, append, held, names, start, idx, last, ready, skip,
                     result, missed>>
  BY Zenon DEF SmallDone
<1>. PICK f \in DOMAIN lane :
         /\ remote' = [remote EXCEPT ![Name(f)] = Size[f]]
         /\ FileDone(f)
         /\ IF LastLane(f)
            THEN ToLarge
            ELSE pc' = "small" /\ Refill(queue, Without(f), current_workers(limit'))
  BY Zenon DEF SmallDone
<1>2. /\ Waiting \subseteq {g \in Slice : Small(g)} /\ f \in Waiting
      /\ \A g \in Slice \ Waiting : Small(g) => Done(g)
  BY <1>1 DEF IInv, SliceCovered, Waiting
<1>3. Slice \subseteq Files /\ Large \subseteq Slice /\ f \in Files
  BY <1>2, SliceInFiles
<1>4. RemoteGrows /\ Done(f)'
  BY <1>1, <1>3, FileWritten
<1>5. /\ rows' \subseteq Files /\ (kind = "native" => rows' = {})
      /\ \A c \in ck' \cup pend' : c \in ck \cup pend \/ (Own(c) /\ c.off = 0)
  BY <1>3, FileDoneOwn
<1>6. Steady
  BY <1>1, <1>4, <1>5 DEF Steady
<1>7. Slice' = Slice /\ Large' = Large
  BY <1>1 DEF Slice, Large
<1>8. \A g \in Files : Done(g) => Done(g)'
  BY <1>1, <1>4, DoneStays DEF IInv
<1>9. DOMAIN Idle = {}
  BY DEF Idle
<1>10. /\ \A g \in DOMAIN lane : lane[g] \in 0..Size[g]
       /\ DOMAIN ready \subseteq Files /\ \A g \in DOMAIN ready : ready[g] = Size[g]
  BY DEF IInv, LanesFit, Types
<1>11. CASE LastLane(f)
  <2>1. queue = {} /\ DOMAIN lane = {f}
    BY <1>11 DEF LastLane
  <2>2. \A g \in Slice : Small(g) => Done(g)'
    BY <1>2, <1>3, <1>4, <1>8, <2>1 DEF Waiting
  <2>3. CASE Large = {}
    <3>1. pc' = "group" /\ queue' = {} /\ lane' = Idle
      BY <1>11, <2>3 DEF ToLarge
    <3>2. \A g \in Slice : Small(g)
      BY <2>3 DEF Large
    <3>3. SliceCovered'
      BY <1>7, <2>2, <3>1, <3>2 DEF SliceCovered
    <3>4. LanesFit'
      BY <1>1, <1>9, <1>10, <3>1 DEF LanesFit
    <3>. QED
      BY <1>1, <1>5, <1>6, <1>9, <1>10, <3>1, <3>3, <3>4, GroupStep
  <2>4. CASE Large # {}
    <3>1. pc' = "large" /\ Refill(Large, Idle, current_workers(limit'))
      BY <1>11, <2>4 DEF ToLarge
    <3>2. /\ queue' \cup DOMAIN lane' = Large
          /\ \A g \in DOMAIN lane' : lane'[g] = 0
      BY <1>9, <3>1, RefillMoves
    <3>3. SliceCovered'
      BY <1>7, <2>2, <3>1, <3>2 DEF SliceCovered, Waiting
    <3>4. queue' \subseteq Files /\ DOMAIN lane' \subseteq Files
      BY <1>3, <3>2
    <3>5. \A g \in DOMAIN lane' : lane'[g] \in 0..Size[g]
      BY <3>2, <3>4, FileSizes
    <3>6. LanesFit'
      BY <1>1, <1>10, <3>5 DEF LanesFit
    <3>. QED
      BY <1>1, <1>5, <1>6, <1>10, <3>1, <3>3, <3>4, <3>6, GroupStep
  <2>. QED
    BY <2>3, <2>4
<1>12. CASE ~LastLane(f)
  <2>1. pc' = "small" /\ Refill(queue, Without(f), current_workers(limit'))
    BY <1>12
  <2>2. /\ queue' \cup DOMAIN lane' = queue \cup (DOMAIN lane \ {f})
        /\ \A g \in DOMAIN lane' : lane'[g] = 0 \/ (g \in DOMAIN lane /\ lane'[g] = lane[g])
    BY <2>1, RefillMoves, WithoutFile
  <2>3. SliceCovered'
    <3>1. Waiting' \subseteq Waiting /\ Waiting \subseteq Waiting' \cup {f}
      BY <2>2 DEF Waiting
    <3>2. \A g \in Slice \ Waiting' : Small(g) => Done(g)'
      BY <1>2, <1>3, <1>4, <1>8, <3>1
    <3>. QED
      BY <1>2, <1>7, <2>1, <3>1, <3>2 DEF SliceCovered
  <2>4. queue' \subseteq Files /\ DOMAIN lane' \subseteq Files
    BY <1>2, <1>3, <2>2 DEF Waiting
  <2>5. \A g \in DOMAIN lane' : lane'[g] \in 0..Size[g]
    BY <1>10, <2>2, <2>4, FileSizes
  <2>6. LanesFit'
    BY <1>1, <1>10, <2>5 DEF LanesFit
  <2>. QED
    BY <1>1, <1>5, <1>6, <1>10, <2>1, <2>3, <2>4, <2>6, GroupStep
<1>. QED
  BY <1>11, <1>12

(* The lanes and sessions of the large files of a group.                      *)
LEMMA LargeFacts ==
  ASSUME IInv, pc = "large", NEW f \in DOMAIN lane
  PROVE  /\ f \in Files /\ f \in Large /\ lane[f] \in 0..Size[f]
         /\ Waiting \subseteq Large /\ Large \subseteq Waiting \cup DOMAIN ready
         /\ \A g \in Slice : Small(g) => Done(g)
<1>1. f \in Files /\ lane[f] \in 0..Size[f]
  BY DEF IInv, Types, LanesFit
<1>. QED
  BY <1>1 DEF IInv, SliceCovered, Waiting

(* One chunk of a large file.                                                 *)
LEMMA LargeChunkKeeps ==
  ASSUME IInv, LargeChunk
  PROVE  IInv' /\ RemoteGrows
<1>1. /\ pc = "large" /\ pc' = pc
      /\ UNCHANGED <<kind, append, remote, held, ck, pend, names, start, idx, last,
                     queue, ready, rows, skip, result, missed>>
  BY Zenon DEF LargeChunk
<1>. PICK f \in DOMAIN lane :
         /\ Size[f] - lane[f] > Chunk
         /\ lane' = [lane EXCEPT ![f] = lane[f] + Chunk]
  BY Zenon DEF LargeChunk
<1>2. f \in Files /\ lane[f] \in 0..Size[f]
  BY <1>1, LargeFacts
<1>3. DOMAIN lane' = DOMAIN lane /\ lane'[f] = lane[f] + Chunk
      /\ \A g \in DOMAIN lane : g # f => lane'[g] = lane[g]
  OBVIOUS
<1>4. lane[f] + Chunk \in 0..Size[f]
  BY <1>2, FileSizes
<1>5. Steady
  BY <1>1 DEF Steady, RemoteGrows, IInv, Types
<1>6. LanesFit'
  BY <1>1, <1>3, <1>4 DEF LanesFit, IInv
<1>7. Waiting' = Waiting /\ Slice' = Slice /\ Large' = Large
  BY <1>1, <1>3 DEF Waiting, Slice, Large
<1>8. \A g : Done(g)' <=> Done(g)
  BY <1>1 DEF Done, Name
<1>9. SliceCovered'
  BY <1>1, <1>7, <1>8 DEF SliceCovered, IInv
<1>10. /\ queue' \subseteq Files /\ DOMAIN lane' \subseteq Files
       /\ DOMAIN ready' \subseteq Files /\ rows' \subseteq Files
       /\ (kind = "native" => rows' = {})
  BY <1>1, <1>3 DEF IInv, Types, RowsFit
<1>. QED
  BY <1>1, <1>5, <1>6, <1>9, <1>10, GroupStep

(* The last chunk of a large file.                                            *)
LEMMA LargeDoneKeeps ==
  ASSUME IInv, LargeDone
  PROVE  IInv' /\ RemoteGrows
<1>1. /\ pc = "large"
      /\ UNCHANGED <<kind, append, held, names, start, idx, last, skip, result,
                     missed>>
  BY Zenon DEF LargeDone
<1>. PICK f \in DOMAIN lane :
         /\ Size[f] - lane[f] <= Chunk
         /\ ready' = [g \in DOMAIN ready \cup {f} |->
                         IF g = f THEN lane[f] + Piece(f, lane[f]) ELSE ready[g]]
         /\ remote' = IF Large = {f} THEN [remote EXCEPT ![Name(f)] = ready'[f]]
                      ELSE remote
         /\ FileDone(f)
         /\ IF LastLane(f)
            THEN /\ pc' = IF Large = {f} THEN "group" ELSE "commit"
                 /\ queue' = {} /\ lane' = Idle
            ELSE pc' = "large" /\ Refill(queue, Without(f), current_workers(limit'))
  BY Zenon DEF LargeDone
<1>2. /\ f \in Files /\ f \in Large /\ lane[f] \in 0..Size[f]
      /\ Waiting \subseteq Large /\ Large \subseteq Waiting \cup DOMAIN ready
      /\ \A g \in Slice : Small(g) => Done(g)
  BY <1>1, LargeFacts
<1>3. Slice \subseteq Files /\ Large \subseteq Slice
  BY SliceInFiles
<1>4. lane[f] + Piece(f, lane[f]) = Size[f]
  BY <1>2, PieceFits
<1>5. /\ DOMAIN ready' = DOMAIN ready \cup {f} /\ ready'[f] = Size[f]
      /\ \A g \in DOMAIN ready' : g # f => g \in DOMAIN ready /\ ready'[g] = ready[g]
  BY <1>4
<1>6. RemoteGrows /\ (Large = {f} => Done(f)')
  <2>1. CASE Large = {f}
    <3>1. remote' = [remote EXCEPT ![Name(f)] = Size[f]]
      BY <1>5, <2>1
    <3>. QED
      BY <1>1, <1>2, <3>1, FileWritten
  <2>2. CASE Large # {f}
    <3>1. remote' = remote
      BY <2>2
    <3>. QED
      BY <2>2, <3>1 DEF RemoteGrows, IInv, Types
  <2>. QED
    BY <2>1, <2>2
<1>7. /\ rows' \subseteq Files /\ (kind = "native" => rows' = {})
      /\ \A c \in ck' \cup pend' : c \in ck \cup pend \/ (Own(c) /\ c.off = 0)
  BY <1>2, FileDoneOwn
<1>8. Steady
  BY <1>1, <1>6, <1>7 DEF Steady
<1>9. Slice' = Slice /\ Large' = Large
  BY <1>1 DEF Slice, Large
<1>10. \A g \in Files : Done(g) => Done(g)'
  BY <1>1, <1>6, DoneStays DEF IInv
<1>11. \A g \in Slice : Small(g) => Done(g)'
  BY <1>2, <1>3, <1>10
<1>12. DOMAIN Idle = {}
  BY DEF Idle
<1>13. /\ \A g \in DOMAIN lane : lane[g] \in 0..Size[g]
       /\ DOMAIN ready' \subseteq Files /\ \A g \in DOMAIN ready' : ready'[g] = Size[g]
  BY <1>2, <1>5 DEF IInv, LanesFit, Types
<1>14. CASE LastLane(f)
  <2>1. queue = {} /\ DOMAIN lane = {f}
    BY <1>14 DEF LastLane
  <2>2. pc' = (IF Large = {f} THEN "group" ELSE "commit") /\ queue' = {} /\ lane' = Idle
    BY <1>14
  <2>3. Large \subseteq DOMAIN ready'
    BY <1>2, <1>5, <2>1 DEF Waiting
  <2>4. SliceCovered'
    <3>1. CASE Large = {f}
      <4>1. \A g \in Slice : Done(g)'
        BY <1>6, <1>11, <3>1 DEF Large
      <4>. QED
        BY <1>9, <2>2, <3>1, <4>1 DEF SliceCovered
    <3>2. CASE Large # {f}
      BY <1>9, <1>11, <2>2, <2>3, <3>2 DEF SliceCovered
    <3>. QED
      BY <3>1, <3>2
  <2>5. LanesFit'
    BY <1>12, <1>13, <2>2 DEF LanesFit
  <2>6. pc' \in {"commit", "group"}
    BY <2>2
  <2>. QED
    BY <1>1, <1>7, <1>8, <1>12, <1>13, <2>2, <2>4, <2>5, <2>6, GroupStep
<1>15. CASE ~LastLane(f)
  <2>1. pc' = "large" /\ Refill(queue, Without(f), current_workers(limit'))
    BY <1>15
  <2>2. /\ queue' \cup DOMAIN lane' = queue \cup (DOMAIN lane \ {f})
        /\ \A g \in DOMAIN lane' : lane'[g] = 0 \/ (g \in DOMAIN lane /\ lane'[g] = lane[g])
    BY <2>1, RefillMoves, WithoutFile
  <2>3. SliceCovered'
    <3>1. Waiting' \subseteq Waiting /\ Waiting \subseteq Waiting' \cup {f}
      BY <2>2 DEF Waiting
    <3>2. Waiting' \subseteq Large /\ Large \subseteq Waiting' \cup DOMAIN ready'
      BY <1>2, <1>5, <3>1
    <3>. QED
      BY <1>9, <1>11, <2>1, <3>2 DEF SliceCovered
  <2>4. queue' \subseteq Files /\ DOMAIN lane' \subseteq Files
    BY <1>2, <1>3, <2>2 DEF Waiting
  <2>5. \A g \in DOMAIN lane' : lane'[g] \in 0..Size[g]
    BY <1>13, <2>2, <2>4, FileSizes
  <2>6. LanesFit'
    BY <1>13, <2>5 DEF LanesFit
  <2>. QED
    BY <1>1, <1>7, <1>8, <1>13, <2>1, <2>3, <2>4, <2>6, GroupStep
<1>. QED
  BY <1>14, <1>15

(* The sessions of a group are committed together.                            *)
LEMMA BatchCommittedKeeps ==
  ASSUME IInv, BatchCommitted
  PROVE  IInv' /\ RemoteGrows
<1>1. /\ pc = "commit" /\ pc' = "group"
      /\ UNCHANGED <<kind, append, held, ck, pend, names, start, idx, last, queue,
                     lane, ready, rows, skip, result, missed>>
      /\ remote' = [x \in Names |-> IF x \in {Name(f) : f \in DOMAIN ready}
                                    THEN ready[x[1]] ELSE remote[x]]
  BY Zenon DEF BatchCommitted, Committed
<1>2. /\ DOMAIN ready \subseteq Files /\ \A g \in DOMAIN ready : ready[g] = Size[g]
      /\ Large \subseteq DOMAIN ready /\ \A g \in Slice : Small(g) => Done(g)
  BY <1>1 DEF IInv, Types, LanesFit, SliceCovered
<1>3. Slice \subseteq Files /\ Large \subseteq Slice
  BY SliceInFiles
<1>4. \A x \in Names : x \in {Name(f) : f \in DOMAIN ready} =>
          x[1] \in DOMAIN ready /\ x = Name(x[1])
  BY DEF Name
<1>5. RemoteGrows
  <2>1. ASSUME NEW x \in Names
        PROVE  remote'[x] \in Int /\ \/ remote'[x] = remote[x]
                                     \/ x = Name(x[1]) /\ remote'[x] = Size[x[1]]
    <3>1. remote[x] \in Int
      BY DEF IInv, Types
    <3>2. CASE x \in {Name(f) : f \in DOMAIN ready}
      <4>1. x[1] \in DOMAIN ready /\ x = Name(x[1]) /\ remote'[x] = ready[x[1]]
        BY <1>1, <1>4, <3>2, Zenon
      <4>. QED
        BY <1>2, <4>1, FileSizes
    <3>3. CASE x \notin {Name(f) : f \in DOMAIN ready}
      BY <1>1, <3>1, <3>3
    <3>. QED
      BY <3>2, <3>3
  <2>. QED
    BY <1>1, <2>1 DEF RemoteGrows
<1>6. Steady
  BY <1>1, <1>5 DEF Steady
<1>7. Slice' = Slice
  BY <1>1 DEF Slice
<1>8. ASSUME NEW g \in Slice
      PROVE  Done(g)'
  <2>1. CASE Small(g)
    BY <1>1, <1>2, <1>3, <1>5, <2>1, DoneStays DEF IInv
  <2>2. CASE ~Small(g)
    <3>1. g \in DOMAIN ready /\ g \in Files
      BY <1>2, <1>3, <2>2 DEF Large
    <3>2. Name(g) \in Names /\ Name(g)[1] = g
      BY <3>1, NamesInRange DEF IInv, Types, Name
    <3>3. Name(g) \in {Name(f) : f \in DOMAIN ready}
      BY <3>1
    <3>4. remote'[Name(g)] = ready[Name(g)[1]]
      BY <1>1, <3>2, <3>3, Zenon
    <3>. QED
      BY <1>1, <1>2, <3>1, <3>2, <3>4 DEF Done, Name
  <2>. QED
    BY <2>1, <2>2
<1>9. SliceCovered'
  BY <1>1, <1>7, <1>8 DEF SliceCovered
<1>10. LanesFit'
  BY <1>1 DEF LanesFit, IInv
<1>11. /\ queue' \subseteq Files /\ DOMAIN lane' \subseteq Files
       /\ DOMAIN ready' \subseteq Files /\ rows' \subseteq Files
       /\ (kind = "native" => rows' = {})
  BY <1>1 DEF IInv, Types, RowsFit
<1>. QED
  BY <1>1, <1>6, <1>9, <1>10, <1>11, GroupStep

(* The end of a group.                                                        *)
LEMMA GroupDoneKeeps ==
  ASSUME IInv, GroupDone
  PROVE  IInv' /\ RemoteGrows
<1>1. /\ pc = "group" /\ GroupSaved(last + 1, Slice)
      /\ pc' = "slice" /\ idx' = last + 1
      /\ UNCHANGED <<kind, append, remote, held, names, start, last, queue,
                     lane, ready, skip, result, missed>>
  BY Zenon DEF GroupDone
<1>2. Slice \subseteq Files /\ \A g \in Slice : Done(g)
  BY <1>1, SliceInFiles DEF IInv, SliceCovered
<1>3. last + 1 \in 1..(N + 1)
  BY FileSizes DEF IInv, Types
<1>4. /\ rows' \subseteq Files /\ (kind = "native" => rows' = {})
      /\ pend' = {} /\ \A c \in ck' : Own(c) /\ c.off = 0
  BY <1>1, <1>2, <1>3, GroupSavedOwn
<1>5. Steady
  BY <1>1, <1>4 DEF Steady, RemoteGrows, IInv, Types
<1>6. /\ ck' \cup pend' \subseteq Payloads
      /\ NoTornFile' /\ PayloadsFit' /\ NamesFree'
  BY <1>5, SteadyKeeps, Zenon
<1>7. Types'
  BY <1>1, <1>3, <1>4, <1>6 DEF IInv, Types, Places
<1>8. LanesFit' /\ RowsFit' /\ CursorsFit' /\ SerialFile' /\ SliceCovered'
  BY <1>1, <1>4 DEF IInv, LanesFit, RowsFit, CursorsFit, SerialFile, SliceCovered
<1>9. result = "running"
  BY <1>1 DEF FreshDone, IInv
<1>10. FreshDone'
  <2>1. ASSUME start = 1, NEW g \in Files, g < last + 1
        PROVE  Done(g)
    <3>1. CASE g < idx
      BY <1>1, <2>1, <3>1 DEF FreshDone, IInv
    <3>2. CASE g \in idx..last
      <4>1. g \in Slice
        BY <1>1, <2>1, <3>2 DEF FreshDone, IInv, Slice
      <4>. QED
        BY <1>2, <4>1
    <3>. QED
      BY <2>1, <3>1, <3>2, FileSizes DEF IInv, Types
  <2>2. \A g : Done(g)' <=> Done(g)
    BY <1>1 DEF Done, Name
  <2>3. start = 1 => skip = {}
    BY <1>1 DEF FreshDone, IInv
  <2>. QED
    BY <1>1, <1>9, <2>1, <2>2, <2>3 DEF FreshDone
<1>11. FreshComplete'
  BY <1>1, <1>9 DEF FreshComplete
<1>. QED
  BY <1>5, <1>6, <1>7, <1>8, <1>10, <1>11 DEF IInv, Steady

-----------------------------------------------------------------------------
(* Failures, cancels and crashes.                                             *)

(* Requests in flight that take effect write whole files, and leave every     *)
(* session closed or with no fewer bytes than it had.                         *)
LEMMA LandingFits ==
  ASSUME IInv, pc # "idle", NEW S \in SUBSET InFlight, Landing(S)
  PROVE  /\ RemoteGrows /\ held' \in [Files -> Int]
         /\ \A f \in Files : held'[f] = held[f] \/ held'[f] = Closed
                             \/ (held[f] # Closed /\ held'[f] >= held[f])
<1>1. PICK whole, more :
        /\ more \subseteq {f \in S : pc = "serial" /\ SessionAppends(f, lane[f])
                                     /\ held[f] = lane[f]}
        /\ remote' = [x \in Names |-> IF x[1] \in whole /\ x = Name(x[1])
                                      THEN Size[x[1]] ELSE remote[x]]
        /\ held' = [f \in Files |-> IF f \in more THEN held[f] + Chunk
                                    ELSE IF f \in whole THEN Closed ELSE held[f]]
  <2>1. {f \in S : pc = "serial" /\ SessionAppends(f, lane[f]) /\ held[f] = lane[f]}
          \subseteq {f \in S : pc = "serial" /\ SessionAppends(f, lane[f])
                                             /\ held[f] = lane[f]}
    OBVIOUS
  <2>. QED
    BY <2>1, Zenon DEF Landing
<1>2. \A x \in Names : x[1] \in Files /\ Size[x[1]] \in Int /\ remote[x] \in Int
  BY FileSizes DEF Names, IInv, Types
<1>3. RemoteGrows
  BY <1>1, <1>2 DEF RemoteGrows
<1>4. \A f \in Files : held[f] \in Int
  BY DEF IInv, Types
<1>5. ASSUME NEW f \in Files, f \in more
      PROVE  held[f] # Closed /\ held[f] + Chunk >= held[f] /\ held[f] + Chunk \in Int
  <2>1. pc = "serial" /\ f \in S /\ held[f] = lane[f]
    BY <1>1, <1>5
  <2>2. f \in DOMAIN lane
    BY <2>1 DEF InFlight
  <2>3. lane[f] \in Nat
    BY <2>2, FileSizes DEF IInv, LanesFit
  <2>. QED
    BY <2>1, <2>3, FileSizes DEF Closed
<1>6. held' \in [Files -> Int]
  BY <1>1, <1>4, <1>5 DEF Closed
<1>7. ASSUME NEW f \in Files
      PROVE  held'[f] = held[f] \/ held'[f] = Closed
             \/ (held[f] # Closed /\ held'[f] >= held[f])
  BY <1>1, <1>5
<1>. QED
  BY <1>3, <1>6, <1>7

(* What a failed attempt leaves as the checkpoint.                            *)
LEMMA FailsKeeps ==
  ASSUME IInv, NEW r, Fails(r), r # "uploaded"
  PROVE  IInv' /\ RemoteGrows
<1>1. /\ pc # "idle" /\ Over(r) /\ missed' = missed
      /\ \E S \in SUBSET InFlight : Landing(S)
  BY Zenon DEF Fails
<1>2. /\ kind' = kind /\ append' = append /\ names' = names /\ start' = start
      /\ pc' = "idle" /\ pend' = {}
  BY <1>1, Zenon DEF Over
<1>3. /\ RemoteGrows /\ held' \in [Files -> Int]
      /\ \A f \in Files : held'[f] = held[f] \/ held'[f] = Closed
                          \/ (held[f] # Closed /\ held'[f] >= held[f])
  BY <1>1, LandingFits
<1>4. ASSUME NEW c \in ck'
      PROVE  \/ c \in ck \cup pend
             \/ c \in RowsSaved
             \/ /\ pc = "serial"
                /\ \E f \in DOMAIN lane :
                       ~Small(f) /\ c = Payload(f, lane[f], rows, append)
  <2>1. CASE r = "failed" /\ pc # "manifest" /\ rows # {}
    BY <2>1 DEF Fails
  <2>2. CASE ~(r = "failed" /\ pc # "manifest" /\ rows # {})
    <3>1. ck' = IF pc = "serial" /\ \A f \in DOMAIN lane : ~Small(f)
                THEN {Payload(f, lane[f], rows, append) : f \in DOMAIN lane}
                ELSE IF kind = "custom" /\ r = "failed" /\ pend # {} THEN pend ELSE ck
      BY <2>2, Zenon DEF Fails
    <3>2. CASE pc = "serial" /\ \A f \in DOMAIN lane : ~Small(f)
      BY <3>1, <3>2
    <3>3. CASE ~(pc = "serial" /\ \A f \in DOMAIN lane : ~Small(f))
      <4>1. ck' = pend \/ ck' = ck
        BY <3>1, <3>3, Zenon
      <4>. QED
        BY <4>1
    <3>. QED
      BY <3>2, <3>3
  <2>. QED
    BY <2>1, <2>2
<1>5. ASSUME pc = "serial", NEW f \in DOMAIN lane, ~Small(f), NEW c,
             c = Payload(f, lane[f], rows, append)
      PROVE  /\ Own(c)
             /\ c.off > 0 =>
                  /\ c.next \in Files /\ ~Small(c.next) /\ c.off <= Size[c.next]
                  /\ held'[c.next] = Closed \/ held'[c.next] >= c.off
  <2>1. /\ f \in Files /\ lane[f] \in 0..Size[f] /\ held[f] \in Int
        /\ lane[f] > 0 => (held[f] = Closed \/ held[f] >= lane[f])
    BY <1>5, SerialFacts
  <2>2. f \in 1..(N + 1) /\ lane[f] \in Nat
    BY <2>1, FileSizes DEF Files
  <2>3. append \in BOOLEAN /\ rows \in SUBSET Files /\ (kind = "native" => rows = {})
        /\ Types
    BY DEF IInv, Types, RowsFit
  <2>4. Own(c) /\ c.off = lane[f] /\ c.next = f
    BY <1>5, <2>2, <2>3, PayloadIsOwn
  <2>5. held'[f] \in Int /\ (held'[f] = held[f] \/ held'[f] = Closed
                             \/ (held[f] # Closed /\ held'[f] >= held[f]))
    BY <1>3, <2>1
  <2>. QED
    BY <1>5, <2>1, <2>4, <2>5, FileSizes
<1>6. Steady
  BY <1>1, <1>2, <1>3, <1>4, <1>5, RowsSavedOwn DEF Steady
<1>7. ASSUME NEW c \in ck', c.off > 0
      PROVE  /\ c.next \in Files /\ ~Small(c.next) /\ c.off <= Size[c.next]
             /\ held'[c.next] = Closed \/ held'[c.next] >= c.off
  <2>1. c \notin RowsSaved
    BY <1>7, RowsSavedOwn
  <2>2. CASE c \in ck \cup pend
    BY <1>3, <1>7, <2>2, CursorsLeft
  <2>. QED
    BY <1>4, <1>5, <1>7, <2>1, <2>2
<1>. QED
  BY <1>1, <1>3, <1>6, <1>7, OverKeeps

(* The process stops.                                                         *)
LEMMA CrashKeeps ==
  ASSUME IInv, Crash
  PROVE  IInv' /\ RemoteGrows
<1>1. /\ pc # "idle" /\ Over("failed") /\ missed' = missed /\ ck' \in {ck, {}}
      /\ \E S \in SUBSET InFlight : Landing(S)
  BY Zenon DEF Crash
<1>2. /\ kind' = kind /\ append' = append /\ names' = names /\ start' = start
      /\ pc' = "idle" /\ pend' = {}
  BY <1>1, Zenon DEF Over
<1>3. /\ RemoteGrows /\ held' \in [Files -> Int]
      /\ \A f \in Files : held'[f] = held[f] \/ held'[f] = Closed
                          \/ (held[f] # Closed /\ held'[f] >= held[f])
  BY <1>1, LandingFits
<1>4. Steady
  BY <1>1, <1>2, <1>3 DEF Steady
<1>5. ASSUME NEW c \in ck', c.off > 0
      PROVE  /\ c.next \in Files /\ ~Small(c.next) /\ c.off <= Size[c.next]
             /\ held'[c.next] = Closed \/ held'[c.next] >= c.off
  <2>1. c \in ck \cup pend
    BY <1>1
  <2>. QED
    BY <1>3, <1>5, <2>1, CursorsLeft
<1>. QED
  BY <1>1, <1>3, <1>4, <1>5, OverKeeps

-----------------------------------------------------------------------------
(* The beginning of an attempt.                                               *)

(* The names an attempt settles on are names, and none of them is an older    *)
(* medium's when every probe was answered.                                    *)
LEMMA NamesResolvedFree ==
  ASSUME IInv, NamesResolved
  PROVE  /\ names' \in Naming /\ missed' \in BOOLEAN
         /\ ~missed' => /\ ~missed
                        /\ \A f \in Files : remote[<<f, names'[f]>>] # Older
<1>1. CASE ~append /\ names' = Plain /\ UNCHANGED missed
  <2>1. names' \in Naming
    BY <1>1, FileSizes DEF Plain, Naming
  <2>2. \A f \in Files : remote[<<f, names'[f]>>] # Older
    BY <1>1, <2>1, NamesInRange DEF IInv, NamesFree
  <2>. QED
    BY <1>1, <2>1, <2>2 DEF IInv, Types
<1>2. CASE append /\ names' \in KeptNames /\ UNCHANGED missed
  <2>1. PICK c \in ck : c.resolved /\ names' = c.names
    BY <1>2 DEF KeptNames
  <2>2. names' \in Naming
    BY <2>1 DEF IInv, Types, Payloads
  <2>3. ~missed => \A f \in Files : remote[<<f, names'[f]>>] # Older
    BY <2>1 DEF IInv, NamesFree
  <2>. QED
    BY <1>2, <2>2, <2>3 DEF IInv, Types
<1>3. ASSUME NEW S, names' = Remapped(Occupied \ S),
             missed' = (missed \/ S # {})
      PROVE  /\ names' \in Naming /\ missed' \in BOOLEAN
             /\ ~missed' => /\ ~missed
                            /\ \A f \in Files : remote[<<f, names'[f]>>] # Older
  <2>1. names' \in Naming
        /\ \A f \in Files : <<f, names'[f]>> \notin Occupied \ S \/ names'[f] = Copies
    BY <1>3, RemappedIsFree
  <2>2. missed' \in BOOLEAN /\ (~missed' => ~missed /\ S = {})
    BY <1>3 DEF IInv, Types
  <2>3. ASSUME S = {}, NEW f \in Files
        PROVE  remote[<<f, names'[f]>>] # Older
    <3>1. <<f, names'[f]>> \in Names
      BY <2>1, NamesInRange
    <3>2. CASE <<f, names'[f]>> \notin Occupied
      BY <3>1, <3>2 DEF Occupied, Absent, Older
    <3>3. CASE names'[f] = Copies
      <4>1. names'[f] # 0
        BY <3>3, FileSizes
      <4>. QED
        BY <3>1, <4>1 DEF IInv, NamesFree
    <3>. QED
      BY <2>1, <2>3, <3>2, <3>3
  <2>. QED
    BY <2>1, <2>2, <2>3
<1>4. \/ ~append /\ names' = Plain /\ UNCHANGED missed
      \/ append /\ names' \in KeptNames /\ UNCHANGED missed
      \/ \E S : names' = Remapped(Occupied \ S) /\ missed' = (missed \/ S # {})
  BY Zenon DEF NamesResolved
<1>. QED
  BY <1>1, <1>2, <1>3, <1>4

(* The beginning of an attempt.                                               *)
LEMMA BeginKeeps ==
  ASSUME IInv, Begin
  PROVE  IInv' /\ RemoteGrows
<1>. PICK c0 : c0 = Loaded
  BY Zenon
<1>. PICK from : from = StartIndex(c0)
  BY Zenon
<1>. PICK resumed \in BOOLEAN : resumed = (c0.off > 0 /\ from = c0.next /\ from <= N)
  BY Zenon
<1>1. /\ pc = "idle" /\ NamesResolved /\ result' = "running"
      /\ ck' = {c0} /\ rows' = c0.rows /\ skip' = c0.rows
      /\ start' = from /\ idx' = from
      /\ pc' = (IF ManifestPending(c0) THEN "manifest"
                ELSE IF resumed THEN "serial" ELSE "slice")
      /\ last' = (IF resumed THEN from ELSE 0)
      /\ lane' = (IF resumed THEN [f \in {from} |-> c0.off] ELSE Idle)
      /\ pend' = {} /\ queue' = {} /\ ready' = Idle
      /\ UNCHANGED <<kind, append, remote, held>>
  BY Zenon DEF Begin
<1>2. /\ names' \in Naming /\ missed' \in BOOLEAN
      /\ ~missed' => /\ ~missed
                     /\ \A f \in Files : remote[<<f, names'[f]>>] # Older
  BY <1>1, NamesResolvedFree
<1>3. \/ c0 \in ck
      \/ c0 = [next |-> 1, off |-> 0, rows |-> {}, names |-> names',
               resolved |-> append, phase |-> "uploading"]
  BY Zenon DEF Loaded, FirstPayload
<1>4. /\ c0 \in Payloads /\ PayloadFits(c0) /\ (c0.resolved => append)
      /\ c0.off > 0 => c0 \in ck /\ CursorFits(c0)
  <2>1. CASE c0 \in ck
    BY <2>1 DEF IInv, Types, PayloadsFit, CursorsFit, NamesFree
  <2>2. CASE c0 = [next |-> 1, off |-> 0, rows |-> {}, names |-> names',
                   resolved |-> append, phase |-> "uploading"]
    <3>1. 1 \in 1..(N + 1) /\ append \in BOOLEAN
      BY FileSizes DEF IInv, Types
    <3>2. c0 \in Payloads
      BY <1>2, <2>2, <3>1 DEF Payloads
    <3>3. c0.off = 0 /\ c0.rows = {} /\ c0.resolved = append /\ c0.phase = "uploading"
      BY <2>2
    <3>. QED
      BY <3>2, <3>3 DEF PayloadFits
  <2>. QED
    BY <1>3, <2>1, <2>2
<1>5. ~missed' /\ c0.resolved => \A f \in Files : remote[<<f, c0.names[f]>>] # Older
  <2>1. CASE c0 \in ck
    BY <1>2, <2>1 DEF IInv, NamesFree
  <2>2. CASE c0 = [next |-> 1, off |-> 0, rows |-> {}, names |-> names',
                   resolved |-> append, phase |-> "uploading"]
    <3>1. c0.names = names'
      BY <2>2
    <3>. QED
      BY <1>2, <3>1
  <2>. QED
    BY <1>3, <2>1, <2>2
<1>6. /\ c0.next \in 1..(N + 1) /\ c0.off \in Nat /\ c0.rows \subseteq Files
      /\ (kind = "native" => c0.rows = {})
      /\ (ManifestPending(c0) => c0.next = N + 1)
  BY <1>4 DEF Payloads, PayloadFits, ManifestPending
<1>7. /\ from \in 1..(N + 1) /\ c0.next <= from
      /\ \A f \in c0.rows : f < from
  <2>1. CASE kind = "custom"
    <3>1. from = EffectiveResumeIndex(c0.next, c0.rows)
      BY <2>1 DEF StartIndex
    <3>2. c0.rows \in SUBSET Files
      BY <1>6
    <3>. QED
      BY <1>6, <3>1, <3>2, ResumeFits
  <2>2. CASE kind = "native"
    <3>1. from = c0.next
      BY <2>2 DEF StartIndex
    <3>. QED
      BY <1>6, <2>2, <3>1, FileSizes
  <2>. QED
    BY <2>1, <2>2 DEF IInv, Types
<1>8. resumed => /\ from \in Files /\ c0.off \in 0..Size[from] /\ c0.off > 0
                 /\ from = c0.next /\ ~ManifestPending(c0)
                 /\ (held[from] = Closed \/ held[from] >= c0.off)
  <2>1. ASSUME resumed
        PROVE  /\ from \in Files /\ c0.off \in 0..Size[from] /\ c0.off > 0
               /\ from = c0.next /\ ~ManifestPending(c0)
               /\ (held[from] = Closed \/ held[from] >= c0.off)
    <3>1. c0.off > 0 /\ from = c0.next /\ from <= N /\ CursorFits(c0)
      BY <1>4, <2>1
    <3>. QED
      BY <1>6, <1>7, <3>1, FileSizes DEF CursorFits
  <2>. QED
    BY <2>1
<1>9. DOMAIN Idle = {}
  BY DEF Idle
<1>10. Types'
  <2>1. last' \in 0..N
    BY <1>1, <1>8, FileSizes DEF Files
  <2>2. DOMAIN lane' \subseteq Files
    BY <1>1, <1>8, <1>9
  <2>3. pc' \in Places
    BY <1>1 DEF Places
  <2>4. ck' \cup pend' \subseteq Payloads
    BY <1>1, <1>4
  <2>. QED
    BY <1>1, <1>2, <1>6, <1>7, <1>9, <2>1, <2>2, <2>3, <2>4 DEF Types, IInv
<1>11. LanesFit'
  <2>1. \A f \in DOMAIN lane' : lane'[f] \in 0..Size[f]
    BY <1>1, <1>8, <1>9
  <2>. QED
    BY <1>1, <1>9, <2>1 DEF LanesFit
<1>12. CursorsFit'
  <2>1. ASSUME c0.off > 0
        PROVE  CursorFits(c0)'
    <3>1. CursorFits(c0)
      BY <1>4, <2>1
    <3>2. CASE resumed
      <4>1. pc' = "serial" /\ lane' = [f \in {from} |-> c0.off]
        BY <1>1, <1>8, <3>2
      <4>2. c0.next \in DOMAIN lane' /\ c0.off <= lane'[c0.next]
        BY <1>6, <1>8, <3>2, <4>1
      <4>. QED
        BY <1>1, <3>1, <4>1, <4>2 DEF CursorFits
    <3>3. CASE ~resumed
      <4>1. from # c0.next
        <5>1. ~(from = c0.next /\ from <= N)
          BY <2>1, <3>3, Zenon
        <5>2. c0.next <= N
          BY <3>1, FileSizes DEF CursorFits, Files
        <5>. QED
          BY <5>1, <5>2, Zenon
      <4>2. c0.next < idx'
        BY <1>1, <1>6, <1>7, <4>1, FileSizes
      <4>. QED
        BY <1>1, <3>1, <4>2 DEF CursorFits
    <3>. QED
      BY <3>2, <3>3
  <2>. QED
    BY <1>1, <2>1 DEF CursorsFit
<1>13. RowsFit' /\ PayloadsFit'
  BY <1>1, <1>4, <1>6 DEF RowsFit, PayloadsFit, PayloadFits
<1>14. SerialFile'
  <2>1. ASSUME pc' = "serial"
        PROVE  /\ from \in idx'..last' /\ DOMAIN lane' = {from}
               /\ \A g \in idx'..last' : g = from
               /\ (held'[from] = Closed \/ held'[from] >= lane'[from])
    <3>1. resumed
      BY <1>1, <2>1
    <3>2. lane' = [f \in {from} |-> c0.off] /\ last' = from /\ idx' = from
      BY <1>1, <3>1
    <3>. QED
      BY <1>1, <1>7, <1>8, <3>1, <3>2, FileSizes
  <2>. QED
    BY <2>1 DEF SerialFile
<1>15. SliceCovered'
  BY <1>1 DEF SliceCovered
<1>16. FreshDone'
  <2>1. ASSUME from = 1
        PROVE  c0.rows = {} /\ ~ManifestPending(c0)
    <3>1. \A f \in c0.rows : f \in Nat /\ 1 <= f /\ f < 1
      BY <1>6, <1>7, <2>1 DEF Files
    <3>2. c0.rows = {}
      BY <3>1
    <3>3. c0.next # N + 1
      BY <1>6, <1>7, <2>1, FileSizes
    <3>. QED
      BY <1>6, <3>2, <3>3
  <2>2. \A f \in Files : ~(f < 1)
    BY FileSizes DEF Files
  <2>. QED
    BY <1>1, <2>1, <2>2 DEF FreshDone
<1>17. NamesFree'
  <2>1. /\ ~append' => \A x \in Names : remote'[x] # Older
        /\ \A x \in Names : remote'[x] = Older => x[2] = 0
    BY <1>1 DEF IInv, NamesFree
  <2>2. \A c \in ck' \cup pend' : c = c0
    BY <1>1
  <2>. QED
    BY <1>1, <1>2, <1>4, <1>5, <2>1, <2>2 DEF NamesFree, Name
<1>18. NoTornFile' /\ FreshComplete'
  BY <1>1 DEF NoTornFile, FreshComplete, IInv
<1>19. RemoteGrows
  BY <1>1 DEF RemoteGrows, IInv, Types
<1>. QED
  BY <1>10, <1>11, <1>12, <1>13, <1>14, <1>15, <1>16, <1>17, <1>18,
     <1>19 DEF IInv

-----------------------------------------------------------------------------
(* The theorems.                                                              *)

(* A folder not yet tried.                                                    *)
LEMMA InitHolds == Init => IInv
<1>. SUFFICES ASSUME Init PROVE IInv
  OBVIOUS
<1>1. /\ kind \in {"native", "custom"} /\ append \in BOOLEAN
      /\ held = [f \in Files |-> Closed]
      /\ ck = {} /\ pend = {} /\ pc = "idle" /\ names = Plain /\ start = 1
      /\ idx = 1 /\ last = 0 /\ queue = {} /\ lane = Idle /\ ready = Idle
      /\ rows = {} /\ skip = {} /\ result = "none" /\ missed = FALSE
  BY Zenon DEF Init
<1>2. PICK S \in SUBSET (IF append THEN {<<f, 0>> : f \in Files} ELSE {}) :
          remote = [x \in Names |-> IF x \in S THEN Older ELSE Absent]
  BY Zenon DEF Init
<1>3. DOMAIN Idle = {} /\ Plain \in Naming
  BY FileSizes DEF Idle, Plain, Naming
<1>4. remote \in [Names -> Int]
  BY <1>2 DEF Older, Absent
<1>5. \A x \in Names : /\ remote[x] \in {Absent, Older}
                       /\ remote[x] = Older => append /\ x[2] = 0
  <2>1. ASSUME NEW x \in Names, x \in S
        PROVE  append /\ x[2] = 0
    <3>1. append
      BY <2>1
    <3>2. PICK f \in Files : x = <<f, 0>>
      BY <2>1, <3>1
    <3>. QED
      BY <3>1, <3>2
  <2>2. \A x \in Names : remote[x] = (IF x \in S THEN Older ELSE Absent)
    BY <1>2
  <2>. QED
    BY <2>1, <2>2 DEF Older, Absent
<1>6. Types
  <2>1. 1 \in 1..(N + 1) /\ 0 \in 0..N
    BY FileSizes
  <2>2. held \in [Files -> Int]
    BY <1>1 DEF Closed
  <2>3. ck \cup pend \subseteq Payloads /\ pc \in Places /\ missed \in BOOLEAN
    BY <1>1 DEF Places
  <2>4. append \in BOOLEAN /\ kind \in {"native", "custom"}
    BY <1>1, Zenon
  <2>. QED
    BY <1>1, <1>3, <1>4, <2>1, <2>2, <2>3, <2>4 DEF Types
<1>7. LanesFit /\ CursorsFit /\ RowsFit /\ PayloadsFit /\ SerialFile /\ SliceCovered
  BY <1>1, <1>3 DEF LanesFit, CursorsFit, RowsFit, PayloadsFit, SerialFile,
     SliceCovered
<1>8. FreshDone /\ FreshComplete
  BY <1>1 DEF FreshDone, FreshComplete
<1>9. NamesFree
  BY <1>1, <1>5 DEF NamesFree
<1>10. NoTornFile
  BY <1>5, Zenon DEF NoTornFile
<1>. QED
  BY <1>6, <1>7, <1>8, <1>9, <1>10 DEF IInv

(* Every step keeps the invariant, and writes nothing but whole files under   *)
(* the names of the attempt.                                                  *)
LEMMA NextKeeps == IInv /\ [Next]_vars => IInv' /\ RemoteGrows
<1>. SUFFICES ASSUME IInv, [Next]_vars PROVE IInv' /\ RemoteGrows
  OBVIOUS
<1>1. CASE Begin
  BY <1>1, BeginKeeps
<1>2. CASE NextSlice \/ FilesUploaded \/ ManifestAccepted
  BY <1>2, NextSliceKeeps, FilesUploadedKeeps, ManifestAcceptedKeeps
<1>3. CASE Serial
  BY <1>3, SerialChunkKeeps, SerialDoneKeeps, SerialRejectedKeeps DEF Serial
<1>4. CASE Group
  BY <1>4, SmallDoneKeeps, LargeChunkKeeps, LargeDoneKeeps, BatchCommittedKeeps,
     GroupDoneKeeps DEF Group
<1>5. CASE RequestFails \/ CancelSeen
  BY <1>5, FailsKeeps DEF RequestFails, CancelSeen
<1>6. CASE Crash
  BY <1>6, CrashKeeps
<1>7. CASE RateLimited \/ Rest \/ UNCHANGED vars
  BY <1>7, StutterKeeps DEF Rest
<1>. QED
  BY <1>1, <1>2, <1>3, <1>4, <1>5, <1>6, <1>7 DEF Next, Progress

(* The inductive invariant holds throughout.                                  *)
THEOREM DirectInvariance == Spec => []IInv
BY InitHolds, NextKeeps, PTL DEF Spec

(* No saved cursor is ahead of its session.                                   *)
LEMMA CursorsBehind == IInv => CursorHeld
BY DEF IInv, CursorsFit, CursorFits, CursorHeld

(* A file at Dropbox is there in full, the cursor of a checkpoint is not      *)
(* ahead of its session, and an attempt that began with the first file and    *)
(* reports success has left no file out: for every folder, every chunk, slice *)
(* and lane size, and any number of failed, cancelled or crashed attempts     *)
(* before (upload_files_hybrid, upload_large_file, ThrottledCheckpointSaver). *)
THEOREM UploadIsAlwaysWhole == Spec => []UploadIsWhole
<1>1. IInv => UploadIsWhole
  BY CursorsBehind DEF UploadIsWhole, IInv
<1>. QED
  BY <1>1, DirectInvariance, PTL

(* An append writes over no older medium, across resumes and whatever failed  *)
(* in between, as long as every probe was answered                            *)
(* (resolve_append_remote_collisions).                                        *)
THEOREM OlderMediaAreKept == Spec => AppendKeepsOlder
<1>. DEFINE Kept == ~missed => \A x \in Names : remote[x] = Older => remote'[x] = Older
<1>1. IInv /\ [Next]_vars => [Kept]_vars
  <2>. SUFFICES ASSUME IInv, [Next]_vars, ~missed, NEW x \in Names, remote[x] = Older
                PROVE  remote'[x] = Older
    BY Zenon
  <2>1. RemoteGrows
    BY NextKeeps
  <2>2. ~(pc # "idle" /\ x = Name(x[1]))
    <3>1. x[1] \in Files
      BY DEF Names
    <3>. QED
      BY <3>1 DEF IInv, NamesFree
  <2>. QED
    BY <2>1, <2>2 DEF RemoteGrows
<1>2. [][Kept]_vars => AppendKeepsOlder
  BY PTL DEF AppendKeepsOlder
<1>. QED
  BY <1>1, <1>2, DirectInvariance, PTL DEF Spec
=============================================================================
