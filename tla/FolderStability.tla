----------------------------- MODULE FolderStability -----------------------------
(* The wait before a folder without a handoff manifest is claimed: its files  *)
(* must keep their number and their sizes for the set time (monitor/          *)
(* stability.rs, scan_once and run_monitor_loop of monitor/service.rs).       *)
(*                                                                            *)
(* A camera or a colleague writes to the folder while the monitor walks it on *)
(* a network share, where a part of it may not be readable at a time.  A      *)
(* write makes the folder's files larger or more; one that keeps all sizes    *)
(* (a preallocated file being filled) is invisible to the code and left out.  *)
EXTENDS Naturals

CONSTANTS Folders, Waits,     \* Waits: values of folder_stability_seconds, in ticks
          MaxTime,            \* bound: the clock
          MaxWrites,          \* bound: writes to a folder
          MaxFaults           \* bound: walks that miss a part of a folder

VARIABLES now,
          size,        \* of each folder: its files' sizes, 0 without a file
          written,     \* the time of its last write
          fertig,      \* folders with the ready marker
          processing,  \* folders that are claimed
          manifest,    \* folders with a handoff manifest
          pending,     \* FolderStabilityTracker.pending
          required,    \* the time set, as the pass reads it
          running,     \* the monitor's flag
          pass,        \* folders the pass still has to look at; keep: seen waiting
          walk,        \* [folder, at]: the folder being walked and since when
          claim,       \* the folder being claimed; how it was, and when, as it
                       \* was found fit for it: [folder, waited, size, at]
          blind,       \* folders whose fingerprint lacks a part
          faults

vars == <<now, size, written, fertig, processing, manifest, pending, required, running,
          pass, walk, claim, blind, faults>>
world == <<size, written, fertig, manifest>>

Nothing == [folder |-> "none"]
NotPending == [seen |-> FALSE]
Idle == [todo |-> {}, keep |-> {}, on |-> FALSE]

Init ==
    /\ now = 0 /\ size = [f \in Folders |-> 0] /\ written = [f \in Folders |-> 0]
    /\ fertig = {} /\ processing = {} /\ manifest = {}
    /\ pending = [f \in Folders |-> NotPending]
    /\ required \in Waits /\ running = FALSE
    /\ pass = Idle /\ walk = Nothing /\ claim = Nothing /\ blind = {} /\ faults = 0

------------------------------------------------------------------------------
(* Outside.                                                                   *)

(* A walk ends within the tick it began in or the next.                       *)
Tick ==
    /\ now < MaxTime /\ now' = now + 1
    /\ walk # Nothing => walk.at = now
    /\ UNCHANGED <<world, processing, pending, required, running, pass, walk, claim, blind,
                   faults>>

Write(f) ==
    /\ size[f] < MaxWrites
    /\ size' = [size EXCEPT ![f] = @ + 1] /\ written' = [written EXCEPT ![f] = now]
    /\ UNCHANGED <<now, fertig, processing, manifest, pending, required, running, pass, walk,
                   claim, blind, faults>>

Mark(f) ==
    /\ f \notin fertig \cup processing
    /\ fertig' = fertig \cup {f}
    /\ manifest' \in {manifest, manifest \cup {f}}
    /\ UNCHANGED <<now, size, written, processing, pending, required, running, pass, walk,
                   claim, blind, faults>>

Unmark(f) ==
    /\ f \in fertig
    /\ fertig' = fertig \ {f}
    /\ UNCHANGED <<now, size, written, processing, manifest, pending, required, running, pass,
                   walk, claim, blind, faults>>

------------------------------------------------------------------------------
(* The monitor.                                                               *)

start ==
    /\ ~running /\ running' = TRUE
    /\ UNCHANGED <<now, world, processing, pending, required, pass, walk, claim, blind,
                   faults>>

(* The flag is looked at between two passes.                                  *)
stop ==
    /\ running /\ ~pass.on
    /\ running' = FALSE
    /\ pending' = [f \in Folders |-> NotPending]           \* tracker.clear
    /\ UNCHANGED <<now, world, processing, required, pass, walk, claim, blind, faults>>

(* Each pass reads the settings anew; a directory that cannot be listed ends  *)
(* it before anything is observed or dropped.                                 *)
run_monitor_loop ==
    /\ running /\ ~pass.on
    /\ required' \in Waits
    /\ pass' = [todo |-> fertig \cup processing, keep |-> {}, on |-> TRUE]
    /\ UNCHANGED <<now, world, processing, pending, running, walk, claim, blind, faults>>

discard(f) == pending' = [pending EXCEPT ![f] = NotPending]
Seen(f) == pass' = [pass EXCEPT !.todo = @ \ {f}]

(* try_claim_and_enqueue begins: with the folder's media and its marker there.*)
Takes(f, waited) ==
    /\ claim' = [folder |-> f, waited |-> waited, size |-> size[f], at |-> now]
    /\ Seen(f) /\ discard(f)

(* A claimed folder and one with a manifest need no wait.                     *)
scan_once(f) ==
    /\ pass.on /\ walk = Nothing /\ claim = Nothing /\ f \in pass.todo
    /\ \/ /\ f \in processing
          /\ discard(f) /\ Seen(f) /\ UNCHANGED <<walk, claim>>
       \/ /\ f \notin processing \cup fertig
          /\ Seen(f) /\ UNCHANGED <<pending, walk, claim>>
       \/ /\ f \in fertig \ processing /\ f \in manifest
          /\ IF size[f] > 0 THEN Takes(f, FALSE)
             ELSE discard(f) /\ Seen(f) /\ UNCHANGED claim
          /\ UNCHANGED walk
       \/ /\ f \in fertig \ (processing \cup manifest)
          /\ walk' = [folder |-> f, at |-> now]
          /\ UNCHANGED <<pending, pass, claim>>
    /\ UNCHANGED <<now, world, processing, required, running, blind, faults>>

(* What the walk returns: all the folder's files, or some when a part of it   *)
(* could not be read.                                                         *)
folder_content_fingerprint(f) == size[f]

(* Mutant of the next: a changed folder keeps the time its wait began.        *)
KeepsSince(f, fp, at) ==
    [seen |-> TRUE, fingerprint |-> fp, media |-> TRUE,
     since |-> IF pending[f].seen THEN pending[f].since ELSE at]

Restarted(f, fp, at) == [seen |-> TRUE, fingerprint |-> fp, media |-> TRUE, since |-> at]

Waiting(f, entry) ==
    /\ pending' = [pending EXCEPT ![f] = entry]
    /\ pass' = [pass EXCEPT !.todo = @ \ {f}, !.keep = @ \cup {f}]
    /\ UNCHANGED claim

Entry(f, fp, at) ==
    IF fp = 0 THEN [seen |-> TRUE, fingerprint |-> 0, media |-> FALSE,
                    since |-> IF pending[f].seen THEN pending[f].since ELSE at]
    ELSE IF pending[f].seen /\ pending[f].fingerprint = fp THEN pending[f]
    ELSE Restarted(f, fp, at)

(* The time is taken before the walk, the fingerprint at its end.             *)
observe_at ==
    /\ walk # Nothing
    /\ LET f == walk.folder IN \E fp \in 0..size[f] :
         /\ \/ fp = folder_content_fingerprint(f) /\ blind' = blind \ {f} /\ UNCHANGED faults
            \/ fp < size[f] /\ faults < MaxFaults /\ faults' = faults + 1
               /\ blind' = blind \cup {f}
         /\ \/ /\ f \notin fertig                                   \* Removed
               /\ discard(f) /\ Seen(f) /\ UNCHANGED claim
            \/ /\ f \in fertig /\ fp > 0
               /\ required = 0 \/ walk.at >= Entry(f, fp, walk.at).since + required
               /\ Takes(f, TRUE)                                    \* Stable
            \/ /\ f \in fertig
               /\ fp = 0 \/ (required > 0 /\ walk.at < Entry(f, fp, walk.at).since + required)
               /\ Waiting(f, Entry(f, fp, walk.at))
    /\ walk' = Nothing
    /\ UNCHANGED <<now, world, processing, required, running>>

(* The marker has been read, and the customer may have been looked up, for as *)
(* long as that takes; nobody has looked at the files again.                  *)
claim_fertig_marker ==
    /\ claim # Nothing /\ claim.folder \in fertig
    /\ processing' = processing \cup {claim.folder} /\ fertig' = fertig \ {claim.folder}
    /\ claim' = Nothing
    /\ UNCHANGED <<now, size, written, manifest, pending, required, running, pass, walk,
                   blind, faults>>

(* The folder is refused, the lookup or the rename fails.                     *)
NotClaimed ==
    /\ claim # Nothing /\ claim' = Nothing
    /\ UNCHANGED <<now, world, processing, pending, required, running, pass, walk, blind,
                   faults>>

retain_keys ==
    /\ pass.on /\ pass.todo = {} /\ walk = Nothing /\ claim = Nothing
    /\ pending' = [f \in Folders |-> IF f \in pass.keep THEN pending[f] ELSE NotPending]
    /\ pass' = Idle
    /\ UNCHANGED <<now, world, processing, required, running, walk, claim, blind, faults>>

Next == \/ Tick \/ start \/ stop \/ run_monitor_loop \/ observe_at \/ retain_keys
        \/ claim_fertig_marker \/ NotClaimed
        \/ \E f \in Folders : Write(f) \/ Mark(f) \/ Unmark(f) \/ scan_once(f)

Spec == Init /\ [][Next]_vars

------------------------------------------------------------------------------
(* Properties.                                                                *)

(* A folder that is claimed after its wait had not been written to for the    *)
(* set time when it was found stable, less the one walk that may lie between  *)
(* the clock and the files, provided the walk could read all of it: a folder  *)
(* being copied is not uploaded in a pause that is too short.  Of every step; *)
(* what is written while the customer is looked up is not noticed by the      *)
(* code, and such a claim is excepted.                                        *)
StableIsQuiet ==
    \A f \in processing' \ processing :
       claim.waited /\ f \notin blind /\ size[f] = claim.size =>
         claim.at + 1 >= written[f] + required
=============================================================================
