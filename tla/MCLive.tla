------------------------------- MODULE MCLive -------------------------------
(***************************************************************************)
(* Three components that must come to an end by themselves: the pipeline   *)
(* of one folder, the routing of three folders of one booking (two of them *)
(* first uploads, the third names the first as its parent) and the SMS of  *)
(* one row.  A behaviour is one of one component, the others rest in their *)
(* initial states.                                                         *)
(***************************************************************************)
EXTENDS Messages

MCNumber == [r \in Folders |-> 1]
MCContact == [r \in Folders |-> [mail |-> FALSE, phone |-> TRUE]]

VARIABLES part,
    pending, entries, jobs, closed, place, marks, manifest, outbox, history, loop,
    worker, retry, cancel, signals, notified, retries, lingers, crashes,
    marker, status, queue, work, op, announced, failures, deletes

messages == vars
pipeline == <<pending, entries, jobs, closed, place, marks, manifest, outbox, history,
              loop, worker, retry, cancel, signals, notified, retries, lingers, crashes>>
routing == <<marker, status, queue, work, op, announced, failures, deletes>>
all == <<part, messages, pipeline, routing>>

Pipeline == INSTANCE UploadPipeline
    WITH Folders <- {"f1"}, Monitors <- {"m1"}, Manifests <- {"none", "ok", "bad"},
         Routed <- {"f1"}, ArchiveFails <- FALSE,
         MaxCrashes <- 1, MaxRetries <- 0, MaxSignals <- 1, MaxLingers <- 1,
         Accounts <- {}, NoAccount <- "none", NoFolder <- "none", RetryTask <- "retry"

Routing == INSTANCE AppendRouting
    WITH Folders <- {"d1", "d2", "e1"}, Booking <- [d \in {"d1", "d2", "e1"} |-> 1],
         Explicit <- {"e1"}, Parent <- [e1 |-> "d1"], None <- "none",
         MaxSignals <- 4, MaxFaults <- 2, MaxDeletes <- 1,
         signals <- announced, faults <- failures

MessagesStep(A) == part = "messages" /\ A /\ UNCHANGED <<part, pipeline, routing>>
PipelineStep(A) == part = "pipeline" /\ A /\ UNCHANGED <<part, messages, routing>>
RoutingStep(A) == part = "routing" /\ A /\ UNCHANGED <<part, messages, pipeline>>

LiveInit ==
    /\ part \in {"messages", "pipeline", "routing"}
    /\ Init /\ Pipeline!Init /\ Routing!Init

LiveNext ==
    \/ MessagesStep(Next) \/ PipelineStep(Pipeline!Next) \/ RoutingStep(Routing!Next)

(* The fairness of the three specifications.                               *)
LiveFairness ==
    /\ WF_all(MessagesStep(SyncReads("timer")))
    /\ WF_all(MessagesStep(SyncWrites("timer")))
    /\ WF_all(PipelineStep(Pipeline!LoopStep("m1")))
    /\ SF_all(PipelineStep(Pipeline!GateAccepts("m1", "f1")))
    /\ SF_all(PipelineStep(Pipeline!RecoverLook("m1", "f1")))
    /\ SF_all(PipelineStep(Pipeline!DiscardStale("m1", "f1")))
    /\ SF_all(PipelineStep(Pipeline!ClaimRename("m1")))
    /\ SF_all(PipelineStep(Pipeline!RecoverBind("m1")))
    /\ WF_all(PipelineStep(Pipeline!WorkerStep))
    /\ SF_all(PipelineStep(Pipeline!WorkerStart))
    /\ WF_all(RoutingStep(Routing!Works))
    /\ \A d \in {"d1", "d2", "e1"} : WF_all(RoutingStep(Routing!Monitors(d)))

LiveSpec == LiveInit /\ [][LiveNext]_all /\ LiveFairness

(* A claimed folder is queued, or leaves the share, even when the program was *)
(* restarted in between (UploadPipeline).                                     *)
ClaimedIsQueued == Pipeline!ClaimedIsQueued

(* A finished folder with a usable manifest ends in the archive or has at     *)
(* least been uploaded (UploadPipeline).                                      *)
EveryJobSettles == Pipeline!EveryJobSettles

(* Folders of one booking make one order, and none waits for ever unless an   *)
(* order it must wait for failed (AppendRouting).                             *)
RoutingIsSound == Routing!RoutingIsSound
=============================================================================
