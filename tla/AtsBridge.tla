------------------------------- MODULE AtsBridge -------------------------------
(* What the bridge remembers of the ATS installations that ask it              *)
(* (bridge/server.rs, bridge/presence.rs, storage/ats_presence.rs).            *)
(* Every request leaves a trace: the host that was seen, an entry of its        *)
(* activity, and for a job the host it came from.                              *)
(*                                                                             *)
(* A request without an installation id is taken for the host Unnamed.  Time   *)
(* is counted in ticks; of an event's type the log keeps whether it is a       *)
(* health check.  The answers of the customer API, the token and the           *)
(* diagnostics service differ in what they log, which is left out.             *)
EXTENDS Integers, Sequences, SequencesExt, FiniteSets

CONSTANTS Hosts, Unnamed, Jobs, Nobody,
          Connected, Ttl, Retention, Recent, PruneEvery,  \* ages in ticks
          Limit, MaxRaw, PageSize,     \* of a page: display slots, rows; jobs
          MaxTime, MaxEvents           \* bounds

VARIABLES now, lastPrune,
          hosts,      \* ats_hosts: when the host was last seen, or Never
          activity,   \* ats_activity, oldest first: [h, health, at]
          origin,     \* ats_job_origin of a job: [h, source, seen], or NoOrigin
          announced   \* history variable: who announced the job last

presence == <<lastPrune, hosts, activity, origin, announced>>
vars == <<now, presence>>

Never == -1
NoOrigin == [h |-> Nobody]

(* The id in the header, or one made up from the host's name.                  *)
parse_identity(h, header) == IF header THEN h ELSE Unnamed

(* A host's announcement of a job is not overwritten by requests of others.    *)
JobOrigin(c, h, source) ==
    IF origin[c] # NoOrigin /\ origin[c].source = "ready" /\ source # "ready"
    THEN [origin[c] EXCEPT !.seen = now]
    ELSE [h |-> h, source |-> source, seen |-> now]

(* Mutant of the next: who asks last has the job.                              *)
LastHasIt(c, h, source) ==
    IF c = Nobody THEN UNCHANGED <<origin, announced>>
    ELSE /\ origin' = [origin EXCEPT ![c] = [h |-> h, source |-> source, seen |-> now]]
         /\ announced' = IF source = "ready" THEN [announced EXCEPT ![c] = h] ELSE announced

upsert_job_origin(c, h, source) ==
    IF c = Nobody THEN UNCHANGED <<origin, announced>>
    ELSE /\ origin' = [origin EXCEPT ![c] = JobOrigin(c, h, source)]
         /\ announced' = IF source = "ready" THEN [announced EXCEPT ![c] = h] ELSE announced

prune_if_due(log) ==
    IF lastPrune # Never /\ now - lastPrune < PruneEvery
    THEN activity' = log /\ UNCHANGED lastPrune
    ELSE /\ activity' = SelectSeq(log, LAMBDA e : e.at >= now - Retention)
         /\ lastPrune' = now

record_event(h, kind, c) ==
    /\ Len(activity) < MaxEvents
    /\ hosts' = [hosts EXCEPT ![h] = now]
    /\ prune_if_due(Append(activity, [h |-> h, health |-> kind = "health", at |-> now]))
    /\ upsert_job_origin(c, h, kind)

------------------------------------------------------------------------------
(* The views of the operator.                                                  *)

presence_category(h) ==
    CASE hosts[h] >= now - Connected -> "connected"
      [] hosts[h] < now - Connected /\ hosts[h] >= now - Recent -> "disconnected"
      [] OTHER -> "inactive_long"

(* A host's jobs of the last Ttl; a page behind the last shows the last.       *)
get_jobs_by_host(h, page) ==
    LET mine == SetToSeq({c \in Jobs : origin[c] # NoOrigin /\ origin[c].h = h
                                       /\ origin[c].seen >= now - Ttl})
        last == IF mine = <<>> THEN 0 ELSE (Len(mine) - 1) \div PageSize
        from == PageSize * (IF page > last THEN last ELSE page)
    IN  {mine[i] : i \in {j \in DOMAIN mine : from < j /\ j <= from + PageSize}}

(* A host's events within the retention, newest first.                         *)
Events(h) ==
    Reverse(SelectSeq(activity, LAMBDA e : e.h = h /\ e.at >= now - Retention))

ContinuesRun(list, i, offset) ==
    i > offset + 1 /\ list[i].health /\ list[i - 1].health

Slots(list, offset, n) ==
    Cardinality({i \in offset + 1 .. offset + n : ~ContinuesRun(list, i, offset)})

(* A page of n entries ends when the log does, when it has as many rows as a   *)
(* page may, or when its slots are used up and no run of health checks is open. *)
PageEnds(list, offset, n) ==
    \/ offset + n >= Len(list)
    \/ n = MaxRaw
    \/ Slots(list, offset, n) >= Limit /\ ~ContinuesRun(list, offset + n + 1, offset)

(* The number of entries on the page at the offset.                            *)
get_host_activity(h, offset) ==
    LET list == Events(h)
        taken[n \in 0 .. Len(list)] ==
            IF PageEnds(list, offset, n) THEN n ELSE taken[n + 1]
    IN  taken[0]

------------------------------------------------------------------------------
(* The requests.                                                               *)

Request(h, kind, c) == record_event(h, kind, c) /\ UNCHANGED now

health(h) == Request(h, "health", Nobody)
customer_lookup(h) == Request(h, "customer_lookup", Nobody)
client_token(h) == Request(h, "client_token", Nobody)
diagnostics_events(h) == Request(h, "diagnostics_events", Nobody)
handoff_ready(h, c) == Request(h, "ready", c)
handoff_cancel(h, c) == Request(h, "cancel", c)
job_status(h, c) == Request(h, "job_status", c)

------------------------------------------------------------------------------
Removed(hs) ==
    /\ hosts' = [h \in Hosts |-> IF h \in hs THEN Never ELSE hosts[h]]
    /\ activity' = SelectSeq(activity, LAMBDA e : e.h \notin hs)
    /\ origin' = [c \in Jobs |-> IF origin[c].h \in hs THEN NoOrigin ELSE origin[c]]
    /\ announced' = [c \in Jobs |-> IF announced[c] \in hs THEN Nobody ELSE announced[c]]
    /\ UNCHANGED <<now, lastPrune>>

remove_host(h) == hosts[h] # Never /\ presence_category(h) # "connected" /\ Removed({h})

remove_inactive_long_hosts ==
    LET old == {h \in Hosts : hosts[h] # Never /\ presence_category(h) = "inactive_long"}
    IN  old # {} /\ Removed(old)

Tick == now < MaxTime /\ now' = now + 1 /\ UNCHANGED presence

(* After a restart the prune is due.                                           *)
Restart ==
    /\ lastPrune # Never /\ lastPrune' = Never
    /\ UNCHANGED <<now, hosts, activity, origin, announced>>

Init ==
    /\ now = 0 /\ lastPrune = Never /\ hosts = [h \in Hosts |-> Never] /\ activity = <<>>
    /\ origin = [c \in Jobs |-> NoOrigin] /\ announced = [c \in Jobs |-> Nobody]

Next ==
    \/ \E i \in Hosts \ {Unnamed}, header \in BOOLEAN :
         LET h == parse_identity(i, header)
         IN  \/ health(h) \/ customer_lookup(h) \/ client_token(h) \/ diagnostics_events(h)
             \/ \E c \in Jobs : handoff_ready(h, c) \/ handoff_cancel(h, c) \/ job_status(h, c)
    \/ \E h \in Hosts : remove_host(h)
    \/ remove_inactive_long_hosts \/ Tick \/ Restart

------------------------------------------------------------------------------
(* A job that was announced is listed, on one of the pages, for the host that  *)
(* announced it last and for no other, whoever else asks for its status or     *)
(* cancels it, as long as it was heard of within the window ("erlauben         *)
(* zusätzlich die Zuordnung correlation_id -> ATS-Host", docs/HANDOFF.md).     *)
JobsOfAnnouncer ==
    \A c \in Jobs, h \in Hosts : announced[c] # Nobody =>
        (c \in UNION {get_jobs_by_host(h, page) : page \in 0 .. Cardinality(Jobs)}
            <=> h = announced[c] /\ origin[c].seen >= now - Ttl)

(* "Finish an open health run so the collapsed row is complete": going through *)
(* a host's activity page by page shows every event, and no page ends within a *)
(* run of health checks unless it is as long as a page may be                  *)
(* (get_host_activity).                                                        *)
RunsShownWhole ==
    \A h \in Hosts :
        LET list == Events(h)
            offset[n \in 0 .. Len(list)] ==
                IF n = 0 THEN 0
                ELSE offset[n - 1] + get_host_activity(h, offset[n - 1])
        IN  /\ offset[Len(list)] = Len(list)
            /\ \A n \in 1 .. Len(list) :
                 LET o == offset[n]
                 IN  o < Len(list) /\ list[o].health /\ list[o + 1].health =>
                         o - offset[n - 1] = MaxRaw

(* What the operator is shown of an installation is true and complete: the     *)
(* jobs it announced, and its activity.                                        *)
PresenceIsTrue == JobsOfAnnouncer /\ RunsShownWhole
=============================================================================
