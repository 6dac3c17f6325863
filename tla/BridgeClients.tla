------------------------------ MODULE BridgeClients ------------------------------
(* The LAN bridge as a server: it is started, stopped and restarted from the  *)
(* settings, by the program's start and by the operator's "apply", and it     *)
(* fetches for a studio a client token of the cloud the service is connected  *)
(* to (bridge/mod.rs, bridge/server.rs, bridge/identity.rs, cloud/custom_api/ *)
(* ats_client_token.rs).                                                      *)
(*                                                                            *)
(* Settings and secrets are saved one by one; whoever reads two of them reads *)
(* them one after the other.                                                  *)
EXTENDS Naturals, FiniteSets

CONSTANTS Appliers,    \* calls of apply_from_config, each of them made once
          Requests,    \* studios that ask for a token, each of them once
          Binds,       \* addresses the bridge may be bound to
          Clouds,      \* the clouds it may be connected to
          None,
          MaxSaves     \* bound: settings saved

VARIABLES enabled, bind,   \* the bridge's settings; its token is as the address
          base, key,       \* the cloud's address and key: of which cloud
          instance,        \* bridge_instance_id
          server,          \* of each call that started one: "no", "on", "draining"
          boundTo,         \* the address it is bound to
          inner,           \* BridgeState.inner: the call whose server it holds
          apply,           \* where each call is
          request,         \* where each request is
          saves

vars == <<enabled, bind, base, key, instance, server, boundTo, inner, apply, request, saves>>
settings == <<enabled, bind, base, key>>
servers == <<server, boundTo, inner>>

NoRequest == [step |-> "new"]

Init ==
    /\ enabled \in BOOLEAN /\ bind \in Binds
    /\ base \in Clouds /\ key = base /\ instance = None
    /\ server = [a \in Appliers |-> "no"] /\ boundTo = [a \in Appliers |-> None]
    /\ inner = None
    /\ apply = [a \in Appliers |-> [step |-> "new"]]
    /\ request = [q \in Requests |-> NoRequest]
    /\ saves = 0

Save ==
    /\ saves < MaxSaves /\ saves' = saves + 1
    /\ \/ enabled' \in BOOLEAN \ {enabled} /\ UNCHANGED <<bind, base, key>>
       \/ bind' \in Binds \ {bind} /\ UNCHANGED <<enabled, base, key>>
       \/ base' \in (Clouds \cup {None}) \ {base} /\ UNCHANGED <<enabled, bind, key>>
       \/ key' \in (Clouds \cup {None}) \ {key} /\ UNCHANGED <<enabled, bind, base>>
    /\ UNCHANGED <<instance, servers, apply, request>>

------------------------------------------------------------------------------
(* apply_from_config.                                                         *)

Step(a, s) == apply' = [apply EXCEPT ![a] = s]

ApplyReadsEnabled(a) ==
    /\ apply[a].step = "new"
    /\ Step(a, [step |-> IF enabled THEN "enabled" ELSE "stop", bind |-> None])
    /\ UNCHANGED <<settings, instance, servers, request, saves>>

(* The address and the token.  Without a token the bridge is stopped; without *)
(* an address the call ends and leaves what runs.                             *)
ApplyReadsRest(a) ==
    /\ apply[a].step = "enabled"
    /\ \/ Step(a, [step |-> "stop", bind |-> bind])
       \/ Step(a, [step |-> "stop", bind |-> None])
       \/ Step(a, [step |-> "done"])
    /\ UNCHANGED <<settings, instance, servers, request, saves>>

Working(s) == \E q \in Requests : request[q].step \notin {"new", "done"} /\ request[q].on = s

(* The server that is held is taken out and told to end.                      *)
stop(a) ==
    /\ apply[a].step = "stop"
    /\ inner' = None
    /\ server' = IF inner = None THEN server ELSE [server EXCEPT ![inner] = "draining"]
    /\ Step(a, [step |-> "join", bind |-> apply[a].bind, old |-> inner])
    /\ UNCHANGED <<settings, instance, boundTo, request, saves>>

(* A server that was told to end takes no request and ends with its last one. *)
shutdown(a) ==
    /\ server[a] = "draining" /\ ~Working(a)
    /\ server' = [server EXCEPT ![a] = "no"]
    /\ UNCHANGED <<settings, instance, boundTo, inner, apply, request, saves>>

Joined(a) == apply[a].step = "join" /\ \A s \in Appliers \cap {apply[a].old} : server[s] = "no"

StopEnds(a) ==
    /\ Joined(a) /\ apply[a].bind = None
    /\ Step(a, [step |-> "done"])
    /\ UNCHANGED <<settings, instance, servers, request, saves>>

(* The address may be in use by the server of another call.                   *)
start(a) ==
    /\ Joined(a) /\ apply[a].bind # None
    /\ LET taken == \E b \in Appliers : server[b] = "on" /\ boundTo[b] = apply[a].bind
       IN  IF taken THEN Step(a, [step |-> "done"]) /\ UNCHANGED <<server, boundTo>>
           ELSE /\ server' = [server EXCEPT ![a] = "on"]
                /\ boundTo' = [boundTo EXCEPT ![a] = apply[a].bind]
                /\ Step(a, [step |-> "started"])
    /\ UNCHANGED <<settings, instance, inner, request, saves>>

(* Mutant of the next: the server that is replaced goes on.                   *)
HoldsOnly(a) ==
    /\ apply[a].step = "started"
    /\ inner' = a
    /\ Step(a, [step |-> "done"])
    /\ UNCHANGED <<settings, instance, server, boundTo, request, saves>>

(* The server is held; one that another call has put there meanwhile is       *)
(* dropped, and with it its shutdown channel, which ends it.                  *)
Hold(a) ==
    /\ apply[a].step = "started"
    /\ inner' = a
    /\ server' = IF inner = None THEN server ELSE [server EXCEPT ![inner] = "draining"]
    /\ Step(a, [step |-> "done"])
    /\ UNCHANGED <<settings, instance, boundTo, request, saves>>

------------------------------------------------------------------------------
(* POST /v1/client-token.                                                     *)

Goes(q, r) == request' = [request EXCEPT ![q] = r]
Ends(q, code, cloud) == Goes(q, [step |-> "done", code |-> code, cloud |-> cloud])

(* A request has the token of the server, or not; it names its studio, or not.*)
require_bearer(q) ==
    /\ request[q] = NoRequest
    /\ \E s \in Appliers :
         /\ server[s] = "on"
         /\ \/ Ends(q, "unauthorized", None)
            \/ Ends(q, "ats_instance_id_required", None)
            \/ Goes(q, [step |-> "identity", on |-> s, ams |-> instance])
    /\ UNCHANGED <<settings, instance, servers, apply, saves>>

(* The bridge's own id is made when none was found.                           *)
ensure_instance_id(q) ==
    /\ request[q].step = "identity"
    /\ LET id == IF request[q].ams = None THEN q ELSE request[q].ams
       IN  /\ instance' = IF request[q].ams = None THEN q ELSE instance
           /\ Goes(q, [step |-> "base", on |-> request[q].on, ams |-> id])
    /\ UNCHANGED <<settings, servers, apply, saves>>

ReadsBase(q) ==
    /\ request[q].step = "base"
    /\ Goes(q, [step |-> "key", on |-> request[q].on, ams |-> request[q].ams, base |-> base])
    /\ UNCHANGED <<settings, instance, servers, apply, saves>>

resolve_cloud_issue_credentials(q) ==
    /\ request[q].step = "key"
    /\ LET r == request[q]
       IN  CASE r.base = None -> Ends(q, "cloud_base_missing", None)
             [] r.base # None /\ key = None -> Ends(q, "cloud_api_key_missing", None)
             [] OTHER -> Goes(q, [step |-> "issue", on |-> r.on, ams |-> r.ams,
                                  base |-> r.base, key |-> key])
    /\ UNCHANGED <<settings, instance, servers, apply, saves>>

(* The address the answer names, whichever that is, or the one that was asked.*)
map_cloud_issue_response(r, named) == IF named = None THEN r.base ELSE named

(* A cloud knows its own keys; it may be out of reach, refuse the key's       *)
(* permission or answer without a token or a time.                            *)
issue_client_token(q) ==
    /\ request[q].step = "issue"
    /\ LET r == request[q]
       IN  \/ Ends(q, "cloud_unreachable", None)
           \/ Ends(q, "cloud_issue_failed", None)
           \/ r.key # r.base /\ Ends(q, "cloud_unauthorized", None)
           \/ r.key = r.base /\ Ends(q, "cloud_forbidden", None)
           \/ /\ r.key = r.base
              /\ \E named \in Clouds \cup {None} :
                   Ends(q, "ok", map_cloud_issue_response(r, named))
    /\ UNCHANGED <<settings, instance, servers, apply, saves>>

Next ==
    \/ Save
    \/ \E a \in Appliers :
         \/ ApplyReadsEnabled(a) \/ ApplyReadsRest(a) \/ stop(a) \/ shutdown(a)
         \/ StopEnds(a) \/ start(a) \/ Hold(a)
    \/ \E q \in Requests :
         \/ require_bearer(q) \/ ensure_instance_id(q) \/ ReadsBase(q)
         \/ resolve_cloud_issue_credentials(q) \/ issue_client_token(q)

Spec == Init /\ [][Next]_vars

------------------------------------------------------------------------------
(* Properties.                                                                *)

(* However calls of apply_from_config overlap, a server that listens is held, *)
(* or its call is about to hold it: a call that looks in between does not     *)
(* reach it, but whichever comes later does, and none is left to listen after *)
(* the calls are done.                                                        *)
ListenerIsHeld ==
    \A a \in Appliers : server[a] = "on" => inner = a \/ apply[a].step = "started"

(* What is held listens: the bridge is not shown as running, nor started no   *)
(* more, when the server was told to end by another call.                     *)
HeldListens == inner # None => server[inner] = "on"

(* The server that is held is the one that listens, but for those about to be *)
(* held.                                                                      *)
BridgeIsSound == ListenerIsHeld /\ HeldListens
=============================================================================
