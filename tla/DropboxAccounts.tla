---------------------------- MODULE DropboxAccounts ----------------------------
(***************************************************************************)
(* The Dropbox profiles of one pool: rows of dropbox_accounts, their keys  *)
(* in the keyring beside the pool-wide "legacy" keys, the active profile   *)
(* in the settings and in CloudState, and the jobs bound to a profile.     *)
(* A profile is its creation number (uuids never return; list() is ordered *)
(* by creation), Legacy stands for the pool-wide keys and their client. A  *)
(* refresh or access token is the Dropbox account it opens.                *)
(* Commands that never await run on the application's main thread one at a *)
(* time and are one step; OAuth and connect await Dropbox three times and  *)
(* interleave with everything. A stop inside a step is not modelled.       *)
(***************************************************************************)
EXTENDS Naturals, FiniteSets

CONSTANTS Accounts,      \* Dropbox accounts the operator can sign in with
          MaxProfiles,   \* bound: profiles ever created
          Flows,         \* OAuth or connect commands that may overlap
          MaxActs,       \* bound: commands of the operator
          MaxFaults,     \* bound: refusals by Dropbox, lost answers, restarts
          None

Legacy == 0
Profiles == 1..MaxProfiles
Unbound == "unbound"     \* a row without a dropbox_account_id
Absent == "absent"       \* no row

VARIABLES up,       \* the application runs
          migrated, \* dropbox_multi_account_migrated
          made,     \* profiles created so far
          row,      \* dropbox_account_id of each profile's row
          creds,    \* key names holding an app key and secret
          token,    \* refresh tokens in the keyring
          active,   \* active_dropbox_account_id in the settings
          cur,      \* active_id of the pool's clients (CloudState)
          access,   \* access token cached in each client
          flow,     \* running OAuth / connect commands
          jobs,     \* profiles a queued job is bound to
          session,  \* account a profile's checkpointed upload session lives in
          acts, faults
vars == <<up, migrated, made, row, creds, token, active, cur, access, flow,
          jobs, session, acts, faults>>

Rows == {p \in Profiles : row[p] # Absent}
First(S) == IF S = {} THEN None ELSE CHOOSE p \in S : \A q \in S : p <= q
Client == IF cur = None THEN Legacy ELSE cur
Idle == [step |-> "idle", key |-> Legacy, info |-> None]

\* The keyring after legacy keys and the active profile's keys were mirrored:
\* the profile wins a conflict, a missing one is filled from the other.
sync_active_secrets_with_legacy(tok, key, act) ==
    IF act = None THEN [tokens |-> tok, keys |-> key]
    ELSE [tokens |->
             IF tok[act] # None THEN [tok EXCEPT ![Legacy] = tok[act]]
             ELSE [tok EXCEPT ![act] = tok[Legacy]],
          keys |-> IF key \cap {Legacy, act} = {} THEN key
                   ELSE key \cup {Legacy, act}]

Mirror(tok, key, act) ==
    LET s == sync_active_secrets_with_legacy(tok, key, act)
    IN  token' = s.tokens /\ creds' = s.keys

\* The store's create, delete and update_identity (an unknown id is an error).
Created(r) == [r EXCEPT ![made + 1] = Unbound]
Erased(p) == [rows |-> [row EXCEPT ![p] = Absent],
              tokens |-> [token EXCEPT ![p] = None], keys |-> creds \ {p}]
update_identity(p, a) == IF p \in Rows THEN [row EXCEPT ![p] = a] ELSE row

Act == acts < MaxActs /\ acts' = acts + 1
Fault == faults < MaxFaults /\ faults' = faults + 1

-----------------------------------------------------------------------------
(* Start of the application and the commands of the main thread. *)

\* One-shot migration of a pool: rows exist already (then only the active id
\* is filled in), or no legacy secret exists, or one profile takes them over.
migrate_pool ==
    IF Rows # {}
    THEN /\ active' = IF active = None THEN First(Rows) ELSE active
         /\ UNCHANGED <<made, row, creds, token>>
    ELSE IF (Legacy \notin creds /\ token[Legacy] = None) \/ made = MaxProfiles
    THEN UNCHANGED <<made, row, creds, token, active>>
    ELSE /\ made' = made + 1
         /\ row' = Created(row)
         /\ creds' = IF Legacy \in creds THEN creds \cup {made'} ELSE creds
         /\ token' = [token EXCEPT ![made'] = token[Legacy]]
         /\ active' = made'

ensure_migrated ==
    /\ migrated' = TRUE
    /\ IF migrated THEN UNCHANGED <<made, row, creds, token, active>>
                   ELSE migrate_pool

Boot ==
    /\ ~up /\ up' = TRUE
    /\ ensure_migrated
    /\ cur' = active'
    /\ UNCHANGED <<access, flow, jobs, session, faults, acts>>

Stop ==
    /\ up /\ Fault /\ up' = FALSE
    /\ access' = [k \in DOMAIN access |-> None]
    /\ flow' = [f \in Flows |-> Idle]
    /\ jobs' = {}
    /\ UNCHANGED <<migrated, made, row, creds, token, active, cur, session, acts>>

\* The settings dialog writes the app key to the legacy name and to the
\* active profile.
save_secret ==
    /\ up /\ Act
    /\ creds' = creds \cup ({Legacy} \cup ({active} \ {None}))
    /\ creds' # creds
    /\ UNCHANGED <<up, migrated, made, row, token, active, cur, access, flow,
                   jobs, session, faults>>

create_dropbox_account ==
    /\ up /\ Act /\ made < MaxProfiles
    /\ made' = made + 1
    /\ row' = Created(row)
    /\ creds' = IF Client \in creds THEN creds \cup {made'} ELSE creds
    /\ active' = IF active = None THEN made' ELSE active
    /\ cur' = IF active = None THEN made' ELSE cur
    /\ UNCHANGED <<up, migrated, token, access, flow, jobs, session,
                   faults>>

set_active_dropbox_account(p) ==
    /\ up /\ Act /\ p \in Rows
    /\ active' = p
    /\ Mirror(token, creds, p)
    /\ cur' = p
    /\ UNCHANGED <<up, migrated, made, row, access, flow, jobs, session, faults>>

\* The clients forget a profile; the active one then has no id.
forget_account(p) == IF cur = p THEN None ELSE cur

assert_can_delete_or_disconnect(k) == k \notin jobs

\* The oldest remaining profile becomes active, and takes the legacy token
\* of the deleted one when it has none.
delete_dropbox_account(p) ==
    LET left == First(Rows \ {p}) IN
    /\ up /\ Act /\ p \in Rows /\ assert_can_delete_or_disconnect(p)
    /\ row' = Erased(p).rows
    /\ access' = [access EXCEPT ![p] = None]
    /\ IF forget_account(p) # cur
       THEN /\ active' = left /\ cur' = left
            /\ Mirror(Erased(p).tokens, Erased(p).keys, left)
       ELSE /\ token' = Erased(p).tokens
            /\ creds' = Erased(p).keys
            /\ UNCHANGED <<active, cur>>
    /\ UNCHANGED <<up, migrated, made, flow, jobs, session, faults>>

-----------------------------------------------------------------------------
(* Sessions with Dropbox. *)

disconnect_session(k) == [token EXCEPT ![k] = None]

disconnect_dropbox(k) ==
    /\ up /\ Act /\ k \in Rows \cup {Client}
    /\ assert_can_delete_or_disconnect(k)
    /\ access' = [access EXCEPT ![k] = None]
    /\ Mirror(disconnect_session(k), creds, active)
    /\ UNCHANGED <<up, migrated, made, row, active, cur, flow, jobs, session, faults>>

disconnect_active_cloud ==
    /\ up /\ Act /\ assert_can_delete_or_disconnect(Client)
    /\ access' = [access EXCEPT ![Client] = None]
    /\ token' = disconnect_session(Client)
    /\ UNCHANGED <<up, migrated, made, row, creds, active, cur, flow, jobs,
                   session, faults>>

\* A refresh that Dropbox refuses (400 or 401) deletes the refresh token.
Refused(k) ==
    /\ up /\ k \in creds /\ token[k] # None /\ Fault
    /\ token' = [token EXCEPT ![k] = None]
    /\ access' = [access EXCEPT ![k] = None]
    /\ UNCHANGED <<up, migrated, made, row, creds, active, cur, flow, jobs,
                   session, acts>>

refresh_access_token(k) == IF k \in creds THEN token[k] ELSE None

ensure_token(k) == IF access[k] # None THEN access[k] ELSE refresh_access_token(k)

\* The settings' live check and a request of a client whose token is gone.
connection_status_verified(k) ==
    /\ up /\ k \in Rows \cup {Client}
    /\ access[k] = None /\ refresh_access_token(k) # None
    /\ access' = [access EXCEPT ![k] = refresh_access_token(k)]
    /\ UNCHANGED <<up, migrated, made, row, creds, token, active, cur, flow,
                   jobs, session, faults, acts>>

AccessExpires(k) ==
    /\ up /\ access[k] # None
    /\ access' = [access EXCEPT ![k] = None]
    /\ UNCHANGED <<up, migrated, made, row, creds, token, active, cur, flow,
                   jobs, session, faults, acts>>

\* Signing in: the code is exchanged and the refresh token stored at once,
\* before anyone knows whose account it is. Without a profile (the pool-wide
\* client) there is no identity to apply and the command ends here.
finish_oauth_for_keys(k, a) == [token EXCEPT ![k] = a]

finish_dropbox_oauth(k) ==
    IF k = Legacy THEN Idle ELSE [step |-> "signed", key |-> k, info |-> None]

finish_oauth(f, k, a) ==
    /\ up /\ Act /\ flow[f].step = "idle"
    /\ k \in Rows \cup {Client} /\ k \in creds
    /\ token' = finish_oauth_for_keys(k, a)
    /\ access' = [access EXCEPT ![k] = a]
    /\ flow' = [flow EXCEPT ![f] = finish_dropbox_oauth(k)]
    /\ UNCHANGED <<up, migrated, made, row, creds, active, cur, jobs, session,
                   faults>>

\* connect_dropbox: the same with the stored refresh token.
connect_dropbox(k) == finish_dropbox_oauth(k)

connect_session(f, k) ==
    /\ up /\ Act /\ flow[f].step = "idle"
    /\ k \in Rows \cup {Client} /\ refresh_access_token(k) # None
    /\ access' = [access EXCEPT ![k] = refresh_access_token(k)]
    /\ flow' = [flow EXCEPT ![f] = connect_dropbox(k)]
    /\ UNCHANGED <<up, migrated, made, row, creds, token, active, cur, jobs,
                   session, faults>>

\* Connecting the active cloud (also at start) refreshes and applies nothing.
connect_active_cloud ==
    /\ up /\ refresh_access_token(Client) # None
    /\ access' = [access EXCEPT ![Client] = refresh_access_token(Client)]
    /\ UNCHANGED <<up, migrated, made, row, creds, token, active, cur, flow,
                   jobs, session, acts, faults>>

account_info(f) ==
    LET k == flow[f].key IN
    /\ up /\ flow[f].step = "signed"
    /\ access' = [access EXCEPT ![k] = ensure_token(k)]
    /\ flow' = [flow EXCEPT ![f] =
                   IF ensure_token(k) = None THEN Idle
                   ELSE [@ EXCEPT !.step = "named", !.info = ensure_token(k)]]
    /\ UNCHANGED <<up, migrated, made, row, creds, token, active, cur, jobs,
                   session, faults, acts>>

\* The account could not be read: the command reports "Verbunden" and leaves
\* token and row as they are.
InfoLost(f) ==
    /\ up /\ flow[f].step = "signed" /\ Fault
    /\ flow' = [flow EXCEPT ![f] = Idle]
    /\ UNCHANGED <<up, migrated, made, row, creds, token, active, cur, access,
                   jobs, session, acts>>

\* Rows of the pool that hold account a.
find_by_dropbox_account_id(a) == {p \in Rows : row[p] = a}

\* The token moves to the profile that has the account, app keys if missing.
copy_refresh_token(from, to) ==
    [tokens |-> [token EXCEPT ![to] = IF token[from] # None THEN token[from] ELSE @,
                              ![from] = None],
     keys |-> IF from \in creds THEN creds \cup {to} ELSE creds]

ApplyNewest(f) ==
    LET k == flow[f].key
        a == flow[f].info IN
    /\ up /\ flow[f].step = "named"
    /\ flow' = [flow EXCEPT ![f] = Idle]
    /\ row' = update_identity(k, a)
    /\ Mirror(token, creds, active)
    /\ UNCHANGED <<up, migrated, made, active, cur, access, jobs, session, faults, acts>>

\* Reconcile the account the token opens with the profile it was stored for:
\* a profile of another account loses the token, a profile that already has
\* this account takes it over, else the profile is bound to the account.
apply_oauth_account_identity(f) ==
    LET k == flow[f].key
        a == flow[f].info
        others == find_by_dropbox_account_id(a) \ {k} IN
    /\ up /\ flow[f].step = "named"
    /\ flow' = [flow EXCEPT ![f] = Idle]
    /\ IF k \notin Rows
       THEN UNCHANGED <<row, token, creds>>
       ELSE IF row[k] \notin {Unbound, a}
       THEN /\ token' = [token EXCEPT ![k] = None]
            /\ UNCHANGED <<row, creds>>
       ELSE IF others # {}
       THEN \E o \in others :
              /\ Mirror(copy_refresh_token(k, o).tokens,
                        copy_refresh_token(k, o).keys, active)
              /\ UNCHANGED row
       ELSE /\ row' = update_identity(k, a)
            /\ Mirror(token, creds, active)
    /\ UNCHANGED <<up, migrated, made, active, cur, access, jobs, session, faults, acts>>

-----------------------------------------------------------------------------
(* Jobs bound to a profile. *)

\* A claim freezes the active profile, or the only one.
freeze_active_binding ==
    IF active # None THEN {active} \cap Rows
    ELSE IF Cardinality(Rows) = 1 THEN Rows ELSE {}

Claim ==
    /\ up /\ \E p \in freeze_active_binding \ jobs : jobs' = jobs \cup {p}
    /\ UNCHANGED <<up, migrated, made, row, creds, token, active, cur, access,
                   flow, session, faults, acts>>

\* Retry, append and recovery go by the binding in the history: any profile
\* that still exists and has an unfinished session.
resolve_binding_for_history(p) ==
    /\ up /\ p \in Rows \ jobs /\ session[p] # None
    /\ jobs' = jobs \cup {p}
    /\ UNCHANGED <<up, migrated, made, row, creds, token, active, cur, access,
                   flow, session, faults, acts>>

\* The worker uploads with the bound profile's client: it opens a session, or
\* goes on with the one in the checkpoint, which names the profile.
Upload(p) ==
    LET t == ensure_token(p) IN
    /\ up /\ p \in jobs /\ t # None
    /\ access' = [access EXCEPT ![p] = t]
    /\ session' = [session EXCEPT ![p] = IF @ = None THEN t ELSE @]
    /\ UNCHANGED <<up, migrated, made, row, creds, token, active, cur, flow,
                   jobs, faults, acts>>

\* Done (the checkpoint is removed), or failed or cancelled and left to be
\* retried with its checkpoint.
JobEnds(p) ==
    /\ up /\ p \in jobs
    /\ jobs' = jobs \ {p}
    /\ session' \in {session, [session EXCEPT ![p] = None]}
    /\ UNCHANGED <<up, migrated, made, row, creds, token, active, cur, access,
                   flow, faults, acts>>

-----------------------------------------------------------------------------
\* The installation before the first start: legacy keys of the old program.
Init ==
    /\ up = FALSE /\ migrated = FALSE /\ made = 0
    /\ row = [p \in Profiles |-> Absent]
    /\ creds \in {{}, {Legacy}}
    /\ token \in {[k \in Profiles \cup {Legacy} |->
                      IF k = Legacy THEN t ELSE None] : t \in Accounts \cup {None}}
    /\ active = None /\ cur = None
    /\ access = [k \in Profiles \cup {Legacy} |-> None]
    /\ flow = [f \in Flows |-> Idle]
    /\ jobs = {} /\ session = [p \in Profiles |-> None]
    /\ acts = 0 /\ faults = 0

Next ==
    \/ Boot \/ Stop \/ save_secret \/ create_dropbox_account
    \/ connect_active_cloud \/ disconnect_active_cloud \/ Claim
    \/ \E p \in Profiles : \/ set_active_dropbox_account(p)
                           \/ delete_dropbox_account(p)
                           \/ resolve_binding_for_history(p)
                           \/ Upload(p) \/ JobEnds(p)
    \/ \E k \in Profiles \cup {Legacy} : \/ disconnect_dropbox(k) \/ Refused(k)
                                         \/ connection_status_verified(k)
                                         \/ AccessExpires(k)
    \/ \E f \in Flows : \/ account_info(f) \/ InfoLost(f)
                        \/ apply_oauth_account_identity(f)
                        \/ \E k \in Profiles \cup {Legacy} :
                              \/ connect_session(f, k)
                              \/ \E a \in Accounts : finish_oauth(f, k, a)

Spec == Init /\ [][Next]_vars

-----------------------------------------------------------------------------
\* A profile bound to a Dropbox account is never bound to another one, and no
\* two profiles come to hold one account, whatever overlapping sign-ins,
\* deletions and restarts do (guards.rs "Hard warn: do not overwrite
\* identity"): jobs and histories name the profile, not the account.
IdentityIsFinal ==
    /\ \A p \in Profiles : row[p] \in Accounts => row'[p] \in {row[p], Absent}
    /\ \A p, q \in Profiles : p # q /\ row'[p] \in Accounts => row'[q] # row'[p]

\* While the application runs, the active id of the settings and that of the
\* clients agree and name an existing profile, and it is never empty while
\* profiles exist: a claim freezes one of them, uploads use the other.
ActiveAgrees ==
    up => /\ active = cur
          /\ active \in Rows \cup {None}
          /\ (active = None => Rows = {})

\* A profile stands for one Dropbox account for as long as it exists, and
\* settings and clients agree which of them is active. Of every step.
ProfilesAreSound == IdentityIsFinal /\ ActiveAgrees'
=============================================================================
