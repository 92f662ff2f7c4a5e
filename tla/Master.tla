------------------------------- MODULE Master -------------------------------
(***************************************************************************)
(* The master control plane and one store (master/app/stores/api.py,       *)
(* railway.py, exchange_rates.py, health.py, the loops of master/app/      *)
(* main.py): the store's record and credentials, what is deployed on       *)
(* Railway, the runtime settings in the store's own database and the       *)
(* exchange rates that are fetched once and copied to every active store.  *)
(*                                                                         *)
(* Requests of the dashboard run beside each other and beside the loops;   *)
(* no handler takes a lock that outlives one of its statements, except     *)
(* that of refresh_exchange_rates.                                         *)
(***************************************************************************)
EXTENDS Naturals, FiniteSets

CONSTANTS Urls,      \* store databases
          Providers, \* of language models; each has one credential, its API key
          Values,    \* of API keys
          Envs, Production, \* Railway environments
          Sources,   \* of exchange rates
          Slots,     \* requests at work at once
          Patches,   \* fallback settings that an edit may carry
          DefaultProvider,
          MaxWork,   \* bound: edits, rates published, health checks
          Loop, None

URL == "DATABASE_URL"
Keys == Providers \cup {URL}
Tasks == Slots \cup {Loop}
\* AVAILABLE_MODELS: two of each provider, the first is the default.
Models == Providers \X {1, 2}

ASSUME MasterAssumption ==
    /\ Production \in Envs /\ Loop \notin Slots /\ URL \notin Providers
    /\ None \notin Urls \cup Providers \cup Values
    /\ IsFiniteSet(Sources) /\ IsFiniteSet(Envs)
    /\ \A p \in Patches : /\ DOMAIN p \subseteq {"provider", "model", "auto"}
                          /\ "provider" \in DOMAIN p => p.provider \in Providers
                          /\ "model" \in DOMAIN p => p.model \in Models
    /\ Urls # {}
    /\ DefaultProvider \in Providers /\ MaxWork \in Nat

VARIABLES store,    \* row of stores: status, database, whether it names a Railway service
          creds,    \* store_credentials; None: no row
          railway,  \* variables of the service in each environment
          running,  \* variables its last deployment was started with
          settings, \* fallback settings and rates in each database
          rates,    \* exchange_rates of the master
          provider, \* what each source publishes
          tasks,    \* requests and the refresh loop
          ping,     \* health checks in flight
          work,     \* counter of the bound
          gone,     \* history: keys deleted by a request no deploy overlapped
          fresh,    \* history: environments whose deploy nothing overlapped
          mixed     \* history: databases written on top of an unseen edit

vars == <<store, creds, railway, running, settings, rates, provider, tasks, ping,
          work, gone, fresh, mixed>>
history == <<gone, fresh, mixed>>
cloud == <<railway, running>>
world == <<rates, provider>>

Idle == [kind |-> "idle", step |-> "idle", key |-> None, env |-> None, url |-> None,
         todo |-> {}, done |-> {}, data |-> << >>, raced |-> FALSE]
Work == work < MaxWork /\ work' = work + 1
Exists == store.status \notin {"none", "deleted"}
Unset == [k \in Keys |-> None]
Set(c) == {k \in Keys : c[k] # None}
Merged(old, new) == [k \in DOMAIN old |-> IF k \in DOMAIN new THEN new[k] ELSE old[k]]

\* A request begins in a free slot; deploys and deletions that are at work
\* at the same time are marked.
Railwayish(t) == tasks[t].kind \in {"deploy", "delete"}
Raced(T) == [t \in Tasks |-> IF Railwayish(t) THEN [T[t] EXCEPT !.raced = TRUE] ELSE T[t]]
Free == {t \in Slots : tasks[t] = Idle}
BeginRequest(new) ==
    LET t == CHOOSE t \in Free : TRUE IN
    /\ Free # {} /\ Work
    /\ IF new.kind \in {"deploy", "delete"}
         THEN tasks' = [Raced(tasks) EXCEPT ![t] = [new EXCEPT !.raced = @ \/ \E u \in Tasks : Railwayish(u)]]
         ELSE tasks' = [tasks EXCEPT ![t] = new]
Goes(t, step) == tasks' = [tasks EXCEPT ![t].step = step]
Ends(t) == tasks' = [tasks EXCEPT ![t] = Idle]

-----------------------------------------------------------------------------
(* The store and its credentials                                           *)

CreateStore ==
    /\ store.status = "none"
    /\ LET u == CHOOSE u \in Urls : TRUE IN
         /\ \E linked \in BOOLEAN : store' = [status |-> "active", url |-> u, linked |-> linked]
         /\ creds' = [creds EXCEPT ![URL] = u]
    /\ UNCHANGED <<cloud, settings, world, tasks, ping, work, history>>

Edit == Exists /\ Work

\* The database URL is in both tables, changed in one transaction, by
\* update_store or by set_credential.
ChangeUrl(u) ==
    /\ Edit
    /\ store' = [store EXCEPT !.url = u]
    /\ creds' = [creds EXCEPT ![URL] = u]
    /\ tasks' = Raced(tasks) /\ fresh' = {}
    /\ UNCHANGED <<cloud, settings, world, ping, gone, mixed>>

\* update_store: pause, resume, link the Railway service or unlink it.
UpdateStore(status, linked) ==
    /\ Edit
    /\ store' = [store EXCEPT !.status = status, !.linked = linked] /\ store' # store
    /\ UNCHANGED <<creds, cloud, settings, world, tasks, ping, history>>

\* delete_store: the credentials go with the row.
DeleteStore ==
    /\ Edit
    /\ store' = [store EXCEPT !.status = "deleted"]
    /\ creds' = Unset /\ fresh' = {}
    /\ tasks' = Raced(tasks)
    /\ UNCHANGED <<cloud, settings, world, ping, gone, mixed>>

SetCredential(k, v) ==
    /\ Edit
    /\ creds' = [creds EXCEPT ![k] = v]
    /\ tasks' = Raced(tasks) /\ fresh' = {} /\ gone' = gone \ {k}
    /\ UNCHANGED <<store, cloud, settings, world, ping, mixed>>

-----------------------------------------------------------------------------
(* delete_credential: first every Railway environment, then the row        *)

\* Mutant: only the environment that deploys go to by default.
EnvsProduction == {Production}
EnvsOf == IF store.linked THEN Envs ELSE {}

BeginDelete(k) ==
    /\ Exists /\ creds[k] # None
    /\ BeginRequest([Idle EXCEPT !.kind = "delete", !.key = k, !.todo = EnvsOf,
                                 !.step = IF store.linked THEN "railway" ELSE "local",
                                 !.raced = ~store.linked])
    /\ UNCHANGED <<store, creds, cloud, settings, world, ping, history>>

DeleteVariable(t) ==
    /\ tasks[t].step = "railway"
    /\ \E e \in tasks[t].todo :
         /\ railway' = [railway EXCEPT ![e][tasks[t].key] = None]
         /\ tasks' = [tasks EXCEPT ![t].todo = @ \ {e},
                                   ![t].step = IF tasks[t].todo = {e} THEN "local" ELSE @]
    /\ UNCHANGED <<store, creds, running, settings, world, ping, work, history>>

\* Mutant: the row goes even if Railway failed.
DeleteFailsAnyway(t) ==
    /\ tasks[t].step = "railway" /\ Work
    /\ \/ UNCHANGED railway
       \/ \E e \in tasks[t].todo : railway' = [railway EXCEPT ![e][tasks[t].key] = None]
    /\ Goes(t, "local")
    /\ UNCHANGED <<store, creds, running, settings, world, ping, history>>

\* The row is kept; the variable may be gone from some environments, the
\* one whose answer was lost included.
DeleteFails(t) ==
    /\ tasks[t].step = "railway" /\ Work
    /\ \/ UNCHANGED railway
       \/ \E e \in tasks[t].todo : railway' = [railway EXCEPT ![e][tasks[t].key] = None]
    /\ Ends(t)
    /\ UNCHANGED <<store, creds, running, settings, world, ping, history>>

DeleteLocal(t) ==
    LET k == tasks[t].key IN
    /\ tasks[t].step = "local"
    /\ creds' = [creds EXCEPT ![k] = None]
    /\ tasks' = [Raced(tasks) EXCEPT ![t] = Idle] /\ fresh' = {}
    /\ gone' = IF ~tasks[t].raced THEN gone \cup {k} ELSE gone
    /\ UNCHANGED <<store, cloud, settings, world, ping, work, mixed>>

-----------------------------------------------------------------------------
(* deploy_credentials                                                      *)

\* The row is read; production, or the environment that the request names.
BeginDeploy(e) ==
    /\ Exists /\ store.linked
    /\ BeginRequest([Idle EXCEPT !.kind = "deploy", !.step = "read", !.env = e, !.url = store.url])
    /\ UNCHANGED <<store, creds, cloud, settings, world, ping, history>>

\* Mutant: DATABASE_URL is deployed as the credentials have it.
DeployedAsStored(t) == [k \in Set(creds) |-> creds[k]]
Deployed(t) == [k \in Set(creds) \cup {URL} |-> IF k = URL THEN tasks[t].url ELSE creds[k]]

\* After the environments were asked for: the credentials of now, with the
\* database URL of the row read before, which is written back to them.  A
\* store that was deleted refuses it.
Collect(t) ==
    /\ tasks[t].step = "read"
    /\ IF Exists
         THEN /\ creds' = [creds EXCEPT ![URL] = tasks[t].url]
              /\ tasks' = [tasks EXCEPT ![t].step = "push", ![t].data = Deployed(t)]
         ELSE Ends(t) /\ UNCHANGED creds
    /\ UNCHANGED <<store, cloud, settings, world, ping, work, history>>

\* upsert_variables merges: a variable that is not named stays.
Push(t) ==
    /\ tasks[t].step = "push"
    /\ railway' = [railway EXCEPT ![tasks[t].env] = Merged(@, tasks[t].data)]
    /\ Goes(t, "redeploy")
    /\ UNCHANGED <<store, creds, running, settings, world, ping, work, history>>

Redeploy(t) ==
    LET e == tasks[t].env IN
    /\ tasks[t].step = "redeploy"
    /\ running' = [running EXCEPT ![e] = railway[e]]
    /\ fresh' = IF tasks[t].raced THEN fresh \ {e} ELSE fresh \cup {e}
    /\ Ends(t)
    /\ UNCHANGED <<store, creds, railway, settings, world, ping, work, gone, mixed>>

\* A Railway call fails, or its answer is lost; there may be no deployment to
\* start again.
DeployFails(t) ==
    /\ tasks[t].step \in {"read", "push", "redeploy"} /\ Work
    /\ \/ UNCHANGED <<cloud, fresh>>
       \/ /\ tasks[t].step = "push"
          /\ railway' = [railway EXCEPT ![tasks[t].env] = Merged(@, tasks[t].data)]
          /\ UNCHANGED <<running, fresh>>
       \/ /\ tasks[t].step = "redeploy"
          /\ running' = [running EXCEPT ![tasks[t].env] = railway[tasks[t].env]]
          /\ fresh' = fresh \ {tasks[t].env}
          /\ UNCHANGED railway
    /\ Ends(t)
    /\ UNCHANGED <<store, creds, settings, world, ping, gone, mixed>>

-----------------------------------------------------------------------------
(* Runtime settings: read, normalise and check, write                      *)

\* Mutant: a new provider leaves the model alone.
NormalizeNoDefault(patch) == patch

\* _normalize_runtime_fields: a provider without a model gets its first one.
Normalize(patch) ==
    IF "provider" \in DOMAIN patch /\ "model" \notin DOMAIN patch
      THEN [k \in DOMAIN patch \cup {"model"} |->
              IF k = "model" THEN <<patch.provider, 1>> ELSE patch[k]]
      ELSE patch
ValidPatch(patch, now) == "model" \in DOMAIN patch => patch.model[1] = Merged(now, patch).provider

\* update_store_settings up to the read of the store's database.
BeginSettings(patch) ==
    LET now == settings[store.url] IN
    /\ Exists
    /\ ValidPatch(Normalize(patch), now)
    /\ BeginRequest([Idle EXCEPT !.kind = "settings", !.step = "check", !.url = store.url,
                        !.data = [new |-> Normalize(patch), seen |-> now]])
    /\ UNCHANGED <<store, creds, cloud, settings, world, ping, history>>

\* _enforce_fallback_provider_availability: the key is in the credentials.
CheckFallback(t) ==
    LET after == Merged(tasks[t].data.seen, tasks[t].data.new) IN
    /\ tasks[t].step = "check"
    /\ IF after.auto /\ creds[after.provider] = None THEN Ends(t) ELSE Goes(t, "save")
    /\ UNCHANGED <<store, creds, cloud, settings, world, ping, work, history>>

Fallback(s) == <<s.provider, s.model>>
SaveSettings(t) ==
    LET u == tasks[t].url IN
    /\ tasks[t].step = "save"
    /\ settings' = [settings EXCEPT ![u] = Merged(@, tasks[t].data.new)]
    /\ mixed' = IF Fallback(settings[u]) # Fallback(tasks[t].data.seen) THEN mixed \cup {u} ELSE mixed
    /\ Ends(t)
    /\ UNCHANGED <<store, creds, cloud, world, ping, work, gone, fresh>>

SettingsFail(t) ==
    /\ tasks[t].step \in {"check", "save"} /\ Work /\ Ends(t)
    /\ UNCHANGED <<store, creds, cloud, settings, world, ping, history>>

\* A model is checked against the provider, which does not bring its model
\* along; the provider needs a key that the running store was started with.
StoreValid(u, patch) == ValidPatch(patch, settings[u])
StoreAvailable(u, after) ==
    \E e \in Envs : /\ running[e][URL] = u
                    /\ after.auto => running[e][after.provider] # None

\* _apply_settings_batch of the dashboard of a store that manages its own
\* language models.
StoreEdits(u, patch) ==
    LET after == Merged(settings[u], patch) IN
    /\ Work
    /\ StoreValid(u, patch) /\ StoreAvailable(u, after)
    /\ settings' = [settings EXCEPT ![u] = after]
    /\ mixed' = IF after.model[1] # after.provider THEN mixed \cup {u} ELSE mixed
    /\ UNCHANGED <<store, creds, cloud, world, tasks, ping, gone, fresh>>

-----------------------------------------------------------------------------
(* Exchange rates                                                          *)

Refreshing == \E t \in Tasks : tasks[t].step = "fetch"

\* refresh_exchange_rates: who meets the lock has nothing to copy and is done.
\* The loop asks the sources that are due.
BeginLoop(due) ==
    /\ tasks[Loop] = Idle /\ ~Refreshing
    /\ tasks' = [tasks EXCEPT ![Loop] = [Idle EXCEPT !.kind = "refresh", !.step = "fetch", !.todo = due]]
    /\ UNCHANGED <<store, creds, cloud, settings, world, ping, work, history>>

\* The endpoint of one store asks them all.
BeginRefresh ==
    /\ Exists /\ ~Refreshing
    /\ BeginRequest([Idle EXCEPT !.kind = "refresh", !.step = "fetch", !.todo = Sources])
    /\ UNCHANGED <<store, creds, cloud, settings, world, ping, history>>

NextStep(t, s, done) ==
    IF tasks[t].todo # {s} THEN "fetch" ELSE IF done = {} THEN "idle" ELSE "rows"
Fetched(t, s, done) ==
    tasks' = IF NextStep(t, s, done) = "idle" THEN [tasks EXCEPT ![t] = Idle]
             ELSE [tasks EXCEPT ![t].todo = @ \ {s}, ![t].done = done,
                                ![t].step = NextStep(t, s, done)]

\* upsert_exchange_rate
Upsert(s) == [rates EXCEPT ![s] = provider[s]]

\* Mutant: a rate that has not changed is not copied.
FetchChanged(t, s) ==
    /\ tasks[t].step = "fetch" /\ s \in tasks[t].todo
    /\ rates' = Upsert(s)
    /\ Fetched(t, s, IF rates[s] = provider[s] THEN tasks[t].done ELSE tasks[t].done \cup {s})
    /\ UNCHANGED <<store, creds, cloud, settings, provider, ping, work, history>>

\* A source is fetched, validated and upserted.
Fetch(t, s) ==
    /\ tasks[t].step = "fetch" /\ s \in tasks[t].todo
    /\ rates' = Upsert(s)
    /\ Fetched(t, s, tasks[t].done \cup {s})
    /\ UNCHANGED <<store, creds, cloud, settings, provider, ping, work, history>>

\* Or it fails, possibly after its rows were written.
FetchFails(t, s) ==
    /\ tasks[t].step = "fetch" /\ s \in tasks[t].todo /\ Work
    /\ rates' \in {rates, Upsert(s)}
    /\ Fetched(t, s, tasks[t].done)
    /\ UNCHANGED <<store, creds, cloud, settings, provider, ping, history>>

\* build_store_rate_settings
RateSettings(t) == [s \in tasks[t].done |-> rates[s]]

\* get_current_exchange_rates, of the sources that were fetched; then the loop
\* copies them to the store if it is active, the endpoint anyway.
Select(t) ==
    /\ tasks[t].step = "rows"
    /\ IF (t = Loop /\ store.status = "active") \/ (t # Loop /\ Exists)
         THEN tasks' = [tasks EXCEPT ![t].step = "copy", ![t].url = store.url, ![t].todo = {},
                        ![t].done = {}, ![t].data = RateSettings(t)]
         ELSE Ends(t)
    /\ UNCHANGED <<store, creds, cloud, settings, world, ping, work, history>>

CopyRates(t) ==
    /\ tasks[t].step = "copy"
    /\ settings' = [settings EXCEPT ![tasks[t].url].rates = Merged(@, tasks[t].data)]
    /\ Ends(t)
    /\ UNCHANGED <<store, creds, cloud, world, ping, work, history>>

CopyFails(t) ==
    /\ tasks[t].step = "copy" /\ Work /\ Ends(t)
    /\ UNCHANGED <<store, creds, cloud, settings, world, ping, history>>

-----------------------------------------------------------------------------
(* Health checks, restarts and the world                                   *)

\* check_all_stores: paused stores are not selected ...
BeginPing ==
    /\ ping = "idle" /\ store.status \in {"active", "error"}
    /\ ping' = "sent" /\ Work
    /\ UNCHANGED <<store, creds, cloud, settings, world, tasks, history>>

\* _validate_health_response
Health == {"active", "error"}

\* ... but the result is written whatever the status is by then.
EndPing ==
    /\ ping = "sent" /\ ping' = "idle"
    /\ \E status \in Health :
         store' = IF Exists THEN [store EXCEPT !.status = status] ELSE store
    /\ UNCHANGED <<creds, cloud, settings, world, tasks, work, history>>

\* The master restarts.
Restart ==
    /\ Work
    /\ tasks' = [t \in Tasks |-> Idle] /\ ping' = "idle"
    /\ UNCHANGED <<store, creds, cloud, settings, world, history>>

Publish(s) ==
    /\ Work
    /\ provider' = [provider EXCEPT ![s] = @ + 1]
    /\ UNCHANGED <<store, creds, cloud, settings, rates, tasks, ping, history>>

Defaults == [provider |-> DefaultProvider, model |-> <<DefaultProvider, 1>>, auto |-> TRUE, rates |-> [s \in Sources |-> 0]]

\* No store yet, or one that is set up with a key and deployed.
Deployment(u, v) == [k \in Keys |-> CASE k = URL -> u [] k = DefaultProvider -> v [] OTHER -> None]
Init ==
    /\ \/ /\ store = [status |-> "none", url |-> None, linked |-> FALSE]
          /\ creds = Unset /\ railway = [e \in Envs |-> Unset]
       \/ LET u == CHOOSE u \in Urls : TRUE IN
          /\ store = [status |-> "active", url |-> u, linked |-> TRUE]
          /\ \E v \in Values : creds = Deployment(u, v)
          /\ railway = [e \in Envs |-> IF e = Production THEN creds ELSE Unset]
    /\ running = railway
    /\ settings = [u \in Urls |-> Defaults]
    /\ rates = [s \in Sources |-> 0] /\ provider = rates
    /\ tasks = [t \in Tasks |-> Idle] /\ ping = "idle"
    /\ work = 0
    /\ gone = {} /\ fresh = {} /\ mixed = {}

RateStep(t) ==
    \/ \E s \in Sources : Fetch(t, s)
    \/ Select(t) \/ CopyRates(t)

Next ==
    \/ CreateStore \/ DeleteStore
    \/ \E u \in Urls : ChangeUrl(u)
    \/ \E status \in {store.status, "active", "paused"}, linked \in BOOLEAN : UpdateStore(status, linked)
    \/ \E k \in Providers, v \in Values : SetCredential(k, v)
    \/ \E k \in Providers : BeginDelete(k)
    \/ \E e \in Envs : BeginDeploy(e)
    \/ \E p \in Patches : BeginSettings(p)
    \/ \E t \in Slots : \/ DeleteVariable(t) \/ DeleteFails(t) \/ DeleteLocal(t)
                        \/ Collect(t) \/ Push(t) \/ Redeploy(t) \/ DeployFails(t)
                        \/ CheckFallback(t) \/ SaveSettings(t) \/ SettingsFail(t)
    \/ \E u \in Urls, p \in Patches : StoreEdits(u, p)
    \/ BeginRefresh \/ \E due \in (SUBSET Sources) \ {{}} : BeginLoop(due)
    \/ \E t \in Tasks : \/ RateStep(t) \/ CopyFails(t)
                        \/ \E s \in Sources : FetchFails(t, s)
    \/ BeginPing \/ EndPing \/ Restart
    \/ \E s \in Sources : Publish(s)

\* The loop comes round for ever, and each source is due again and again;
\* refreshes at work go on.
Fairness ==
    /\ WF_vars(\E t \in Tasks : RateStep(t))
    /\ \A s \in Sources : SF_vars(\E due \in SUBSET Sources : s \in due /\ BeginLoop(due))

Spec == Init /\ [][Next]_vars
FairSpec == Spec /\ Fairness

-----------------------------------------------------------------------------
(* Properties                                                              *)

TypeOK ==
    /\ store.status \in {"none", "active", "paused", "error", "deleted"}
    /\ store.url \in Urls \cup {None} /\ store.linked \in BOOLEAN
    /\ DOMAIN creds = Keys /\ DOMAIN railway = Envs /\ DOMAIN running = Envs
    /\ DOMAIN settings = Urls /\ \A u \in Urls : settings[u].model \in Models
    /\ rates \in [Sources -> Nat] /\ provider \in [Sources -> Nat]
    /\ ping \in {"idle", "sent"} /\ work \in 0..MaxWork
    /\ \A t, u \in Tasks : \* _refresh_lock
         tasks[t].step = "fetch" /\ tasks[u].step = "fetch" => t = u

\* delete_credential: a key that was deleted is in no environment of Railway,
\* after failures in between, retries and later deploys, unless a deploy ran
\* at the same time.
DeletedIsUndeployed == \A k \in gone, e \in Envs : railway[e][k] = None

\* deploy_credentials: after a deploy that nothing overlapped the store runs
\* with its own database and with every credential it has, whatever an
\* earlier deploy with a stale row has written to the credentials.
DeployedIsCurrent ==
    \A e \in fresh : /\ running[e][URL] = store.url
                     /\ \A k \in Set(creds) : running[e][k] = creds[k]

\* The fallback model of a database is one of its fallback provider, unless
\* an edit was laid over another it had not seen, or the store's dashboard
\* changed the provider alone.
ModelOfProvider == TypeOK /\ \A u \in Urls \ mixed : settings[u].model[1] = settings[u].provider

\* sync_exchange_rates_to_active_stores: a store that stays active in one
\* database has the published rates in the end, after failed fetches and copies
\* and whatever older rows another refresh was still copying.
RatesArrive ==
    \A u \in Urls :
      <>[](store.status = "active" /\ store.url = u) => <>[](settings[u].rates = provider)
=============================================================================
