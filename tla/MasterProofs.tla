---------------------------- MODULE MasterProofs ----------------------------
(***************************************************************************)
(* Theorems about Master for any databases, providers, keys, environments, *)
(* slots and bounds: what a deletion takes out of Railway stays out, a     *)
(* deploy that nothing overlapped is the store's own database and keys,    *)
(* and a fallback model stays one of its provider's.                       *)
(***************************************************************************)
EXTENDS Master, TLAPS

Fields == DOMAIN Idle

\* Which requests are deploys and deletions, by their step.
Shape ==
    /\ DOMAIN tasks = Tasks
    /\ \A t \in Tasks : /\ DOMAIN tasks[t] = Fields /\ tasks[t].raced \in BOOLEAN
                        /\ tasks[t].step \in {"railway", "local"} <=> tasks[t].kind = "delete"
                        /\ tasks[t].step \in {"read", "push", "redeploy"} <=> tasks[t].kind = "deploy"
                        /\ tasks[t].kind = "delete" => tasks[t].key \in Providers
                        /\ tasks[t].kind = "deploy" => tasks[t].env \in Envs
    /\ DOMAIN creds = Keys /\ DOMAIN railway = Envs /\ DOMAIN running = Envs
    /\ \A e \in Envs : DOMAIN railway[e] = Keys
    /\ gone \subseteq Providers /\ fresh \subseteq Envs

\* One of two requests at work on Railway knows of the other.
Alone == \A t, u \in Tasks : t # u /\ Railwayish(t) /\ Railwayish(u) => tasks[t].raced

\* No key that is gone has a row, or is among what a deploy has collected.
Removed == /\ \A k \in gone : creds[k] = None
           /\ \A k \in gone, t \in Tasks : tasks[t].step = "push" => k \notin DOMAIN tasks[t].data

\* How far a deletion has come that nothing overlapped.
Cleared ==
    \A t \in Tasks, e \in Envs :
        tasks[t].kind = "delete" /\ ~tasks[t].raced /\ (tasks[t].step = "railway" => e \notin tasks[t].todo)
        => railway[e][tasks[t].key] = None

\* Nothing is deployed before there is a store.
Unborn == store.status = "none" => fresh = {} /\ \A t \in Tasks : ~Railwayish(t)

\* A deploy that has read another database than the store's was overlapped,
\* and nothing has been deployed on its own since.
Stale == \A t \in Tasks : tasks[t].kind = "deploy" /\ tasks[t].url # store.url
                          => fresh = {} /\ tasks[t].raced

\* The store's database and every credential there is.
Holds(f) == f[URL] = store.url /\ \A k \in Set(creds) : f[k] = creds[k]

\* What a deploy that nothing overlapped has in hand, then on Railway.
Prepared ==
    \A t \in Tasks :
        tasks[t].kind = "deploy" /\ ~tasks[t].raced =>
          /\ tasks[t].step = "push" => /\ Set(creds) \cup {URL} \subseteq DOMAIN tasks[t].data
                                       /\ Holds(tasks[t].data)
          /\ tasks[t].step = "redeploy" => Holds(railway[tasks[t].env])

CurrentInv == Unborn /\ Stale /\ Prepared /\ DeployedIsCurrent
DeletedInv == Removed /\ Cleared /\ DeletedIsUndeployed
IInv == Shape /\ Alone /\ DeletedInv /\ CurrentInv

-----------------------------------------------------------------------------
(* What a step does to the requests                                        *)

DeploySteps == {"read", "push", "redeploy"}
DeleteSteps == {"railway", "local"}

\* A request that does not go on with Railway: it is as it was but may have
\* been overlapped, or it is now something else.
Kept(t) == /\ tasks'[t].kind = tasks[t].kind /\ tasks'[t].step = tasks[t].step
           /\ tasks'[t].key = tasks[t].key /\ tasks'[t].env = tasks[t].env
           /\ tasks'[t].url = tasks[t].url /\ tasks'[t].todo = tasks[t].todo
           /\ tasks'[t].data = tasks[t].data
           /\ tasks[t].raced => tasks'[t].raced
Elsewhere(t) == /\ tasks'[t].kind \notin {"deploy", "delete"}
                /\ tasks'[t].step \notin DeploySteps \cup DeleteSteps
WellFormed(t) == DOMAIN tasks'[t] = Fields /\ tasks'[t].raced \in BOOLEAN
Quiet == /\ DOMAIN tasks' = Tasks
         /\ \A t \in Tasks : WellFormed(t) /\ (Kept(t) \/ Elsewhere(t))
AllRaced == \A t \in Tasks : Railwayish(t)' => tasks'[t].raced

LEMMA IdleFields ==
    /\ Fields = {"kind", "step", "key", "env", "url", "todo", "done", "data", "raced"}
    /\ Idle.kind = "idle" /\ Idle.step = "idle" /\ Idle.raced = FALSE
BY DEF Fields, Idle

LEMMA QuietSame ==
    ASSUME Shape, UNCHANGED tasks
    PROVE  Quiet
BY DEF Shape, Quiet, Kept, WellFormed

LEMMA QuietEnds ==
    ASSUME Shape, NEW t \in Tasks, Ends(t)
    PROVE  Quiet
<1>1. DOMAIN tasks' = Tasks /\ tasks'[t] = Idle /\ \A u \in Tasks \ {t} : tasks'[u] = tasks[u]
  BY DEF Ends, Shape
<1>2. Elsewhere(t) /\ WellFormed(t)
  BY <1>1, IdleFields DEF Elsewhere, WellFormed, Fields, DeploySteps, DeleteSteps
<1>3. \A u \in Tasks \ {t} : Kept(u) /\ WellFormed(u)
  BY <1>1 DEF Kept, WellFormed, Shape
<1> QED
  BY <1>1, <1>2, <1>3 DEF Quiet

LEMMA RacedTasks ==
    ASSUME Shape
    PROVE  LET T == Raced(tasks) IN
           /\ DOMAIN T = Tasks
           /\ \A t \in Tasks :
                /\ DOMAIN T[t] = Fields /\ T[t].raced = (tasks[t].raced \/ Railwayish(t))
                /\ T[t].kind = tasks[t].kind /\ T[t].step = tasks[t].step
                /\ T[t].key = tasks[t].key /\ T[t].env = tasks[t].env
                /\ T[t].url = tasks[t].url /\ T[t].todo = tasks[t].todo
                /\ T[t].data = tasks[t].data
BY IdleFields DEF Shape, Raced, Railwayish

LEMMA QuietRaced ==
    ASSUME Shape, tasks' = Raced(tasks)
    PROVE  Quiet /\ AllRaced
BY RacedTasks DEF Quiet, Kept, WellFormed, AllRaced, Railwayish, Shape

\* One request goes on, or begins, away from Railway.
LEMMA QuietOther ==
    ASSUME Shape, NEW t \in Tasks, NEW new, tasks' = [tasks EXCEPT ![t] = new],
           DOMAIN new = Fields, new.raced \in BOOLEAN, new.kind \notin {"deploy", "delete"},
           new.step \notin DeploySteps \cup DeleteSteps
    PROVE  Quiet
<1>1. DOMAIN tasks' = Tasks /\ tasks'[t] = new /\ \A u \in Tasks \ {t} : tasks'[u] = tasks[u]
  BY DEF Shape
<1>2. Elsewhere(t) /\ WellFormed(t)
  BY <1>1 DEF Elsewhere, WellFormed
<1>3. \A u \in Tasks \ {t} : Kept(u) /\ WellFormed(u)
  BY <1>1 DEF Kept, WellFormed, Shape
<1> QED
  BY <1>1, <1>2, <1>3 DEF Quiet

\* Such a step keeps the shape of requests, and each of two at work knows.
LEMMA QuietShape ==
    ASSUME Shape, Alone, Quiet,
           DOMAIN creds' = Keys, DOMAIN railway' = Envs, DOMAIN running' = Envs,
           \A e \in Envs : DOMAIN railway'[e] = Keys,
           gone' \subseteq Providers, fresh' \subseteq Envs
    PROVE  Shape' /\ Alone'
<1>1. \A t \in Tasks :
        /\ DOMAIN tasks'[t] = Fields /\ tasks'[t].raced \in BOOLEAN
        /\ tasks'[t].step \in {"railway", "local"} <=> tasks'[t].kind = "delete"
        /\ tasks'[t].step \in {"read", "push", "redeploy"} <=> tasks'[t].kind = "deploy"
        /\ tasks'[t].kind = "delete" => tasks'[t].key \in Providers
        /\ tasks'[t].kind = "deploy" => tasks'[t].env \in Envs
  <2> TAKE t \in Tasks
  <2>1. CASE Kept(t)
    BY <2>1 DEF Quiet, Shape, Kept, WellFormed
  <2>2. CASE Elsewhere(t)
    BY <2>2 DEF Quiet, WellFormed, Elsewhere, DeploySteps, DeleteSteps
  <2> QED
    BY <2>1, <2>2 DEF Quiet
<1>2. Shape'
  BY <1>1 DEF Quiet, Shape, Fields, Idle
<1>3. Alone'
  <2> SUFFICES ASSUME NEW t \in Tasks, NEW u \in Tasks, t # u, Railwayish(t)', Railwayish(u)'
               PROVE  tasks'[t].raced
    BY DEF Alone
  <2>1. Kept(t) /\ Kept(u)
    BY DEF Quiet, Elsewhere, Railwayish
  <2> QED
    BY <2>1 DEF Alone, Kept, Railwayish
<1> QED
  BY <1>2, <1>3

\* It keeps what was deleted out of Railway, if no row or variable comes back.
LEMMA QuietDeleted ==
    ASSUME Shape, DeletedInv, Quiet,
           gone' \subseteq gone, \A k \in gone' : creds'[k] = None,
           \A e \in Envs, k \in Keys : railway'[e][k] \in {railway[e][k], None}
    PROVE  DeletedInv'
<1>1. Removed'
  <2> SUFFICES ASSUME NEW k \in gone', NEW t \in Tasks, tasks'[t].step = "push"
               PROVE  k \notin DOMAIN tasks'[t].data
    BY DEF Removed
  <2>1. Kept(t)
    BY DEF Quiet, Elsewhere, DeploySteps
  <2> QED
    BY <2>1 DEF DeletedInv, Removed, Kept
<1>2. Cleared'
  <2> SUFFICES ASSUME NEW t \in Tasks, NEW e \in Envs, tasks'[t].kind = "delete", ~tasks'[t].raced,
                      tasks'[t].step = "railway" => e \notin tasks'[t].todo
               PROVE  railway'[e][tasks'[t].key] = None
    BY DEF Cleared
  <2>1. Kept(t)
    BY DEF Quiet, Elsewhere
  <2>2. railway[e][tasks[t].key] = None /\ tasks[t].key \in Keys
    BY <2>1 DEF DeletedInv, Cleared, Kept, Shape, Keys
  <2> QED
    BY <2>1, <2>2 DEF Kept
<1>3. DeletedIsUndeployed'
  <2> SUFFICES ASSUME NEW k \in gone', NEW e \in Envs
               PROVE  railway'[e][k] = None
    BY DEF DeletedIsUndeployed
  <2>1. k \in Keys /\ railway[e][k] = None
    BY DEF Shape, Keys, DeletedInv, DeletedIsUndeployed
  <2> QED
    BY <2>1
<1> QED
  BY <1>1, <1>2, <1>3 DEF DeletedInv

\* It keeps deploys current, if neither the store's database and
\* credentials nor Railway change.
LEMMA QuietCurrent ==
    ASSUME Shape, CurrentInv, Quiet,
           store'.url = store.url, store'.status = "none" => store.status = "none",
           UNCHANGED <<creds, railway, running>>, fresh' \subseteq fresh
    PROVE  CurrentInv'
<1>1. Unborn'
  BY DEF CurrentInv, Unborn, Quiet, Kept, Elsewhere, Railwayish
<1>2. Stale'
  <2> SUFFICES ASSUME NEW t \in Tasks, tasks'[t].kind = "deploy", tasks'[t].url # store.url
               PROVE  fresh' = {} /\ tasks'[t].raced
    BY DEF Stale
  <2>1. Kept(t)
    BY DEF Quiet, Elsewhere
  <2> QED
    BY <2>1 DEF CurrentInv, Stale, Kept
<1>3. Set(creds)' = Set(creds)
  BY DEF Set
<1>4. Prepared'
  <2> SUFFICES ASSUME NEW t \in Tasks, tasks'[t].kind = "deploy", ~tasks'[t].raced
               PROVE  /\ tasks'[t].step = "push" => /\ Set(creds) \cup {URL} \subseteq DOMAIN tasks'[t].data
                                                    /\ Holds(tasks[t].data)'
                      /\ tasks'[t].step = "redeploy" => Holds(railway[tasks[t].env])'
    BY <1>3 DEF Prepared
  <2>1. Kept(t)
    BY DEF Quiet, Elsewhere
  <2>2. /\ tasks[t].step = "push" => /\ Set(creds) \cup {URL} \subseteq DOMAIN tasks[t].data
                                     /\ Holds(tasks[t].data)
        /\ tasks[t].step = "redeploy" => Holds(railway[tasks[t].env])
    BY <2>1 DEF CurrentInv, Prepared, Kept
  <2> QED
    BY <2>1, <2>2 DEF Kept, Holds, Set
<1>5. DeployedIsCurrent'
  BY <1>3 DEF CurrentInv, DeployedIsCurrent
<1> QED
  BY <1>1, <1>2, <1>4, <1>5 DEF CurrentInv

\* So does whatever overlaps every request and forgets what was deployed on
\* its own.
LEMMA RacedCurrent ==
    ASSUME AllRaced, fresh' = {}, store'.status # "none"
    PROVE  CurrentInv'
<1>1. Unborn' /\ DeployedIsCurrent'
  BY DEF Unborn, DeployedIsCurrent
<1>2. Stale' /\ Prepared'
  BY DEF Stale, Prepared, AllRaced, Railwayish
<1> QED
  BY <1>1, <1>2 DEF CurrentInv

-----------------------------------------------------------------------------
(* The store and its credentials                                           *)

\* A step away from Railway that leaves the store, its credentials and what
\* is deployed alone.
LEMMA AwayStep ==
    ASSUME IInv, Quiet, UNCHANGED <<creds, cloud, gone, fresh>>,
           store'.url = store.url, store'.status = "none" => store.status = "none"
    PROVE  IInv'
<1>1. UNCHANGED <<creds, railway, running>>
  BY DEF cloud
<1>2. Shape' /\ Alone'
  BY <1>1, QuietShape DEF IInv, Shape
<1>3. DeletedInv'
  BY <1>1, QuietDeleted DEF IInv, DeletedInv, Removed
<1>4. CurrentInv'
  BY <1>1, QuietCurrent DEF IInv
<1> QED
  BY <1>2, <1>3, <1>4 DEF IInv

LEMMA KeysDistinct == URL \notin Providers /\ \A k \in gone : Shape => k # URL /\ k \in Keys
BY MasterAssumption DEF Shape, Keys

LEMMA CreateStoreStep ==
    ASSUME IInv, CreateStore
    PROVE  IInv'
<1>1. /\ UNCHANGED <<railway, running, tasks, gone, fresh>> /\ store.status = "none"
      /\ DOMAIN creds' = Keys /\ \A k \in Keys \ {URL} : creds'[k] = creds[k]
      /\ store'.status = "active"
  BY DEF CreateStore, cloud, history, IInv, Shape
<1>2. Quiet
  BY <1>1, QuietSame DEF IInv
<1>3. Shape' /\ Alone'
  BY <1>1, <1>2, QuietShape DEF IInv, Shape
<1>4. DeletedInv'
  BY <1>1, <1>2, QuietDeleted, KeysDistinct DEF IInv, DeletedInv, Removed
<1>5. fresh = {} /\ \A t \in Tasks : ~Railwayish(t)
  BY <1>1 DEF IInv, CurrentInv, Unborn
<1>6. AllRaced
  BY <1>1, <1>5 DEF AllRaced, Railwayish
<1>7. CurrentInv'
  BY <1>1, <1>5, <1>6, RacedCurrent
<1> QED
  BY <1>3, <1>4, <1>7 DEF IInv

LEMMA ChangeUrlStep ==
    ASSUME IInv, NEW u, ChangeUrl(u)
    PROVE  IInv'
<1>1. /\ UNCHANGED <<railway, running, gone>> /\ fresh' = {} /\ tasks' = Raced(tasks)
      /\ DOMAIN creds' = Keys /\ \A k \in Keys \ {URL} : creds'[k] = creds[k]
      /\ store' = [store EXCEPT !.url = u] /\ store.status # "none"
  BY DEF ChangeUrl, Edit, Exists, cloud, IInv, Shape
<1>2. Quiet /\ AllRaced
  BY <1>1, QuietRaced DEF IInv
<1>3. Shape' /\ Alone'
  BY <1>1, <1>2, QuietShape DEF IInv, Shape
<1>4. DeletedInv'
  BY <1>1, <1>2, QuietDeleted, KeysDistinct DEF IInv, DeletedInv, Removed
<1>5. store'.status # "none"
  BY <1>1
<1>6. CurrentInv'
  BY <1>1, <1>2, <1>5, RacedCurrent
<1> QED
  BY <1>3, <1>4, <1>6 DEF IInv

LEMMA UpdateStoreStep ==
    ASSUME IInv, NEW status \in {store.status, "active", "paused"}, NEW linked, UpdateStore(status, linked)
    PROVE  IInv'
<1>1. /\ UNCHANGED <<creds, cloud, tasks, gone, fresh>> /\ store.status # "none"
      /\ store' = [store EXCEPT !.status = status, !.linked = linked]
  BY DEF UpdateStore, Edit, Exists, history
<1>2. store'.url = store.url /\ store'.status # "none"
  BY <1>1
<1>3. Quiet
  BY <1>1, QuietSame DEF IInv
<1> QED
  BY <1>1, <1>2, <1>3, AwayStep

LEMMA DeleteStoreStep ==
    ASSUME IInv, DeleteStore
    PROVE  IInv'
<1>1. /\ UNCHANGED <<railway, running, gone>> /\ fresh' = {} /\ tasks' = Raced(tasks)
      /\ DOMAIN creds' = Keys /\ \A k \in Keys : creds'[k] = None
      /\ store' = [store EXCEPT !.status = "deleted"] /\ store.status # "none"
  BY DEF DeleteStore, Edit, Exists, cloud, Unset
<1>2. Quiet /\ AllRaced
  BY <1>1, QuietRaced DEF IInv
<1>3. Shape' /\ Alone'
  BY <1>1, <1>2, QuietShape DEF IInv, Shape
<1>4. DeletedInv'
  BY <1>1, <1>2, QuietDeleted, KeysDistinct DEF IInv
<1>5. store'.status # "none"
  BY <1>1
<1>6. CurrentInv'
  BY <1>1, <1>2, <1>5, RacedCurrent
<1> QED
  BY <1>3, <1>4, <1>6 DEF IInv

LEMMA SetCredentialStep ==
    ASSUME IInv, NEW key \in Providers, NEW v, SetCredential(key, v)
    PROVE  IInv'
<1>1. /\ UNCHANGED <<store, railway, running>> /\ fresh' = {} /\ tasks' = Raced(tasks)
      /\ DOMAIN creds' = Keys /\ \A k \in Keys \ {key} : creds'[k] = creds[k]
      /\ gone' = gone \ {key} /\ store.status # "none"
  BY DEF SetCredential, Edit, Exists, cloud, IInv, Shape
<1>2. Quiet /\ AllRaced
  BY <1>1, QuietRaced DEF IInv
<1>3. Shape' /\ Alone'
  BY <1>1, <1>2, QuietShape DEF IInv, Shape
<1>4. DeletedInv'
  BY <1>1, <1>2, QuietDeleted, KeysDistinct DEF IInv, DeletedInv, Removed
<1>5. CurrentInv'
  BY <1>1, <1>2, RacedCurrent
<1> QED
  BY <1>3, <1>4, <1>5 DEF IInv

-----------------------------------------------------------------------------
(* Requests that work on Railway                                           *)

\* A deploy or a deletion begins: all the others at work are overlapped.
LEMMA BeginOnRailway ==
    ASSUME Shape, NEW new, DOMAIN new = Fields, new.raced \in BOOLEAN,
           new.kind \in {"deploy", "delete"}, BeginRequest(new)
    PROVE  \E t \in Slots :
             /\ DOMAIN tasks' = Tasks /\ ~Railwayish(t)
             /\ DOMAIN tasks'[t] = Fields
             /\ tasks'[t].raced = (new.raced \/ \E u \in Tasks : Railwayish(u))
             /\ \A f \in Fields \ {"raced"} : tasks'[t][f] = new[f]
             /\ \A u \in Tasks \ {t} : Kept(u) /\ WellFormed(u) /\ (Railwayish(u) => tasks'[u].raced)
<1> DEFINE t == CHOOSE x \in Free : TRUE
           begun == [new EXCEPT !.raced = @ \/ \E u \in Tasks : Railwayish(u)]
<1>1. t \in Free /\ tasks' = [Raced(tasks) EXCEPT ![t] = begun]
  BY DEF BeginRequest
<1>2. t \in Slots /\ t \in Tasks /\ tasks[t] = Idle
  BY <1>1 DEF Free, Tasks
<1>3. ~Railwayish(t)
  BY <1>2, IdleFields DEF Railwayish
<1> HIDE DEF t
<1>4. DOMAIN tasks' = Tasks /\ tasks'[t] = begun /\ \A u \in Tasks \ {t} : tasks'[u] = Raced(tasks)[u]
  BY <1>1, <1>2, RacedTasks
<1>5. /\ DOMAIN begun = Fields /\ begun.raced = (new.raced \/ \E u \in Tasks : Railwayish(u))
      /\ \A f \in Fields \ {"raced"} : begun[f] = new[f]
  BY IdleFields
<1> HIDE DEF begun
<1>6. \A u \in Tasks \ {t} : Kept(u) /\ WellFormed(u) /\ (Railwayish(u) => tasks'[u].raced)
  <2> TAKE u \in Tasks \ {t}
  <2>1. /\ tasks[u].raced \in BOOLEAN
        /\ tasks'[u].raced = (tasks[u].raced \/ Railwayish(u)) /\ DOMAIN tasks'[u] = Fields
    BY <1>4, RacedTasks DEF Shape
  <2>2. Kept(u)
    BY <1>4, <2>1, RacedTasks DEF Kept
  <2> QED
    BY <2>1, <2>2 DEF WellFormed, Railwayish
<1>7. /\ DOMAIN tasks' = Tasks /\ ~Railwayish(t)
      /\ DOMAIN tasks'[t] = Fields
      /\ tasks'[t].raced = (new.raced \/ \E u \in Tasks : Railwayish(u))
      /\ \A f \in Fields \ {"raced"} : tasks'[t][f] = new[f]
  BY <1>3, <1>4, <1>5
<1> QED
  BY <1>2, <1>6, <1>7

\* One request t goes on with Railway, or begins; the others are Kept.
GoesOn(t) == /\ DOMAIN tasks' = Tasks /\ WellFormed(t)
             /\ \A u \in Tasks \ {t} : WellFormed(u) /\ Kept(u)
             /\ tasks'[t].step \in DeleteSteps <=> tasks'[t].kind = "delete"
             /\ tasks'[t].step \in DeploySteps <=> tasks'[t].kind = "deploy"
             /\ tasks'[t].kind = "delete" => tasks'[t].key \in Providers
             /\ tasks'[t].kind = "deploy" => tasks'[t].env \in Envs

LEMMA GoesOnShape ==
    ASSUME Shape, Alone, NEW t \in Tasks, GoesOn(t),
           DOMAIN creds' = Keys, DOMAIN railway' = Envs, DOMAIN running' = Envs,
           \A e \in Envs : DOMAIN railway'[e] = Keys,
           gone' \subseteq Providers, fresh' \subseteq Envs,
           \A u \in Tasks \ {t} : Railwayish(u) /\ Railwayish(t)' => tasks'[u].raced /\ tasks'[t].raced
    PROVE  Shape' /\ Alone'
<1>1. \A u \in Tasks :
        /\ DOMAIN tasks'[u] = Fields /\ tasks'[u].raced \in BOOLEAN
        /\ tasks'[u].step \in {"railway", "local"} <=> tasks'[u].kind = "delete"
        /\ tasks'[u].step \in {"read", "push", "redeploy"} <=> tasks'[u].kind = "deploy"
        /\ tasks'[u].kind = "delete" => tasks'[u].key \in Providers
        /\ tasks'[u].kind = "deploy" => tasks'[u].env \in Envs
  BY DEF GoesOn, Shape, Kept, WellFormed, DeploySteps, DeleteSteps
<1>2. Shape'
  BY <1>1 DEF GoesOn, Shape, Fields, Idle
<1>3. Alone'
  <2> SUFFICES ASSUME NEW x \in Tasks, NEW u \in Tasks, x # u, Railwayish(x)', Railwayish(u)'
               PROVE  tasks'[x].raced
    BY DEF Alone
  <2>1. CASE x # t /\ u # t
    BY <2>1 DEF GoesOn, Kept, Alone, Railwayish
  <2>2. CASE x = t
    BY <2>2 DEF GoesOn, Kept, Railwayish
  <2>3. CASE u = t
    BY <2>3 DEF GoesOn, Kept, Railwayish
  <2> QED
    BY <2>1, <2>2, <2>3
<1> QED
  BY <1>2, <1>3

\* What is left to show of the request itself.
DeletedFor(t) ==
    /\ tasks[t].step = "push" => gone \cap DOMAIN tasks[t].data = {}
    /\ \A e \in Envs :
         tasks[t].kind = "delete" /\ ~tasks[t].raced /\ (tasks[t].step = "railway" => e \notin tasks[t].todo)
         => railway[e][tasks[t].key] = None
CurrentFor(t) ==
    tasks[t].kind = "deploy" =>
      /\ tasks[t].url # store.url => fresh = {} /\ tasks[t].raced
      /\ ~tasks[t].raced =>
           /\ tasks[t].step = "push" => /\ Set(creds) \cup {URL} \subseteq DOMAIN tasks[t].data
                                        /\ Holds(tasks[t].data)
           /\ tasks[t].step = "redeploy" => Holds(railway[tasks[t].env])

\* The others that nothing overlapped see no change.
OthersUndisturbed(t) ==
    \A u \in Tasks \ {t} : Railwayish(u) /\ ~tasks'[u].raced => UNCHANGED <<creds, railway>>

LEMMA GoesOnDeleted ==
    ASSUME Shape, DeletedInv, NEW t \in Tasks, GoesOn(t), OthersUndisturbed(t),
           gone' \subseteq gone, \A k \in gone' : creds'[k] = None,
           DeletedIsUndeployed', DeletedFor(t)'
    PROVE  DeletedInv'
<1>1. Removed'
  <2> SUFFICES ASSUME NEW k \in gone', NEW u \in Tasks, tasks'[u].step = "push"
               PROVE  k \notin DOMAIN tasks'[u].data
    BY DEF Removed
  <2>1. CASE u = t
    BY <2>1 DEF DeletedFor
  <2>2. CASE u # t
    BY <2>2 DEF GoesOn, Kept, DeletedInv, Removed
  <2> QED
    BY <2>1, <2>2
<1>2. Cleared'
  <2> SUFFICES ASSUME NEW u \in Tasks, NEW e \in Envs, tasks'[u].kind = "delete", ~tasks'[u].raced,
                      tasks'[u].step = "railway" => e \notin tasks'[u].todo
               PROVE  railway'[e][tasks'[u].key] = None
    BY DEF Cleared
  <2>1. CASE u = t
    BY <2>1 DEF DeletedFor
  <2>2. CASE u # t
    <3>1. Kept(u)
      BY <2>2 DEF GoesOn
    <3>2. UNCHANGED railway
      BY <2>2, <3>1 DEF OthersUndisturbed, Kept, Railwayish
    <3> QED
      BY <3>1, <3>2 DEF Kept, DeletedInv, Cleared
  <2> QED
    BY <2>1, <2>2
<1> QED
  BY <1>1, <1>2 DEF DeletedInv

LEMMA GoesOnCurrent ==
    ASSUME Shape, CurrentInv, NEW t \in Tasks, GoesOn(t), OthersUndisturbed(t),
           UNCHANGED store, store.status # "none",
           \A u \in Tasks \ {t} : Railwayish(u) => fresh' \subseteq fresh,
           DeployedIsCurrent', CurrentFor(t)'
    PROVE  CurrentInv'
<1>1. Unborn'
  BY DEF Unborn
<1>2. Stale'
  <2> SUFFICES ASSUME NEW u \in Tasks, tasks'[u].kind = "deploy", tasks'[u].url # store'.url
               PROVE  fresh' = {} /\ tasks'[u].raced
    BY DEF Stale
  <2>1. CASE u = t
    BY <2>1 DEF CurrentFor
  <2>2. CASE u # t
    BY <2>2 DEF GoesOn, Kept, CurrentInv, Stale, Railwayish
  <2> QED
    BY <2>1, <2>2
<1>3. Prepared'
  <2> SUFFICES ASSUME NEW u \in Tasks, tasks'[u].kind = "deploy", ~tasks'[u].raced
               PROVE  (/\ tasks[u].step = "push" => /\ Set(creds) \cup {URL} \subseteq DOMAIN tasks[u].data
                                                    /\ Holds(tasks[u].data)
                       /\ tasks[u].step = "redeploy" => Holds(railway[tasks[u].env]))'
    BY DEF Prepared
  <2>1. CASE u = t
    BY <2>1 DEF CurrentFor
  <2>2. CASE u # t
    <3>1. Kept(u)
      BY <2>2 DEF GoesOn
    <3>2. UNCHANGED <<creds, railway>>
      BY <2>2, <3>1 DEF OthersUndisturbed, Kept, Railwayish
    <3> QED
      BY <3>1, <3>2 DEF Kept, CurrentInv, Prepared, Holds, Set
  <2> QED
    BY <2>1, <2>2
<1> QED
  BY <1>1, <1>2, <1>3 DEF CurrentInv

LEMMA BeginDeleteStep ==
    ASSUME IInv, NEW k \in Providers, BeginDelete(k)
    PROVE  IInv'
<1> DEFINE new == [Idle EXCEPT !.kind = "delete", !.key = k, !.todo = EnvsOf,
                               !.step = IF store.linked THEN "railway" ELSE "local",
                               !.raced = ~store.linked]
<1>1. /\ BeginRequest(new) /\ UNCHANGED <<store, creds, railway, running, gone, fresh>>
      /\ store.status # "none"
  BY DEF BeginDelete, Exists, cloud, history
<1>2. /\ DOMAIN new = Fields /\ new.raced \in BOOLEAN /\ (new.raced <=> ~store.linked) /\ new.kind = "delete" /\ new.key = k
      /\ new.step = (IF store.linked THEN "railway" ELSE "local") /\ new.todo = EnvsOf
  BY IdleFields DEF Idle
<1> HIDE DEF new
<1>3. PICK t \in Slots :
        /\ DOMAIN tasks' = Tasks /\ ~Railwayish(t)
        /\ DOMAIN tasks'[t] = Fields
        /\ tasks'[t].raced = (new.raced \/ \E u \in Tasks : Railwayish(u))
        /\ \A f \in Fields \ {"raced"} : tasks'[t][f] = new[f]
        /\ \A u \in Tasks \ {t} : Kept(u) /\ WellFormed(u) /\ (Railwayish(u) => tasks'[u].raced)
  BY <1>1, <1>2, BeginOnRailway DEF IInv
<1>4. /\ t \in Tasks /\ tasks'[t].kind = "delete" /\ tasks'[t].key = k /\ tasks'[t].todo = EnvsOf
      /\ tasks'[t].step = (IF store.linked THEN "railway" ELSE "local")
      /\ ~tasks'[t].raced => store.linked
  BY <1>2, <1>3, IdleFields DEF Tasks
<1>5. GoesOn(t)
  BY <1>3, <1>4 DEF GoesOn, WellFormed, DeleteSteps, DeploySteps
<1>6. \A u \in Tasks \ {t} : Railwayish(u) => tasks'[u].raced /\ tasks'[t].raced
  BY <1>3
<1>7. Shape' /\ Alone'
  BY <1>1, <1>4, <1>5, <1>6, GoesOnShape DEF IInv, Shape
<1>8. DeletedFor(t)' /\ DeletedIsUndeployed'
  BY <1>1, <1>4 DEF DeletedFor, EnvsOf, IInv, DeletedInv, DeletedIsUndeployed
<1>9. OthersUndisturbed(t)
  BY <1>1 DEF OthersUndisturbed
<1>10. DeletedInv'
  BY <1>1, <1>4, <1>5, <1>8, <1>9, GoesOnDeleted DEF IInv, DeletedInv, Removed
<1>11. CurrentFor(t)' /\ DeployedIsCurrent'
  BY <1>1, <1>4 DEF CurrentFor, IInv, CurrentInv, DeployedIsCurrent, Set
<1>12. CurrentInv'
  BY <1>1, <1>4, <1>5, <1>9, <1>11, GoesOnCurrent DEF IInv
<1> QED
  BY <1>7, <1>10, <1>12 DEF IInv

LEMMA BeginDeployStep ==
    ASSUME IInv, NEW e \in Envs, BeginDeploy(e)
    PROVE  IInv'
<1> DEFINE new == [Idle EXCEPT !.kind = "deploy", !.step = "read", !.env = e, !.url = store.url]
<1>1. /\ BeginRequest(new) /\ UNCHANGED <<store, creds, railway, running, gone, fresh>>
      /\ store.status # "none"
  BY DEF BeginDeploy, Exists, cloud, history
<1>2. /\ DOMAIN new = Fields /\ new.raced \in BOOLEAN /\ new.kind = "deploy" /\ new.step = "read"
      /\ new.env = e /\ new.url = store.url
  BY IdleFields DEF Idle
<1> HIDE DEF new
<1>3. PICK t \in Slots :
        /\ DOMAIN tasks' = Tasks /\ ~Railwayish(t)
        /\ DOMAIN tasks'[t] = Fields
        /\ tasks'[t].raced = (new.raced \/ \E u \in Tasks : Railwayish(u))
        /\ \A f \in Fields \ {"raced"} : tasks'[t][f] = new[f]
        /\ \A u \in Tasks \ {t} : Kept(u) /\ WellFormed(u) /\ (Railwayish(u) => tasks'[u].raced)
  BY <1>1, <1>2, BeginOnRailway DEF IInv
<1>4. /\ t \in Tasks /\ tasks'[t].kind = "deploy" /\ tasks'[t].step = "read"
      /\ tasks'[t].env = e /\ tasks'[t].url = store.url
  BY <1>2, <1>3, IdleFields DEF Tasks
<1>5. GoesOn(t)
  BY <1>3, <1>4 DEF GoesOn, WellFormed, DeleteSteps, DeploySteps
<1>6. \A u \in Tasks \ {t} : Railwayish(u) => tasks'[u].raced /\ tasks'[t].raced
  BY <1>3
<1>7. Shape' /\ Alone'
  BY <1>1, <1>4, <1>5, <1>6, GoesOnShape DEF IInv, Shape
<1>8. DeletedFor(t)' /\ DeletedIsUndeployed'
  BY <1>1, <1>4 DEF DeletedFor, IInv, DeletedInv, DeletedIsUndeployed
<1>9. OthersUndisturbed(t)
  BY <1>1 DEF OthersUndisturbed
<1>10. DeletedInv'
  BY <1>1, <1>4, <1>5, <1>8, <1>9, GoesOnDeleted DEF IInv, DeletedInv, Removed
<1>11. CurrentFor(t)' /\ DeployedIsCurrent'
  BY <1>1, <1>4 DEF CurrentFor, IInv, CurrentInv, DeployedIsCurrent, Set
<1>12. CurrentInv'
  BY <1>1, <1>4, <1>5, <1>9, <1>11, GoesOnCurrent DEF IInv
<1> QED
  BY <1>7, <1>10, <1>12 DEF IInv

\* A request at work on Railway that nothing overlapped is the only one.
LEMMA OthersRaced ==
    ASSUME Alone, NEW t \in Tasks, Railwayish(t), GoesOn(t)
    PROVE  /\ OthersUndisturbed(t)
           /\ \A u \in Tasks \ {t} : Railwayish(u) => tasks[t].raced /\ tasks'[u].raced
BY DEF Alone, GoesOn, Kept, Railwayish, OthersUndisturbed

LEMMA EndsGoesOn ==
    ASSUME Shape, NEW t \in Tasks, Ends(t)
    PROVE  /\ GoesOn(t) /\ ~Railwayish(t)' /\ DeletedFor(t)' /\ CurrentFor(t)'
<1>1. DOMAIN tasks' = Tasks /\ tasks'[t] = Idle /\ \A u \in Tasks \ {t} : tasks'[u] = tasks[u]
  BY DEF Ends, Shape
<1>2. GoesOn(t)
  BY <1>1, IdleFields DEF GoesOn, WellFormed, Kept, Shape, Fields, DeploySteps, DeleteSteps
<1> QED
  BY <1>1, <1>2, IdleFields DEF Railwayish, DeletedFor, CurrentFor

\* It goes on to another step, or with other variables.
LEMMA ChangesGoesOn ==
    ASSUME Shape, NEW t \in Tasks, NEW new, DOMAIN tasks' = Tasks, tasks'[t] = new,
           \A u \in Tasks \ {t} : tasks'[u] = tasks[u],
           DOMAIN new = Fields, new.raced = tasks[t].raced, new.kind = tasks[t].kind,
           new.key = tasks[t].key, new.env = tasks[t].env,
           \/ new.kind = "deploy" /\ new.step \in DeploySteps
           \/ new.kind = "delete" /\ new.step \in DeleteSteps
    PROVE  GoesOn(t)
BY DEF GoesOn, WellFormed, Kept, Shape, DeploySteps, DeleteSteps

\* A variable is taken out of one environment.
LEMMA VariableGone ==
    ASSUME Shape, DeletedIsUndeployed, NEW e, NEW key,
           railway' = [railway EXCEPT ![e][key] = None], gone' = gone
    PROVE  /\ DOMAIN railway' = Envs /\ \A f \in Envs : DOMAIN railway'[f] = Keys
           /\ \A f \in Envs, k \in Keys : railway'[f][k] \in {railway[f][k], None}
           /\ e \in Envs /\ key \in Keys => railway'[e][key] = None
           /\ DeletedIsUndeployed'
<1>1. DOMAIN railway' = Envs /\ \A f \in Envs : DOMAIN railway'[f] = Keys
  BY DEF Shape
<1>2. \A f \in Envs, k \in Keys : railway'[f][k] = IF f = e /\ k = key THEN None ELSE railway[f][k]
  BY DEF Shape
<1>3. \A k \in gone : k \in Keys
  BY DEF Shape, Keys
<1> QED
  BY <1>1, <1>2, <1>3 DEF DeletedIsUndeployed

LEMMA DeleteVariableStep ==
    ASSUME IInv, NEW t \in Slots, DeleteVariable(t)
    PROVE  IInv'
<1> DEFINE key == tasks[t].key
<1>1. PICK e \in tasks[t].todo :
        /\ railway' = [railway EXCEPT ![e][key] = None]
        /\ tasks' = [tasks EXCEPT ![t].todo = @ \ {e},
                                  ![t].step = IF tasks[t].todo = {e} THEN "local" ELSE @]
  BY DEF DeleteVariable
<1>2. /\ tasks[t].step = "railway" /\ UNCHANGED <<store, creds, running, gone, fresh>> /\ t \in Tasks
  BY DEF DeleteVariable, history, Tasks
<1>3. tasks[t].kind = "delete" /\ Railwayish(t) /\ key \in Providers /\ key \in Keys
  BY <1>2 DEF IInv, Shape, Railwayish, Keys
<1> DEFINE new == [tasks[t] EXCEPT !.todo = @ \ {e},
                                   !.step = IF tasks[t].todo = {e} THEN "local" ELSE @]
<1>4. /\ DOMAIN tasks' = Tasks /\ tasks'[t] = new /\ \A u \in Tasks \ {t} : tasks'[u] = tasks[u]
      /\ DOMAIN new = Fields /\ new.raced = tasks[t].raced /\ new.kind = "delete"
      /\ new.key = key /\ new.env = tasks[t].env /\ new.todo = tasks[t].todo \ {e}
      /\ new.step = (IF tasks[t].todo = {e} THEN "local" ELSE "railway")
  BY <1>1, <1>2, <1>3, IdleFields DEF IInv, Shape
<1> HIDE DEF new
<1>5. GoesOn(t) /\ tasks'[t] = new
  BY <1>2, <1>3, <1>4, ChangesGoesOn DEF IInv, DeleteSteps
<1>6. OthersUndisturbed(t) /\ \A u \in Tasks \ {t} : Railwayish(u) => tasks[t].raced /\ tasks'[u].raced
  BY <1>2, <1>3, <1>5, OthersRaced DEF IInv
<1>7. /\ DOMAIN railway' = Envs /\ \A f \in Envs : DOMAIN railway'[f] = Keys
      /\ \A f \in Envs, k \in Keys : railway'[f][k] \in {railway[f][k], None}
      /\ e \in Envs => railway'[e][key] = None
      /\ DeletedIsUndeployed'
  BY <1>1, <1>2, <1>3, VariableGone DEF IInv, DeletedInv
<1>8. Shape' /\ Alone'
  BY <1>2, <1>4, <1>5, <1>6, <1>7, GoesOnShape DEF IInv, Shape
<1>9. DeletedFor(t)'
  <2> SUFFICES ASSUME NEW f \in Envs, ~tasks[t].raced, new.step = "railway" => f \notin new.todo
               PROVE  railway'[f][key] = None
    BY <1>4, <1>5 DEF DeletedFor
  <2>1. CASE f = e
    BY <1>7, <2>1
  <2>2. CASE f # e
    BY <1>2, <1>3, <1>4, <1>7, <2>2 DEF IInv, DeletedInv, Cleared
  <2> QED
    BY <2>1, <2>2
<1>10. DeletedInv'
  BY <1>2, <1>5, <1>6, <1>7, <1>9, GoesOnDeleted DEF IInv, DeletedInv, Removed
<1>11. CurrentFor(t)' /\ DeployedIsCurrent' /\ store.status # "none"
  BY <1>2, <1>3, <1>4, <1>5 DEF CurrentFor, IInv, CurrentInv, DeployedIsCurrent, Set, Unborn
<1>12. CurrentInv'
  BY <1>2, <1>5, <1>6, <1>11, GoesOnCurrent DEF IInv
<1> QED
  BY <1>8, <1>10, <1>12 DEF IInv

LEMMA DeleteFailsStep ==
    ASSUME IInv, NEW t \in Slots, DeleteFails(t)
    PROVE  IInv'
<1>1. /\ tasks[t].step = "railway" /\ UNCHANGED <<store, creds, running, gone, fresh>>
      /\ t \in Tasks /\ Ends(t)
  BY DEF DeleteFails, history, Tasks
<1>2. tasks[t].kind = "delete" /\ Railwayish(t)
  BY <1>1 DEF IInv, Shape, Railwayish
<1>3. GoesOn(t) /\ ~Railwayish(t)' /\ DeletedFor(t)' /\ CurrentFor(t)'
  BY <1>1, EndsGoesOn DEF IInv
<1>4. OthersUndisturbed(t)
  BY <1>1, <1>2, <1>3, OthersRaced DEF IInv
<1>5. /\ DOMAIN railway' = Envs /\ \A f \in Envs : DOMAIN railway'[f] = Keys
      /\ DeletedIsUndeployed'
  <2>1. CASE UNCHANGED railway
    BY <1>1, <2>1 DEF IInv, Shape, DeletedInv, DeletedIsUndeployed
  <2>2. CASE \E e \in tasks[t].todo : railway' = [railway EXCEPT ![e][tasks[t].key] = None]
    BY <1>1, <2>2, VariableGone DEF IInv, DeletedInv
  <2> QED
    BY <2>1, <2>2 DEF DeleteFails
<1>6. Shape' /\ Alone'
  BY <1>1, <1>3, <1>5, GoesOnShape DEF IInv, Shape
<1>7. DeletedInv'
  BY <1>1, <1>3, <1>4, <1>5, GoesOnDeleted DEF IInv, DeletedInv, Removed
<1>8. DeployedIsCurrent' /\ store.status # "none"
  BY <1>1, <1>2 DEF IInv, CurrentInv, DeployedIsCurrent, Set, Unborn
<1>9. CurrentInv'
  BY <1>1, <1>3, <1>4, <1>8, GoesOnCurrent DEF IInv
<1> QED
  BY <1>6, <1>7, <1>9 DEF IInv

LEMMA DeleteLocalStep ==
    ASSUME IInv, NEW t \in Slots, DeleteLocal(t)
    PROVE  IInv'
<1> DEFINE key == tasks[t].key
<1>1. /\ tasks[t].step = "local" /\ UNCHANGED <<store, railway, running>> /\ t \in Tasks
      /\ creds' = [creds EXCEPT ![key] = None] /\ fresh' = {}
      /\ tasks' = [Raced(tasks) EXCEPT ![t] = Idle]
      /\ gone' = IF ~tasks[t].raced THEN gone \cup {key} ELSE gone
  BY DEF DeleteLocal, cloud, Tasks
<1>2. tasks[t].kind = "delete" /\ Railwayish(t) /\ key \in Providers /\ key \in Keys
  BY <1>1 DEF IInv, Shape, Railwayish, Keys
<1>3. DOMAIN tasks' = Tasks /\ tasks'[t] = Idle /\ \A u \in Tasks \ {t} : tasks'[u] = Raced(tasks)[u]
  BY <1>1, RacedTasks DEF IInv
<1>4. ~Railwayish(t)' /\ Quiet /\ AllRaced
  <2>1. Elsewhere(t) /\ WellFormed(t) /\ ~Railwayish(t)'
    BY <1>3, IdleFields DEF Elsewhere, WellFormed, Fields, Railwayish, DeploySteps, DeleteSteps
  <2>2. \A u \in Tasks \ {t} : Kept(u) /\ WellFormed(u) /\ (Railwayish(u) => tasks'[u].raced)
    <3> TAKE u \in Tasks \ {t}
    <3>1. /\ tasks[u].raced \in BOOLEAN /\ DOMAIN tasks'[u] = Fields
          /\ tasks'[u].raced = (tasks[u].raced \/ Railwayish(u))
      BY <1>3, RacedTasks DEF IInv, Shape
    <3>2. Kept(u)
      BY <1>3, <3>1, RacedTasks DEF Kept, IInv
    <3> QED
      BY <3>1, <3>2 DEF WellFormed, Railwayish
  <2> QED
    BY <1>3, <2>1, <2>2 DEF Quiet, AllRaced, Kept, Railwayish
<1>5. DOMAIN creds' = Keys /\ creds'[key] = None /\ \A k \in Keys : creds'[k] \in {creds[k], None}
  BY <1>1, <1>2 DEF IInv, Shape
<1>6. gone' \subseteq Providers /\ gone' \subseteq Keys
  BY <1>1, <1>2 DEF IInv, Shape, Keys
<1>7. Shape' /\ Alone'
  BY <1>1, <1>4, <1>5, <1>6, QuietShape DEF IInv, Shape
<1>8. ~tasks[t].raced => /\ \A u \in Tasks \ {t} : ~Railwayish(u)
                         /\ \A f \in Envs : railway[f][key] = None
  BY <1>1, <1>2 DEF IInv, Alone, DeletedInv, Cleared
<1>9. DeletedIsUndeployed'
  BY <1>1, <1>8 DEF IInv, DeletedInv, DeletedIsUndeployed
<1>10. Removed'
  <2>1. \A k \in gone' : creds'[k] = None
    BY <1>1, <1>5, <1>6 DEF IInv, DeletedInv, Removed
  <2>2. ASSUME NEW k \in gone', NEW u \in Tasks, tasks'[u].step = "push"
        PROVE  k \notin DOMAIN tasks'[u].data
    <3>1. u # t /\ Kept(u)
      BY <1>3, <1>4, <2>2, IdleFields DEF Quiet, Elsewhere, DeploySteps
    <3>2. Railwayish(u) /\ tasks[u].step = "push"
      BY <2>2, <3>1 DEF Kept, IInv, Shape, Railwayish
    <3>3. k \in gone
      BY <1>1, <1>8, <3>1, <3>2
    <3> QED
      BY <3>1, <3>2, <3>3 DEF Kept, IInv, DeletedInv, Removed
  <2> QED
    BY <2>1, <2>2 DEF Removed
<1>11. Cleared'
  BY <1>4 DEF Cleared, AllRaced, Railwayish
<1>12. store'.status # "none"
  BY <1>1, <1>2 DEF IInv, CurrentInv, Unborn
<1>13. CurrentInv'
  BY <1>1, <1>4, <1>12, RacedCurrent
<1> QED
  BY <1>7, <1>9, <1>10, <1>11, <1>13 DEF IInv, DeletedInv

\* Collecting the credentials, or giving up on a store that is gone.
LEMMA CollectStep ==
    ASSUME IInv, NEW t \in Slots, Collect(t)
    PROVE  IInv'
<1> DEFINE url == tasks[t].url
<1>1. /\ tasks[t].step = "read" /\ UNCHANGED <<store, railway, running, gone, fresh>> /\ t \in Tasks
  BY DEF Collect, cloud, history, Tasks
<1>2. tasks[t].kind = "deploy" /\ Railwayish(t) /\ tasks[t].env \in Envs /\ store.status # "none"
  BY <1>1 DEF IInv, Shape, Railwayish, CurrentInv, Unborn
<1>3. CASE ~Exists
  <2>1. Ends(t) /\ UNCHANGED creds
    BY <1>3 DEF Collect
  <2>2. Quiet
    BY <1>1, <2>1, QuietEnds DEF IInv
  <2> QED
    BY <1>1, <2>1, <2>2, AwayStep DEF cloud
<1>4. CASE Exists
  <2> DEFINE collected == Deployed(t)
  <2>1. /\ DOMAIN collected = Set(creds) \cup {URL} /\ collected[URL] = url
        /\ \A k \in Set(creds) \ {URL} : collected[k] = creds[k]
    BY DEF Deployed
  <2> HIDE DEF collected
  <2>2. PICK data, new : data = collected /\ new = [tasks[t] EXCEPT !.step = "push", !.data = data]
    OBVIOUS
  <2>3. /\ DOMAIN new = Fields /\ new.raced = tasks[t].raced /\ new.kind = "deploy"
        /\ new.key = tasks[t].key /\ new.env = tasks[t].env /\ new.url = url
        /\ new.step = "push" /\ new.data = data
        /\ creds' = [creds EXCEPT ![URL] = url]
        /\ DOMAIN tasks' = Tasks /\ tasks'[t] = new /\ \A u \in Tasks \ {t} : tasks'[u] = tasks[u]
    BY <1>1, <1>2, <1>4, <2>2, IdleFields DEF Collect, IInv, Shape, collected
  <2>4. GoesOn(t) /\ tasks'[t] = new
    <3>1. new.kind = tasks[t].kind /\ new.kind = "deploy" /\ new.step \in DeploySteps
      BY <1>2, <2>3 DEF DeploySteps
    <3>2. Shape /\ t \in Tasks
      BY <1>1 DEF IInv
    <3> QED
      BY <2>3, <3>1, <3>2, ChangesGoesOn
  <2>5. OthersUndisturbed(t) /\ \A u \in Tasks \ {t} : Railwayish(u) => tasks[t].raced /\ tasks'[u].raced
    BY <1>1, <1>2, <2>4, OthersRaced DEF IInv
  <2>6. /\ DOMAIN creds' = Keys /\ creds'[URL] = url /\ \A k \in Keys \ {URL} : creds'[k] = creds[k]
        /\ Set(creds)' \subseteq Set(creds) \cup {URL} /\ Set(creds) \subseteq Keys /\ URL \in Keys
    BY <2>3 DEF IInv, Shape, Keys, Set
  <2>7. Shape' /\ Alone'
    BY <1>1, <2>3, <2>4, <2>5, <2>6, GoesOnShape DEF IInv, Shape
  <2>8. DeletedFor(t)' /\ DeletedIsUndeployed' /\ \A k \in gone : creds'[k] = None
    <3>1. \A k \in gone : k # URL /\ creds[k] = None /\ k \notin Set(creds) /\ k \in Keys
      BY KeysDistinct DEF IInv, DeletedInv, Removed, Set
    <3>2. DeletedFor(t)'
      BY <1>1, <2>1, <2>2, <2>3, <2>4, <3>1 DEF DeletedFor
    <3>3. DeletedIsUndeployed' /\ \A k \in gone : creds'[k] = None
      BY <1>1, <2>6, <3>1 DEF IInv, DeletedInv, DeletedIsUndeployed
    <3> QED
      BY <3>2, <3>3
  <2>9. DeletedInv'
    BY <1>1, <2>4, <2>5, <2>8, GoesOnDeleted DEF IInv
  <2>10. url # store.url => fresh = {} /\ tasks[t].raced
    BY <1>1, <1>2 DEF IInv, CurrentInv, Stale
  <2>11. CurrentFor(t)'
    <3> SUFFICES ASSUME ~tasks[t].raced
                 PROVE  Set(creds)' \cup {URL} \subseteq DOMAIN data /\ Holds(data)'
      BY <1>1, <2>3, <2>4, <2>10 DEF CurrentFor, Holds, Set
    <3>1. url = store.url
      BY <2>10
    <3> QED
      BY <1>1, <2>1, <2>2, <2>6, <3>1 DEF Holds
  <2>12. DeployedIsCurrent'
    BY <1>1, <2>6, <2>10 DEF IInv, CurrentInv, DeployedIsCurrent
  <2>13. CurrentInv'
    BY <1>1, <1>2, <2>4, <2>5, <2>11, <2>12, GoesOnCurrent DEF IInv
  <2> QED
    BY <2>7, <2>9, <2>13 DEF IInv
<1> QED
  BY <1>3, <1>4

\* What a deploy has collected is merged into its environment.
LEMMA Merging ==
    ASSUME IInv, NEW t \in Tasks, tasks[t].step = "push", tasks[t].env \in Envs,
           railway' = [railway EXCEPT ![tasks[t].env] = Merged(@, tasks[t].data)],
           UNCHANGED <<store, creds, gone>>
    PROVE  /\ DOMAIN railway' = Envs /\ \A e \in Envs : DOMAIN railway'[e] = Keys
           /\ DeletedIsUndeployed'
           /\ tasks'[t].env = tasks[t].env /\ tasks[t].kind = "deploy" /\ ~tasks[t].raced => Holds(railway[tasks[t].env])'
<1> DEFINE e == tasks[t].env
           data == tasks[t].data
<1>1. /\ DOMAIN railway' = Envs /\ railway'[e] = Merged(railway[e], data)
      /\ \A f \in Envs \ {e} : railway'[f] = railway[f]
  BY DEF IInv, Shape
<1>2. \A k \in Keys : railway'[e][k] = IF k \in DOMAIN data THEN data[k] ELSE railway[e][k]
  BY <1>1 DEF Merged, IInv, Shape
<1>3. DOMAIN railway'[e] = Keys
  BY <1>1 DEF Merged, IInv, Shape
<1>4. \A k \in gone : k \in Keys /\ k \notin DOMAIN data /\ \A f \in Envs : railway[f][k] = None
  BY DEF IInv, DeletedInv, Removed, DeletedIsUndeployed, Shape, Keys
<1>5. DeletedIsUndeployed'
  <2> SUFFICES ASSUME NEW k \in gone, NEW f \in Envs
               PROVE  railway'[f][k] = None
    BY DEF DeletedIsUndeployed
  <2> QED
    BY <1>1, <1>2, <1>4
<1>6. ASSUME tasks'[t].env = e, tasks[t].kind = "deploy", ~tasks[t].raced
      PROVE  Holds(railway[tasks[t].env])'
  <2>1. Set(creds) \cup {URL} \subseteq DOMAIN data /\ Holds(data)
    BY <1>6 DEF IInv, CurrentInv, Prepared
  <2>2. Set(creds) \subseteq Keys /\ URL \in Keys
    BY DEF IInv, Shape, Keys, Set
  <2> QED
    BY <1>2, <1>6, <2>1, <2>2 DEF Holds, Set
<1>7. \A f \in Envs : DOMAIN railway'[f] = Keys
  BY <1>1, <1>3 DEF IInv, Shape
<1> QED
  BY <1>1, <1>5, <1>6, <1>7

LEMMA PushStep ==
    ASSUME IInv, NEW t \in Slots, Push(t)
    PROVE  IInv'
<1>1. /\ tasks[t].step = "push" /\ UNCHANGED <<store, creds, running, gone, fresh>> /\ t \in Tasks
      /\ railway' = [railway EXCEPT ![tasks[t].env] = Merged(@, tasks[t].data)]
      /\ tasks' = [tasks EXCEPT ![t].step = "redeploy"]
  BY DEF Push, Goes, history, Tasks
<1>2. tasks[t].kind = "deploy" /\ Railwayish(t) /\ tasks[t].env \in Envs /\ store.status # "none"
  BY <1>1 DEF IInv, Shape, Railwayish, CurrentInv, Unborn
<1>3. PICK new : new = [tasks[t] EXCEPT !.step = "redeploy"]
  OBVIOUS
<1>4. /\ DOMAIN new = Fields /\ new.raced = tasks[t].raced /\ new.kind = tasks[t].kind
      /\ new.key = tasks[t].key /\ new.env = tasks[t].env /\ new.url = tasks[t].url
      /\ new.step = "redeploy"
      /\ DOMAIN tasks' = Tasks /\ tasks'[t] = new /\ \A u \in Tasks \ {t} : tasks'[u] = tasks[u]
  BY <1>1, <1>3, IdleFields DEF IInv, Shape
<1>5. GoesOn(t)
  BY <1>1, <1>2, <1>4, ChangesGoesOn DEF IInv, DeploySteps
<1>6. OthersUndisturbed(t) /\ \A u \in Tasks \ {t} : Railwayish(u) => tasks[t].raced /\ tasks'[u].raced
  BY <1>1, <1>2, <1>5, OthersRaced DEF IInv
<1>7. /\ DOMAIN railway' = Envs /\ \A e \in Envs : DOMAIN railway'[e] = Keys
      /\ DeletedIsUndeployed'
      /\ ~tasks[t].raced => Holds(railway[tasks[t].env])'
  BY <1>1, <1>2, <1>4, Merging
<1>8. Shape' /\ Alone'
  BY <1>1, <1>4, <1>5, <1>6, <1>7, GoesOnShape DEF IInv, Shape
<1>9. DeletedFor(t)'
  BY <1>2, <1>4 DEF DeletedFor
<1>10. DeletedInv'
  BY <1>1, <1>5, <1>6, <1>7, <1>9, GoesOnDeleted DEF IInv, DeletedInv, Removed
<1>11. CurrentFor(t)'
  BY <1>1, <1>2, <1>4, <1>7 DEF CurrentFor, IInv, CurrentInv, Stale
<1>12. DeployedIsCurrent'
  BY <1>1 DEF IInv, CurrentInv, DeployedIsCurrent, Set
<1>13. CurrentInv'
  BY <1>1, <1>2, <1>5, <1>6, <1>11, <1>12, GoesOnCurrent DEF IInv
<1> QED
  BY <1>8, <1>10, <1>13 DEF IInv

LEMMA RedeployStep ==
    ASSUME IInv, NEW t \in Slots, Redeploy(t)
    PROVE  IInv'
<1> DEFINE e == tasks[t].env
<1>1. /\ tasks[t].step = "redeploy" /\ UNCHANGED <<store, creds, railway, gone>> /\ t \in Tasks
      /\ running' = [running EXCEPT ![e] = railway[e]] /\ Ends(t)
      /\ fresh' = IF tasks[t].raced THEN fresh \ {e} ELSE fresh \cup {e}
  BY DEF Redeploy, Tasks
<1>2. tasks[t].kind = "deploy" /\ Railwayish(t) /\ e \in Envs /\ store.status # "none"
  BY <1>1 DEF IInv, Shape, Railwayish, CurrentInv, Unborn
<1>3. GoesOn(t) /\ ~Railwayish(t)' /\ DeletedFor(t)' /\ CurrentFor(t)'
  BY <1>1, EndsGoesOn DEF IInv
<1>4. OthersUndisturbed(t) /\ \A u \in Tasks \ {t} : Railwayish(u) => tasks[t].raced
  BY <1>1, <1>2, <1>3, OthersRaced DEF IInv
<1>5. DOMAIN running' = Envs /\ fresh' \subseteq Envs
  BY <1>1, <1>2 DEF IInv, Shape
<1>6. Shape' /\ Alone'
  BY <1>1, <1>3, <1>5, GoesOnShape DEF IInv, Shape
<1>7. DeletedInv'
  BY <1>1, <1>3, <1>4, GoesOnDeleted DEF IInv, DeletedInv, Removed, DeletedIsUndeployed
<1>8. DeployedIsCurrent'
  <2>1. \A f \in Envs : running'[f] = IF f = e THEN railway[e] ELSE running[f]
    BY <1>1 DEF IInv, Shape
  <2>2. e \in fresh' => Holds(railway[e])
    BY <1>1, <1>2 DEF IInv, CurrentInv, Prepared
  <2> QED
    BY <1>1, <1>5, <2>1, <2>2 DEF Holds, IInv, CurrentInv, DeployedIsCurrent, Set
<1>9. \A u \in Tasks \ {t} : Railwayish(u) => fresh' \subseteq fresh
  BY <1>1, <1>4
<1>10. CurrentInv'
  BY <1>1, <1>2, <1>3, <1>4, <1>8, <1>9, GoesOnCurrent DEF IInv
<1> QED
  BY <1>6, <1>7, <1>10 DEF IInv

LEMMA DeployFailsStep ==
    ASSUME IInv, NEW t \in Slots, DeployFails(t)
    PROVE  IInv'
<1> DEFINE e == tasks[t].env
<1>1. /\ tasks[t].step \in DeploySteps /\ UNCHANGED <<store, creds, gone>> /\ t \in Tasks
      /\ Ends(t) /\ fresh' \subseteq fresh
  BY DEF DeployFails, DeploySteps, Tasks
<1>2. tasks[t].kind = "deploy" /\ Railwayish(t) /\ e \in Envs /\ store.status # "none"
  BY <1>1 DEF IInv, Shape, Railwayish, CurrentInv, Unborn, DeploySteps
<1>3. GoesOn(t) /\ ~Railwayish(t)' /\ DeletedFor(t)' /\ CurrentFor(t)'
  BY <1>1, EndsGoesOn DEF IInv
<1>4. OthersUndisturbed(t)
  BY <1>1, <1>2, <1>3, OthersRaced DEF IInv
<1>5. /\ DOMAIN railway' = Envs /\ \A f \in Envs : DOMAIN railway'[f] = Keys
      /\ DeletedIsUndeployed'
  <2>1. CASE UNCHANGED railway
    BY <1>1, <2>1 DEF IInv, Shape, DeletedInv, DeletedIsUndeployed
  <2>2. CASE /\ tasks[t].step = "push"
             /\ railway' = [railway EXCEPT ![tasks[t].env] = Merged(@, tasks[t].data)]
    BY <1>1, <1>2, <2>2, Merging
  <2> QED
    BY <2>1, <2>2 DEF DeployFails, cloud
<1>6. /\ DOMAIN running' = Envs /\ DeployedIsCurrent'
  <2>1. CASE UNCHANGED running
    BY <1>1, <2>1 DEF IInv, Shape, CurrentInv, DeployedIsCurrent, Set
  <2>2. CASE running' = [running EXCEPT ![e] = railway[e]] /\ fresh' = fresh \ {e}
    BY <1>1, <2>2 DEF IInv, Shape, CurrentInv, DeployedIsCurrent, Set
  <2> QED
    BY <2>1, <2>2 DEF DeployFails, cloud
<1>7. Shape' /\ Alone'
  BY <1>1, <1>3, <1>5, <1>6, GoesOnShape DEF IInv, Shape
<1>8. DeletedInv'
  BY <1>1, <1>3, <1>4, <1>5, GoesOnDeleted DEF IInv, DeletedInv, Removed
<1>9. CurrentInv'
  BY <1>1, <1>2, <1>3, <1>4, <1>6, GoesOnCurrent DEF IInv
<1> QED
  BY <1>7, <1>8, <1>9 DEF IInv

-----------------------------------------------------------------------------
(* The rest of the handlers                                                *)

\* A request begins that has nothing to do with Railway.
LEMMA BeginElsewhere ==
    ASSUME Shape, NEW new, BeginRequest(new), DOMAIN new = Fields, new.raced \in BOOLEAN,
           new.kind \notin {"deploy", "delete"}, new.step \notin DeploySteps \cup DeleteSteps
    PROVE  Quiet
<1> DEFINE t == CHOOSE x \in Free : TRUE
<1>1. t \in Free /\ tasks' = [tasks EXCEPT ![t] = new]
  BY DEF BeginRequest
<1>2. t \in Tasks
  BY <1>1 DEF Free, Tasks
<1> HIDE DEF t
<1> QED
  BY <1>1, <1>2, QuietOther

LEMMA SettingsSteps ==
    ASSUME IInv,
           \/ \E p \in Patches : BeginSettings(p)
           \/ \E t \in Slots : CheckFallback(t) \/ SaveSettings(t) \/ SettingsFail(t)
           \/ \E u \in Urls, p \in Patches : StoreEdits(u, p)
    PROVE  IInv'
<1>1. ASSUME NEW p \in Patches, BeginSettings(p)
      PROVE  IInv'
  <2> DEFINE data == [new |-> Normalize(p), seen |-> settings[store.url]]
             new == [Idle EXCEPT !.kind = "settings", !.step = "check", !.url = store.url, !.data = data]
  <2>1. BeginRequest(new) /\ UNCHANGED <<store, creds, cloud, gone, fresh>>
    BY <1>1 DEF BeginSettings, history
  <2>2. /\ DOMAIN new = Fields /\ new.raced \in BOOLEAN /\ new.kind = "settings" /\ new.step = "check"
    BY IdleFields DEF Idle
  <2> HIDE DEF new
  <2>3. Quiet
    BY <2>1, <2>2, BeginElsewhere DEF IInv, DeploySteps, DeleteSteps
  <2> QED
    BY <2>1, <2>3, AwayStep
<1>2. ASSUME NEW t \in Slots, CheckFallback(t)
      PROVE  IInv'
  <2>1. /\ tasks[t].step = "check" /\ UNCHANGED <<store, creds, cloud, gone, fresh>> /\ t \in Tasks
    BY <1>2 DEF CheckFallback, history, Tasks
  <2>2. CASE Ends(t)
    BY <2>1, <2>2, QuietEnds, AwayStep DEF IInv
  <2>3. CASE Goes(t, "save")
    <3>1. PICK new : new = [tasks[t] EXCEPT !.step = "save"]
      OBVIOUS
    <3>2. /\ DOMAIN new = Fields /\ new.raced \in BOOLEAN /\ new.kind = tasks[t].kind /\ new.step = "save"
          /\ tasks' = [tasks EXCEPT ![t] = new]
      BY <2>1, <2>3, <3>1, IdleFields DEF Goes, IInv, Shape
    <3>3. new.kind \notin {"deploy", "delete"}
      BY <2>1, <3>2 DEF IInv, Shape
    <3>4. Quiet
      BY <2>1, <3>2, <3>3, QuietOther DEF IInv, DeploySteps, DeleteSteps
    <3> QED
      BY <2>1, <3>4, AwayStep
  <2> QED
    BY <1>2, <2>2, <2>3 DEF CheckFallback
<1>3. ASSUME NEW t \in Slots, SaveSettings(t) \/ SettingsFail(t)
      PROVE  IInv'
  <2>1. Ends(t) /\ UNCHANGED <<store, creds, cloud, gone, fresh>> /\ t \in Tasks
    BY <1>3 DEF SaveSettings, SettingsFail, history, Tasks
  <2> QED
    BY <2>1, QuietEnds, AwayStep DEF IInv
<1>4. ASSUME NEW u \in Urls, NEW p \in Patches, StoreEdits(u, p)
      PROVE  IInv'
  <2>1. UNCHANGED <<store, creds, cloud, tasks, gone, fresh>>
    BY <1>4 DEF StoreEdits
  <2> QED
    BY <2>1, QuietSame, AwayStep DEF IInv
<1> QED
  BY <1>1, <1>2, <1>3, <1>4

LEMMA FetchedQuiet ==
    ASSUME Shape, NEW t \in Tasks, NEW s, NEW done, tasks[t].step = "fetch", Fetched(t, s, done)
    PROVE  Quiet
<1>1. CASE NextStep(t, s, done) = "idle"
  BY <1>1, QuietEnds DEF Fetched, Ends
<1>2. CASE NextStep(t, s, done) # "idle"
  <2>1. PICK new : new = [tasks[t] EXCEPT !.todo = @ \ {s}, !.done = done, !.step = NextStep(t, s, done)]
    OBVIOUS
  <2>2. NextStep(t, s, done) \in {"fetch", "rows"}
    BY <1>2 DEF NextStep
  <2>3. /\ DOMAIN new = Fields /\ new.raced \in BOOLEAN /\ new.kind = tasks[t].kind
        /\ new.step = NextStep(t, s, done) /\ tasks' = [tasks EXCEPT ![t] = new]
    BY <1>2, <2>1, IdleFields DEF Fetched, Shape
  <2>4. new.kind \notin {"deploy", "delete"}
    BY <2>3 DEF Shape
  <2> QED
    BY <2>2, <2>3, <2>4, QuietOther DEF DeploySteps, DeleteSteps
<1> QED
  BY <1>1, <1>2

LEMMA RateSteps ==
    ASSUME IInv,
           \/ BeginRefresh \/ \E due \in (SUBSET Sources) \ {{}} : BeginLoop(due)
           \/ \E t \in Tasks : \/ RateStep(t) \/ CopyFails(t)
                               \/ \E s \in Sources : FetchFails(t, s)
           \/ \E s \in Sources : Publish(s)
    PROVE  IInv'
<1>1. UNCHANGED <<store, creds, cloud, gone, fresh>>
  BY DEF BeginRefresh, BeginLoop, RateStep, CopyFails, FetchFails, Fetch, Select, CopyRates, Publish, history
<1>2. CASE BeginRefresh
  <2> DEFINE new == [Idle EXCEPT !.kind = "refresh", !.step = "fetch", !.todo = Sources]
  <2>1. BeginRequest(new)
    BY <1>2 DEF BeginRefresh
  <2>2. /\ DOMAIN new = Fields /\ new.raced \in BOOLEAN /\ new.kind = "refresh" /\ new.step = "fetch"
    BY IdleFields DEF Idle
  <2> HIDE DEF new
  <2>3. Quiet
    BY <2>1, <2>2, BeginElsewhere DEF IInv, DeploySteps, DeleteSteps
  <2> QED
    BY <1>1, <2>3, AwayStep
<1>3. ASSUME NEW due, BeginLoop(due)
      PROVE  IInv'
  <2>1. PICK new : new = [Idle EXCEPT !.kind = "refresh", !.step = "fetch", !.todo = due]
    OBVIOUS
  <2>2. /\ DOMAIN new = Fields /\ new.raced \in BOOLEAN /\ new.kind = "refresh" /\ new.step = "fetch"
    BY <2>1, IdleFields DEF Idle
  <2>3. tasks' = [tasks EXCEPT ![Loop] = new] /\ Loop \in Tasks
    BY <1>3, <2>1 DEF BeginLoop, Tasks
  <2>4. Quiet
    BY <2>2, <2>3, QuietOther DEF IInv, DeploySteps, DeleteSteps
  <2> QED
    BY <1>1, <2>4, AwayStep
<1>4. ASSUME NEW t \in Tasks, NEW s \in Sources, Fetch(t, s) \/ FetchFails(t, s)
      PROVE  IInv'
  <2>1. tasks[t].step = "fetch" /\ \E done : Fetched(t, s, done)
    BY <1>4 DEF Fetch, FetchFails
  <2>2. Quiet
    BY <2>1, FetchedQuiet DEF IInv
  <2> QED
    BY <1>1, <2>2, AwayStep
<1>5. ASSUME NEW t \in Tasks, Select(t)
      PROVE  IInv'
  <2>1. CASE Ends(t)
    BY <1>1, <2>1, QuietEnds, AwayStep DEF IInv
  <2>2. CASE tasks' = [tasks EXCEPT ![t].step = "copy", ![t].url = store.url, ![t].todo = {},
                                    ![t].done = {}, ![t].data = RateSettings(t)]
    <3>1. PICK new : new = [tasks[t] EXCEPT !.step = "copy", !.url = store.url, !.todo = {},
                                            !.done = {}, !.data = RateSettings(t)]
      OBVIOUS
    <3>2. /\ DOMAIN new = Fields /\ new.raced \in BOOLEAN /\ new.kind = tasks[t].kind /\ new.step = "copy"
          /\ tasks' = [tasks EXCEPT ![t] = new]
      BY <2>2, <3>1, IdleFields DEF IInv, Shape
    <3>3. new.kind \notin {"deploy", "delete"}
      BY <1>5, <3>2 DEF Select, IInv, Shape
    <3>4. Quiet
      BY <3>2, <3>3, QuietOther DEF IInv, DeploySteps, DeleteSteps
    <3> QED
      BY <1>1, <3>4, AwayStep
  <2> QED
    BY <1>5, <2>1, <2>2 DEF Select
<1>6. ASSUME NEW t \in Tasks, CopyRates(t) \/ CopyFails(t)
      PROVE  IInv'
  <2>1. Ends(t)
    BY <1>6 DEF CopyRates, CopyFails
  <2> QED
    BY <1>1, <2>1, QuietEnds, AwayStep DEF IInv
<1>7. ASSUME NEW s \in Sources, Publish(s)
      PROVE  IInv'
  <2>1. Quiet
    BY <1>7, QuietSame DEF Publish, IInv
  <2> QED
    BY <1>1, <2>1, AwayStep
<1> QED
  BY <1>2, <1>3, <1>4, <1>5, <1>6, <1>7 DEF RateStep

LEMMA HealthSteps ==
    ASSUME IInv, BeginPing \/ EndPing \/ Restart
    PROVE  IInv'
<1>1. UNCHANGED <<creds, cloud, gone, fresh>>
  BY DEF BeginPing, EndPing, Restart, history
<1>2. store'.url = store.url /\ (store'.status = "none" => store.status = "none")
  <2>1. CASE UNCHANGED store
    BY <2>1
  <2>2. CASE \E status \in Health : store' = [store EXCEPT !.status = status]
    BY <2>2 DEF Health
  <2> QED
    BY <2>1, <2>2 DEF BeginPing, EndPing, Restart
<1>3. Quiet
  <2>1. CASE UNCHANGED tasks
    BY <2>1, QuietSame DEF IInv
  <2>2. CASE tasks' = [t \in Tasks |-> Idle]
    BY <2>2, IdleFields DEF Quiet, Elsewhere, WellFormed, Fields, DeploySteps, DeleteSteps
  <2> QED
    BY <2>1, <2>2 DEF BeginPing, EndPing, Restart
<1> QED
  BY <1>1, <1>2, <1>3, AwayStep

-----------------------------------------------------------------------------
(* Theorems                                                                *)

LEMMA InitIInv == Init => IInv
<1> SUFFICES ASSUME Init PROVE IInv
  OBVIOUS
<1>1. \A t \in Tasks : tasks[t] = Idle
  BY DEF Init
<1>2. Shape
  <2>1. DOMAIN creds = Keys /\ DOMAIN railway = Envs /\ \A e \in Envs : DOMAIN railway[e] = Keys
    BY DEF Init, Unset, Deployment
  <2>2. DOMAIN tasks = Tasks /\ DOMAIN running = Envs /\ gone \subseteq Providers /\ fresh \subseteq Envs
    BY <2>1 DEF Init
  <2> QED
    BY <1>1, <2>1, <2>2, IdleFields DEF Shape, Fields
<1>3. Alone /\ DeletedInv
  BY <1>1, IdleFields DEF Init, Alone, DeletedInv, Removed, Cleared, DeletedIsUndeployed, Railwayish
<1>4. CurrentInv
  BY <1>1, IdleFields DEF Init, CurrentInv, Unborn, Stale, Prepared, DeployedIsCurrent, Railwayish
<1> QED
  BY <1>2, <1>3, <1>4 DEF IInv

LEMMA StepIInv ==
    ASSUME IInv, [Next]_vars
    PROVE  IInv'
<1>1. CASE UNCHANGED vars
  <2>1. UNCHANGED <<store, creds, cloud, tasks, gone, fresh>>
    BY <1>1 DEF vars, cloud
  <2> QED
    BY <2>1, QuietSame, AwayStep DEF IInv
<1>2. CASE CreateStore \/ DeleteStore \/ \E u \in Urls : ChangeUrl(u)
  BY <1>2, CreateStoreStep, DeleteStoreStep, ChangeUrlStep
<1>3. CASE \E status \in {store.status, "active", "paused"}, linked \in BOOLEAN : UpdateStore(status, linked)
  BY <1>3, UpdateStoreStep
<1>4. CASE \E k \in Providers : BeginDelete(k) \/ \E v \in Values : SetCredential(k, v)
  BY <1>4, BeginDeleteStep, SetCredentialStep
<1>5. CASE \E e \in Envs : BeginDeploy(e)
  BY <1>5, BeginDeployStep
<1>6. CASE \E t \in Slots : \/ DeleteVariable(t) \/ DeleteFails(t) \/ DeleteLocal(t)
                            \/ Collect(t) \/ Push(t) \/ Redeploy(t) \/ DeployFails(t)
  BY <1>6, DeleteVariableStep, DeleteFailsStep, DeleteLocalStep,
     CollectStep, PushStep, RedeployStep, DeployFailsStep
<1>7. CASE \/ \E p \in Patches : BeginSettings(p)
           \/ \E t \in Slots : CheckFallback(t) \/ SaveSettings(t) \/ SettingsFail(t)
           \/ \E u \in Urls, p \in Patches : StoreEdits(u, p)
  BY <1>7, SettingsSteps
<1>8. CASE \/ BeginRefresh \/ \E due \in (SUBSET Sources) \ {{}} : BeginLoop(due)
           \/ \E t \in Tasks : \/ RateStep(t) \/ CopyFails(t)
                               \/ \E s \in Sources : FetchFails(t, s)
           \/ \E s \in Sources : Publish(s)
  BY <1>8, RateSteps
<1>9. CASE BeginPing \/ EndPing \/ Restart
  BY <1>9, HealthSteps
<1> QED
  BY <1>1, <1>2, <1>3, <1>4, <1>5, <1>6, <1>7, <1>8, <1>9 DEF Next

\* Whatever requests, loops, failures and restarts come between, requests on
\* Railway know of each other, and those that were alone are where they
\* should be.
THEOREM Invariance == Spec => []IInv
<1>1. Init => IInv
  BY InitIInv
<1>2. IInv /\ [Next]_vars => IInv'
  BY StepIInv
<1> QED
  BY <1>1, <1>2, PTL DEF Spec

\* delete_credential: a key that a request deleted, with no deploy beside it,
\* is in no environment of Railway, until it is set again.
THEOREM DeletionReachesRailway == Spec => []DeletedIsUndeployed
<1>1. IInv => DeletedIsUndeployed
  BY DEF IInv, DeletedInv
<1> QED
  BY <1>1, Invariance, PTL

\* deploy_credentials: an environment whose last deploy nothing overlapped
\* runs with the store's database and with every credential it has.
THEOREM DeployIsCurrent == Spec => []DeployedIsCurrent
<1>1. IInv => DeployedIsCurrent
  BY DEF IInv, CurrentInv
<1> QED
  BY <1>1, Invariance, PTL

-----------------------------------------------------------------------------
(* Runtime settings: a model and its provider                              *)

Row == [status : {"none", "active", "paused", "error", "deleted"}, url : Urls \cup {None},
        linked : BOOLEAN]

\* An edit under way that is good for the settings it has seen.
Fit(data) ==
    /\ {"provider", "model"} \subseteq DOMAIN data.seen
    /\ "model" \in DOMAIN data.new => /\ data.new.model \in Models
                                      /\ data.new.model[1] = Merged(data.seen, data.new).provider
    /\ "provider" \in DOMAIN data.new => "model" \in DOMAIN data.new

Agrees(s) == s.model[1] = s.provider

SettingsInv ==
    /\ TypeOK
    /\ store \in Row /\ (store.status # "none" => store.url \in Urls)
    /\ \A u \in Urls : {"provider", "model"} \subseteq DOMAIN settings[u]
    /\ \A u \in Urls \ mixed : Agrees(settings[u])
    /\ \A t \in Tasks : tasks[t].step \in {"check", "save"} => Fit(tasks[t].data)

\* No edit and no fetch begins, and those at work keep what they have in hand.
Watched == {"check", "save", "fetch"}
Stays(t) == \/ tasks'[t].step = tasks[t].step /\ tasks'[t].data = tasks[t].data
            \/ tasks'[t].step \notin Watched
Tame == \A t \in Tasks : Stays(t)

\* A step beside the settings.
Beside == /\ UNCHANGED <<store, settings, mixed, rates, provider, ping>>
          /\ work' = work \/ Work

LEMMA WorkTyped ==
    ASSUME work \in 0..MaxWork, work' = work \/ Work
    PROVE  work' \in 0..MaxWork
BY MasterAssumption DEF Work

LEMMA LockKept ==
    ASSUME SettingsInv, Tame
    PROVE  /\ \A t, u \in Tasks : tasks'[t].step = "fetch" /\ tasks'[u].step = "fetch" => t = u
           /\ \A t \in Tasks : tasks'[t].step \in {"check", "save"} => Fit(tasks'[t].data)
<1>1. \A t \in Tasks : tasks'[t].step \in Watched => /\ tasks'[t].step = tasks[t].step
                                                     /\ tasks'[t].data = tasks[t].data
  BY DEF Tame, Stays
<1>2. \A t, u \in Tasks : tasks[t].step = "fetch" /\ tasks[u].step = "fetch" => t = u
  BY DEF SettingsInv, TypeOK
<1> QED
  BY <1>1, <1>2 DEF SettingsInv, Watched

\* What is left to show of a step.
LEMMA SettingsKept ==
    ASSUME SettingsInv, Shape', store' \in Row, store'.status # "none" => store'.url \in Urls,
           DOMAIN settings' = Urls,
           \A u \in Urls : /\ {"provider", "model"} \subseteq DOMAIN settings'[u]
                           /\ settings'[u].model \in Models
                           /\ u \notin mixed' => Agrees(settings'[u]),
           rates' \in [Sources -> Nat], provider' \in [Sources -> Nat],
           ping' \in {"idle", "sent"}, work' = work \/ Work,
           \A t, u \in Tasks : tasks'[t].step = "fetch" /\ tasks'[u].step = "fetch" => t = u,
           \A t \in Tasks : tasks'[t].step \in {"check", "save"} => Fit(tasks'[t].data)
    PROVE  SettingsInv'
<1>1. work' \in 0..MaxWork
  BY WorkTyped DEF SettingsInv, TypeOK
<1>2. /\ store'.status \in {"none", "active", "paused", "error", "deleted"}
      /\ store'.url \in Urls \cup {None} /\ store'.linked \in BOOLEAN
  BY DEF Row
<1>3. DOMAIN creds' = Keys /\ DOMAIN railway' = Envs /\ DOMAIN running' = Envs
  BY DEF Shape
<1>4. TypeOK'
  BY <1>1, <1>2, <1>3 DEF TypeOK
<1>5. \A t \in Tasks : (tasks[t].step \in {"check", "save"} => Fit(tasks[t].data))'
  BY DEF Fit
<1>6. \A u \in Urls \ mixed' : Agrees(settings[u])'
  BY DEF Agrees
<1> QED
  BY <1>4, <1>5, <1>6 DEF SettingsInv

\* Settings that no step writes.
LEMMA SettingsSame ==
    ASSUME SettingsInv, UNCHANGED <<settings, mixed>>
    PROVE  /\ DOMAIN settings' = Urls
           /\ \A u \in Urls : /\ {"provider", "model"} \subseteq DOMAIN settings'[u]
                              /\ settings'[u].model \in Models
                              /\ u \notin mixed' => Agrees(settings'[u])
BY DEF SettingsInv, TypeOK, Agrees

LEMMA BesideKeeps ==
    ASSUME SettingsInv, Shape', Beside, Tame
    PROVE  SettingsInv'
<1>1. /\ store' \in Row /\ (store'.status # "none" => store'.url \in Urls)
      /\ rates' \in [Sources -> Nat] /\ provider' \in [Sources -> Nat]
      /\ ping' \in {"idle", "sent"} /\ (work' = work \/ Work) /\ UNCHANGED <<settings, mixed>>
  BY DEF Beside, SettingsInv, TypeOK
<1> QED
  BY <1>1, SettingsSame, LockKept, SettingsKept

LEMMA TameSame ==
    ASSUME UNCHANGED tasks
    PROVE  Tame
BY DEF Tame, Stays

LEMMA TameRaced ==
    ASSUME Shape, tasks' = Raced(tasks)
    PROVE  Tame
BY RacedTasks DEF Tame, Stays

LEMMA TameOne ==
    ASSUME Shape, NEW t \in Tasks, NEW new, new.step \notin Watched,
           tasks' = [tasks EXCEPT ![t] = new] \/ tasks' = [Raced(tasks) EXCEPT ![t] = new]
    PROVE  Tame
<1>1. tasks'[t] = new
  BY RacedTasks DEF Shape
<1>2. ASSUME NEW u \in Tasks, u # t
      PROVE  tasks'[u].step = tasks[u].step /\ tasks'[u].data = tasks[u].data
  BY <1>2, RacedTasks DEF Shape
<1> QED
  BY <1>1, <1>2 DEF Tame, Stays

LEMMA TameEnds ==
    ASSUME Shape, NEW t \in Tasks, Ends(t)
    PROVE  Tame
BY TameOne, IdleFields DEF Ends, Watched

\* A request that begins: a free slot takes it.
LEMMA Begun ==
    ASSUME Shape, NEW new, BeginRequest(new), DOMAIN new = Fields
    PROVE  \E t \in Tasks :
             /\ Work /\ tasks'[t].step = new.step /\ tasks'[t].data = new.data
             /\ \A u \in Tasks : u # t => /\ tasks'[u].step = tasks[u].step
                                          /\ tasks'[u].data = tasks[u].data
<1> DEFINE t == CHOOSE x \in Free : TRUE
           marked == [new EXCEPT !.raced = @ \/ \E u \in Tasks : Railwayish(u)]
<1>1. /\ t \in Free /\ Work
      /\ tasks' = [Raced(tasks) EXCEPT ![t] = marked] \/ tasks' = [tasks EXCEPT ![t] = new]
  BY DEF BeginRequest
<1>2. t \in Tasks
  BY <1>1 DEF Free, Tasks
<1>3. marked.step = new.step /\ marked.data = new.data
  BY IdleFields
<1> HIDE DEF t, marked
<1>4. \A u \in Tasks : u # t => tasks'[u].step = tasks[u].step /\ tasks'[u].data = tasks[u].data
  <2>1. CASE tasks' = [Raced(tasks) EXCEPT ![t] = marked]
    BY <1>2, <2>1, RacedTasks DEF Shape
  <2>2. CASE tasks' = [tasks EXCEPT ![t] = new]
    BY <1>2, <2>2 DEF Shape
  <2> QED
    BY <1>1, <2>1, <2>2
<1>5. tasks'[t].step = new.step /\ tasks'[t].data = new.data
  <2>1. CASE tasks' = [Raced(tasks) EXCEPT ![t] = marked]
    BY <1>2, <1>3, <2>1, RacedTasks DEF Shape
  <2>2. CASE tasks' = [tasks EXCEPT ![t] = new]
    BY <1>2, <2>2 DEF Shape
  <2> QED
    BY <1>1, <2>1, <2>2
<1> QED
  BY <1>1, <1>2, <1>4, <1>5

LEMMA TameBegun ==
    ASSUME Shape, NEW new, BeginRequest(new), DOMAIN new = Fields, new.step \notin Watched
    PROVE  Tame /\ Work
BY Begun DEF Tame, Stays

\* Requests of the dashboard on Railway and on the credentials.
LEMMA RailwayBeside ==
    ASSUME IInv, IInv', SettingsInv,
           \/ DeleteStore \/ \E u \in Urls : ChangeUrl(u)
           \/ \E k \in Providers : BeginDelete(k) \/ \E v \in Values : SetCredential(k, v)
           \/ \E e \in Envs : BeginDeploy(e)
           \/ \E t \in Slots : \/ DeleteVariable(t) \/ DeleteFails(t) \/ DeleteLocal(t)
                               \/ Collect(t) \/ Push(t) \/ Redeploy(t) \/ DeployFails(t)
    PROVE  SettingsInv'
<1>0. Shape /\ Shape'
  BY DEF IInv
<1>1. CASE \E k \in Providers, v \in Values : SetCredential(k, v)
  <2>1. Beside /\ tasks' = Raced(tasks)
    BY <1>1 DEF SetCredential, Edit, Beside, world
  <2> QED
    BY <1>0, <2>1, TameRaced, BesideKeeps
<1>2. ASSUME NEW k \in Providers, BeginDelete(k)
      PROVE  SettingsInv'
  <2>1. PICK step \in {"railway", "local"} : step = IF store.linked THEN "railway" ELSE "local"
    OBVIOUS
  <2> DEFINE new == [Idle EXCEPT !.kind = "delete", !.key = k, !.todo = EnvsOf,
                                 !.step = step, !.raced = ~store.linked]
  <2>2. BeginRequest(new)
    BY <1>2, <2>1 DEF BeginDelete
  <2>3. DOMAIN new = Fields /\ new.step = step
    BY IdleFields DEF Idle
  <2> HIDE DEF new
  <2>4. Tame /\ Work
    BY <1>0, <2>2, <2>3, TameBegun DEF Watched
  <2>5. Beside
    BY <1>2, <2>4 DEF BeginDelete, Beside, world, history
  <2> QED
    BY <1>0, <2>4, <2>5, BesideKeeps
<1>3. ASSUME NEW e \in Envs, BeginDeploy(e)
      PROVE  SettingsInv'
  <2> DEFINE new == [Idle EXCEPT !.kind = "deploy", !.step = "read", !.env = e, !.url = store.url]
  <2>2. BeginRequest(new)
    BY <1>3 DEF BeginDeploy
  <2>3. DOMAIN new = Fields /\ new.step = "read"
    BY IdleFields DEF Idle
  <2> HIDE DEF new
  <2>4. Tame /\ Work
    BY <1>0, <2>2, <2>3, TameBegun DEF Watched
  <2>5. Beside
    BY <1>3, <2>4 DEF BeginDeploy, Beside, world, history
  <2> QED
    BY <1>0, <2>4, <2>5, BesideKeeps
<1>4. ASSUME NEW t \in Slots, DeleteVariable(t) \/ DeleteFails(t) \/ DeleteLocal(t)
      PROVE  SettingsInv'
  <2>1. Beside /\ t \in Tasks
    BY <1>4 DEF DeleteVariable, DeleteFails, DeleteLocal, Beside, world, history, Tasks
  <2>2. CASE DeleteVariable(t)
    <3> PICK e \in tasks[t].todo :
          tasks' = [tasks EXCEPT ![t].todo = @ \ {e},
                                 ![t].step = IF tasks[t].todo = {e} THEN "local" ELSE @]
      BY <2>2 DEF DeleteVariable
    <3> DEFINE new == [[tasks[t] EXCEPT !.todo = @ \ {e}]
                         EXCEPT !.step = IF tasks[t].todo = {e} THEN "local" ELSE @]
    <3>1. tasks[t].step = "railway" /\ DOMAIN tasks[t] = Fields
      BY <1>0, <2>1, <2>2 DEF DeleteVariable, Shape
    <3>2. new.step \in {"local", "railway"}
      BY <3>1, IdleFields
    <3>3. tasks' = [tasks EXCEPT ![t] = new]
      BY <1>0, <2>1, <3>1, IdleFields DEF Shape
    <3> HIDE DEF new
    <3> QED
      BY <1>0, <2>1, <3>2, <3>3, TameOne, BesideKeeps DEF Watched
  <2>3. CASE DeleteFails(t)
    BY <1>0, <2>1, <2>3, TameEnds, BesideKeeps DEF DeleteFails
  <2>4. CASE DeleteLocal(t)
    BY <1>0, <2>1, <2>4, TameOne, BesideKeeps, IdleFields DEF DeleteLocal, Watched
  <2> QED
    BY <1>4, <2>2, <2>3, <2>4
<1>5. ASSUME NEW t \in Slots, Collect(t) \/ Push(t) \/ Redeploy(t) \/ DeployFails(t)
      PROVE  SettingsInv'
  <2>1. Beside /\ t \in Tasks
    BY <1>5 DEF Collect, Push, Redeploy, DeployFails, Beside, world, history, Tasks
  <2>2. CASE Ends(t)
    BY <1>0, <2>1, <2>2, TameEnds, BesideKeeps
  <2>3. CASE tasks' = [tasks EXCEPT ![t].step = "push", ![t].data = Deployed(t)]
    <3> DEFINE new == [tasks[t] EXCEPT !.step = "push", !.data = Deployed(t)]
    <3>1. tasks' = [tasks EXCEPT ![t] = new] /\ new.step = "push"
      BY <1>0, <2>1, <2>3, IdleFields DEF Shape
    <3> HIDE DEF new
    <3> QED
      BY <1>0, <2>1, <3>1, TameOne, BesideKeeps DEF Watched
  <2>4. CASE Goes(t, "redeploy")
    <3> DEFINE new == [tasks[t] EXCEPT !.step = "redeploy"]
    <3>1. tasks' = [tasks EXCEPT ![t] = new] /\ new.step = "redeploy"
      BY <1>0, <2>1, <2>4, IdleFields DEF Shape, Goes
    <3> HIDE DEF new
    <3> QED
      BY <1>0, <2>1, <3>1, TameOne, BesideKeeps DEF Watched
  <2> QED
    BY <1>5, <2>2, <2>3, <2>4 DEF Collect, Push, Redeploy, DeployFails
<1>6. CASE DeleteStore \/ \E u \in Urls : ChangeUrl(u)
  <2>1. /\ tasks' = Raced(tasks) /\ Work
        /\ UNCHANGED <<settings, mixed, rates, provider, ping>>
    BY <1>6 DEF DeleteStore, ChangeUrl, Edit, world
  <2>2. /\ store' \in Row
        /\ store'.url \in Urls
    <3>1. store \in Row /\ store.url \in Urls
      BY <1>6 DEF SettingsInv, DeleteStore, ChangeUrl, Edit, Exists
    <3>2. CASE DeleteStore
      BY <3>1, <3>2 DEF DeleteStore, Row
    <3>3. CASE \E u \in Urls : ChangeUrl(u)
      BY <3>1, <3>3 DEF ChangeUrl, Row
    <3> QED
      BY <1>6, <3>2, <3>3
  <2>3. /\ rates' \in [Sources -> Nat] /\ provider' \in [Sources -> Nat]
        /\ ping' \in {"idle", "sent"} /\ (work' = work \/ Work)
    BY <2>1 DEF SettingsInv, TypeOK
  <2>4. Tame
    BY <1>0, <2>1, TameRaced
  <2> QED
    BY <1>0, <2>1, <2>2, <2>3, <2>4, SettingsSame, LockKept, SettingsKept
<1> QED
  BY <1>1, <1>2, <1>3, <1>4, <1>5, <1>6

\* _normalize_runtime_fields
LEMMA NormalizeFits ==
    ASSUME NEW p \in Patches
    PROVE  LET n == Normalize(p) IN
           /\ "model" \in DOMAIN n => n.model \in Models
           /\ "provider" \in DOMAIN n => "model" \in DOMAIN n
<1>1. /\ "provider" \in DOMAIN p => p.provider \in Providers
      /\ "model" \in DOMAIN p => p.model \in Models
  BY MasterAssumption
<1>2. CASE "provider" \in DOMAIN p /\ "model" \notin DOMAIN p
  <2> DEFINE m == <<p.provider, 1>>
             n == [k \in DOMAIN p \cup {"model"} |-> IF k = "model" THEN m ELSE p[k]]
  <2>1. m \in Models
    BY <1>1, <1>2 DEF Models
  <2>2. Normalize(p) = n
    BY <1>2 DEF Normalize
  <2> HIDE DEF m
  <2>3. DOMAIN n = DOMAIN p \cup {"model"} /\ n.model = m
    OBVIOUS
  <2> HIDE DEF n
  <2> QED
    BY <2>1, <2>2, <2>3
<1>3. CASE ~("provider" \in DOMAIN p /\ "model" \notin DOMAIN p)
  BY <1>1, <1>3 DEF Normalize
<1> QED
  BY <1>2, <1>3

\* What is saved over settings that are as they were seen.
LEMMA SavedAgrees ==
    ASSUME NEW data, Fit(data), NEW s, {"provider", "model"} \subseteq DOMAIN s, s.model \in Models
    PROVE  LET after == Merged(s, data.new) IN
           /\ {"provider", "model"} \subseteq DOMAIN after /\ after.model \in Models
           /\ Agrees(s) /\ Fallback(s) = Fallback(data.seen) => Agrees(after)
<1> DEFINE after == Merged(s, data.new)
           wanted == Merged(data.seen, data.new)
<1>1. /\ DOMAIN after = DOMAIN s
      /\ after.model = IF "model" \in DOMAIN data.new THEN data.new.model ELSE s.model
      /\ after.provider = IF "provider" \in DOMAIN data.new THEN data.new.provider ELSE s.provider
  BY DEF Merged
<1>2. wanted.provider = IF "provider" \in DOMAIN data.new THEN data.new.provider
                        ELSE data.seen.provider
  BY DEF Merged, Fit
<1>3. /\ "model" \in DOMAIN data.new => /\ data.new.model \in Models
                                        /\ data.new.model[1] = wanted.provider
      /\ "provider" \in DOMAIN data.new => "model" \in DOMAIN data.new
  BY DEF Fit
<1>4. Fallback(s) = Fallback(data.seen) => s.provider = data.seen.provider
  BY DEF Fallback
<1> HIDE DEF after, wanted
<1>5. Agrees(s) /\ Fallback(s) = Fallback(data.seen) => Agrees(after)
  BY <1>1, <1>2, <1>3, <1>4 DEF Agrees
<1>6. {"provider", "model"} \subseteq DOMAIN after /\ after.model \in Models
  BY <1>1, <1>3
<1> QED
  BY <1>5, <1>6 DEF after

LEMMA EditsKept ==
    ASSUME IInv, IInv', SettingsInv,
           \/ \E p \in Patches : BeginSettings(p)
           \/ \E t \in Slots : CheckFallback(t) \/ SaveSettings(t) \/ SettingsFail(t)
           \/ \E u \in Urls, p \in Patches : StoreEdits(u, p)
    PROVE  SettingsInv'
<1>0. Shape /\ Shape'
  BY DEF IInv
<1>1. ASSUME NEW p \in Patches, BeginSettings(p)
      PROVE  SettingsInv'
  <2> DEFINE now == settings[store.url]
             data == [new |-> Normalize(p), seen |-> now]
             new == [Idle EXCEPT !.kind = "settings", !.step = "check", !.url = store.url, !.data = data]
  <2>1. /\ BeginRequest(new) /\ ValidPatch(Normalize(p), now)
        /\ UNCHANGED <<store, settings, mixed, rates, provider, ping>>
    BY <1>1 DEF BeginSettings, world, history
  <2>2. DOMAIN new = Fields /\ new.step = "check" /\ new.data = data
    BY IdleFields DEF Idle
  <2>3. {"provider", "model"} \subseteq DOMAIN now
    BY <1>1 DEF BeginSettings, Exists, SettingsInv
  <2>4. Fit(data)
    <3>1. data.seen = now /\ data.new = Normalize(p)
      OBVIOUS
    <3> HIDE DEF data, now
    <3> QED
      BY <2>1, <2>3, <3>1, NormalizeFits DEF Fit, ValidPatch
  <2> HIDE DEF new, data
  <2> PICK t \in Tasks :
        /\ Work /\ tasks'[t].step = "check" /\ tasks'[t].data = data
        /\ \A u \in Tasks : u # t => /\ tasks'[u].step = tasks[u].step
                                     /\ tasks'[u].data = tasks[u].data
    BY <1>0, <2>1, <2>2, Begun
  <2>5. /\ \A x, y \in Tasks : tasks'[x].step = "fetch" /\ tasks'[y].step = "fetch" => x = y
        /\ \A x \in Tasks : tasks'[x].step \in {"check", "save"} => Fit(tasks'[x].data)
    BY <2>4 DEF SettingsInv, TypeOK
  <2>6. /\ store' \in Row /\ (store'.status # "none" => store'.url \in Urls)
        /\ rates' \in [Sources -> Nat] /\ provider' \in [Sources -> Nat]
        /\ ping' \in {"idle", "sent"}
    BY <2>1 DEF SettingsInv, TypeOK
  <2> QED
    BY <1>0, <2>1, <2>5, <2>6, SettingsSame, SettingsKept
<1>2. ASSUME NEW t \in Slots, CheckFallback(t) \/ SettingsFail(t)
      PROVE  SettingsInv'
  <2>1. Beside /\ t \in Tasks
    BY <1>2 DEF CheckFallback, SettingsFail, Beside, world, history, Tasks
  <2>2. CASE Ends(t)
    BY <1>0, <2>1, <2>2, TameEnds, BesideKeeps
  <2>3. CASE CheckFallback(t) /\ Goes(t, "save")
    <3> DEFINE new == [tasks[t] EXCEPT !.step = "save"]
    <3>1. tasks' = [tasks EXCEPT ![t] = new] /\ new.step = "save" /\ new.data = tasks[t].data
      BY <1>0, <2>1, <2>3, IdleFields DEF Shape, Goes
    <3> HIDE DEF new
    <3>2. tasks'[t] = new /\ \A u \in Tasks : u # t => tasks'[u] = tasks[u]
      BY <1>0, <2>1, <3>1 DEF Shape
    <3>3. tasks[t].step = "check"
      BY <2>3 DEF CheckFallback
    <3>4. /\ \A x, y \in Tasks : tasks'[x].step = "fetch" /\ tasks'[y].step = "fetch" => x = y
          /\ \A x \in Tasks : tasks'[x].step \in {"check", "save"} => Fit(tasks'[x].data)
      BY <2>1, <3>1, <3>2, <3>3 DEF SettingsInv, TypeOK
    <3>5. /\ store' \in Row /\ (store'.status # "none" => store'.url \in Urls)
          /\ rates' \in [Sources -> Nat] /\ provider' \in [Sources -> Nat]
          /\ ping' \in {"idle", "sent"} /\ (work' = work \/ Work) /\ UNCHANGED <<settings, mixed>>
      BY <2>1 DEF Beside, SettingsInv, TypeOK
    <3> QED
      BY <1>0, <3>4, <3>5, SettingsSame, SettingsKept
  <2> QED
    BY <1>2, <2>2, <2>3 DEF CheckFallback, SettingsFail
\* A database whose settings change under what an edit has seen is mixed.
<1>3. ASSUME NEW t \in Slots, SaveSettings(t)
      PROVE  SettingsInv'
  <2> DEFINE v == tasks[t].url
             after == Merged(settings[v], tasks[t].data.new)
  <2>1. /\ Ends(t) /\ t \in Tasks /\ tasks[t].step = "save"
        /\ settings' = [settings EXCEPT ![v] = after]
        /\ mixed' = IF Fallback(settings[v]) # Fallback(tasks[t].data.seen) THEN mixed \cup {v} ELSE mixed
        /\ UNCHANGED <<store, rates, provider, ping, work>>
    BY <1>3 DEF SaveSettings, world, Tasks
  <2>2. Fit(tasks[t].data)
    BY <2>1 DEF SettingsInv
  <2>3. ASSUME NEW u \in Urls
        PROVE  /\ {"provider", "model"} \subseteq DOMAIN settings'[u]
               /\ settings'[u].model \in Models
               /\ u \notin mixed' => Agrees(settings'[u])
    <3>1. /\ {"provider", "model"} \subseteq DOMAIN settings[u] /\ settings[u].model \in Models
          /\ DOMAIN settings = Urls /\ (u \notin mixed => Agrees(settings[u]))
      BY DEF SettingsInv, TypeOK
    <3>2. CASE u = v
      <4>1. settings'[u] = after
        BY <2>1, <3>1, <3>2
      <4>2. u \notin mixed' => Agrees(settings[u]) /\ Fallback(settings[u]) = Fallback(tasks[t].data.seen)
        BY <2>1, <3>1, <3>2
      <4> QED
        BY <2>2, <3>1, <3>2, <4>1, <4>2, SavedAgrees
    <3>3. CASE u # v
      <4>1. settings'[u] = settings[u] /\ (u \notin mixed' => u \notin mixed)
        BY <2>1, <3>1, <3>3
      <4> QED
        BY <3>1, <4>1
    <3> QED
      BY <3>2, <3>3
  <2>4. DOMAIN settings' = Urls
    BY <2>1 DEF SettingsInv, TypeOK
  <2>5. /\ store' \in Row /\ (store'.status # "none" => store'.url \in Urls)
        /\ rates' \in [Sources -> Nat] /\ provider' \in [Sources -> Nat]
        /\ ping' \in {"idle", "sent"} /\ work' = work
    BY <2>1 DEF SettingsInv, TypeOK
  <2>6. Tame
    BY <1>0, <2>1, TameEnds
  <2> QED
    BY <1>0, <2>3, <2>4, <2>5, <2>6, LockKept, SettingsKept
<1>4. ASSUME NEW v \in Urls, NEW p \in Patches, StoreEdits(v, p)
      PROVE  SettingsInv'
  <2> DEFINE after == Merged(settings[v], p)
  <2>1. /\ settings' = [settings EXCEPT ![v] = after]
        /\ mixed' = IF after.model[1] # after.provider THEN mixed \cup {v} ELSE mixed
        /\ UNCHANGED <<store, rates, provider, ping, tasks>> /\ Work
    BY <1>4 DEF StoreEdits, world
  <2>2. ASSUME NEW u \in Urls
        PROVE  /\ {"provider", "model"} \subseteq DOMAIN settings'[u]
               /\ settings'[u].model \in Models
               /\ u \notin mixed' => Agrees(settings'[u])
    <3>1. /\ {"provider", "model"} \subseteq DOMAIN settings[u] /\ settings[u].model \in Models
          /\ DOMAIN settings = Urls /\ (u \notin mixed => Agrees(settings[u]))
      BY DEF SettingsInv, TypeOK
    <3>2. CASE u = v
      <4>1. settings'[u] = after
        BY <2>1, <3>1, <3>2
      <4>2. DOMAIN after = DOMAIN settings[u] /\ after.model \in Models
        <5>1. /\ DOMAIN after = DOMAIN settings[u]
              /\ after.model = IF "model" \in DOMAIN p THEN p.model ELSE settings[u].model
          BY <3>1, <3>2 DEF Merged
        <5> QED
          BY <3>1, <5>1, MasterAssumption
      <4>3. u \notin mixed' => Agrees(after)
        BY <2>1, <3>2 DEF Agrees
      <4> QED
        BY <3>1, <4>1, <4>2, <4>3
    <3>3. CASE u # v
      <4>1. settings'[u] = settings[u] /\ (u \notin mixed' => u \notin mixed)
        BY <2>1, <3>1, <3>3
      <4> QED
        BY <3>1, <4>1
    <3> QED
      BY <3>2, <3>3
  <2>3. DOMAIN settings' = Urls
    BY <2>1 DEF SettingsInv, TypeOK
  <2>4. /\ store' \in Row /\ (store'.status # "none" => store'.url \in Urls)
        /\ rates' \in [Sources -> Nat] /\ provider' \in [Sources -> Nat]
        /\ ping' \in {"idle", "sent"}
    BY <2>1 DEF SettingsInv, TypeOK
  <2>5. Tame
    BY <2>1, TameSame
  <2> QED
    BY <1>0, <2>1, <2>2, <2>3, <2>4, <2>5, LockKept, SettingsKept
<1> QED
  BY <1>1, <1>2, <1>3, <1>4

LEMMA TameFetched ==
    ASSUME Shape, NEW t \in Tasks, NEW s, NEW done, tasks[t].step = "fetch", Fetched(t, s, done)
    PROVE  Tame
<1>0. DOMAIN tasks[t] = Fields
  BY DEF Shape
<1>1. CASE NextStep(t, s, done) = "idle"
  BY <1>1, TameEnds DEF Fetched, Ends
<1>2. CASE NextStep(t, s, done) # "idle"
  <2> PICK step \in {"fetch", "rows"} : step = NextStep(t, s, done)
    BY <1>2 DEF NextStep
  <2> DEFINE new == [tasks[t] EXCEPT !.todo = tasks[t].todo \ {s}, !.done = done, !.step = step]
  <2>1. tasks' = [tasks EXCEPT ![t] = new]
    BY <1>0, <1>2 DEF Fetched
  <2>2. new.step = step /\ new.data = tasks[t].data
    BY <1>0, IdleFields
  <2> HIDE DEF new
  <2>3. tasks'[t] = new /\ \A u \in Tasks : u # t => tasks'[u] = tasks[u]
    BY <2>1 DEF Shape
  <2> QED
    BY <2>2, <2>3 DEF Tame, Stays, Watched
<1> QED
  BY <1>1, <1>2

\* A refresh begins when none fetches.
LEMMA RefreshBegins ==
    ASSUME IInv, IInv', SettingsInv,
           BeginRefresh \/ \E due \in (SUBSET Sources) \ {{}} : BeginLoop(due)
    PROVE  SettingsInv'
<1>0. Shape /\ Shape'
  BY DEF IInv
<1>1. /\ \A t \in Tasks : tasks[t].step # "fetch"
      /\ UNCHANGED <<store, settings, mixed, rates, provider, ping>>
  BY DEF BeginRefresh, BeginLoop, Refreshing, world, history
<1>2. \E t \in Tasks : /\ tasks'[t].step = "fetch" /\ (work' = work \/ Work)
                       /\ \A u \in Tasks : u # t => /\ tasks'[u].step = tasks[u].step
                                                    /\ tasks'[u].data = tasks[u].data
  <2>1. CASE BeginRefresh
    <3> DEFINE new == [Idle EXCEPT !.kind = "refresh", !.step = "fetch", !.todo = Sources]
    <3>1. BeginRequest(new)
      BY <2>1 DEF BeginRefresh
    <3>2. DOMAIN new = Fields /\ new.step = "fetch"
      BY IdleFields DEF Idle
    <3> HIDE DEF new
    <3> QED
      BY <1>0, <3>1, <3>2, Begun
  <2>2. CASE \E due \in (SUBSET Sources) \ {{}} : BeginLoop(due)
    <3> PICK due \in (SUBSET Sources) \ {{}} : BeginLoop(due)
      BY <2>2
    <3> DEFINE new == [Idle EXCEPT !.kind = "refresh", !.step = "fetch", !.todo = due]
    <3>1. new.step = "fetch"
      BY IdleFields DEF Idle
    <3>2. tasks' = [tasks EXCEPT ![Loop] = new] /\ Loop \in Tasks /\ work' = work
      BY DEF BeginLoop, Tasks
    <3> HIDE DEF new
    <3> QED
      BY <1>0, <3>1, <3>2 DEF Shape
  <2> QED
    BY <2>1, <2>2
<1> PICK t \in Tasks : /\ tasks'[t].step = "fetch" /\ (work' = work \/ Work)
                       /\ \A u \in Tasks : u # t => /\ tasks'[u].step = tasks[u].step
                                                    /\ tasks'[u].data = tasks[u].data
  BY <1>2
<1>3. /\ \A x, y \in Tasks : tasks'[x].step = "fetch" /\ tasks'[y].step = "fetch" => x = y
      /\ \A x \in Tasks : tasks'[x].step \in {"check", "save"} => Fit(tasks'[x].data)
  BY <1>1 DEF SettingsInv
<1>4. /\ store' \in Row /\ (store'.status # "none" => store'.url \in Urls)
      /\ rates' \in [Sources -> Nat] /\ provider' \in [Sources -> Nat]
      /\ ping' \in {"idle", "sent"}
  BY <1>1 DEF SettingsInv, TypeOK
<1> QED
  BY <1>0, <1>1, <1>3, <1>4, SettingsSame, SettingsKept

LEMMA RatesKept ==
    ASSUME IInv, IInv', SettingsInv,
           \/ \E t \in Tasks : \/ RateStep(t) \/ CopyFails(t)
                               \/ \E s \in Sources : FetchFails(t, s)
           \/ \E s \in Sources : Publish(s)
    PROVE  SettingsInv'
<1>0. Shape /\ Shape'
  BY DEF IInv
<1>r. rates \in [Sources -> Nat] /\ provider \in [Sources -> Nat] /\ ping \in {"idle", "sent"}
      /\ store \in Row /\ (store.status # "none" => store.url \in Urls)
  BY DEF SettingsInv, TypeOK
<1>1. ASSUME NEW t \in Tasks, NEW s \in Sources, Fetch(t, s) \/ FetchFails(t, s)
      PROVE  SettingsInv'
  <2>1. /\ tasks[t].step = "fetch" /\ (work' = work \/ Work)
        /\ UNCHANGED <<store, settings, mixed, provider, ping>>
        /\ rates' \in {rates, Upsert(s)}
        /\ \E done : Fetched(t, s, done)
    BY <1>1 DEF Fetch, FetchFails, history
  <2>2. rates' \in [Sources -> Nat]
    BY <1>r, <2>1 DEF Upsert
  <2>3. Tame
    BY <1>0, <2>1, TameFetched
  <2>4. /\ store' \in Row /\ (store'.status # "none" => store'.url \in Urls)
        /\ provider' \in [Sources -> Nat] /\ ping' \in {"idle", "sent"}
    BY <1>r, <2>1
  <2> QED
    BY <1>0, <2>1, <2>2, <2>3, <2>4, SettingsSame, LockKept, SettingsKept
<1>2. ASSUME NEW t \in Tasks, Select(t) \/ CopyFails(t)
      PROVE  SettingsInv'
  <2>1. Beside
    BY <1>2 DEF Select, CopyFails, Beside, world, history
  <2>2. CASE Ends(t)
    BY <1>0, <2>1, <2>2, TameEnds, BesideKeeps
  <2>3. CASE tasks' = [tasks EXCEPT ![t].step = "copy", ![t].url = store.url, ![t].todo = {},
                                    ![t].done = {}, ![t].data = RateSettings(t)]
    <3> DEFINE url == store.url
               data == RateSettings(t)
    <3>1. tasks' = [tasks EXCEPT ![t].step = "copy", ![t].url = url, ![t].todo = {},
                                 ![t].done = {}, ![t].data = data]
      BY <2>3
    <3> HIDE DEF url, data
    <3>2. tasks'[t].step = "copy" /\ \A u \in Tasks : u # t => tasks'[u] = tasks[u]
      BY <1>0, <3>1, IdleFields DEF Shape
    <3>3. Tame
      BY <3>2 DEF Tame, Stays, Watched
    <3> QED
      BY <1>0, <2>1, <3>3, BesideKeeps
  <2> QED
    BY <1>2, <2>2, <2>3 DEF Select, CopyFails
<1>3. ASSUME NEW t \in Tasks, CopyRates(t)
      PROVE  SettingsInv'
  <2> DEFINE v == tasks[t].url
  <2> PICK copied : settings' = [settings EXCEPT ![v].rates = copied]
    BY <1>3 DEF CopyRates
  <2>1. Ends(t) /\ UNCHANGED <<store, mixed, rates, provider, ping, work>>
    BY <1>3 DEF CopyRates, world, history
  <2>2. ASSUME NEW u \in Urls
        PROVE  /\ {"provider", "model"} \subseteq DOMAIN settings'[u]
               /\ settings'[u].model \in Models
               /\ u \notin mixed' => Agrees(settings'[u])
    <3>1. /\ {"provider", "model"} \subseteq DOMAIN settings[u] /\ settings[u].model \in Models
          /\ DOMAIN settings = Urls /\ (u \notin mixed => Agrees(settings[u]))
      BY DEF SettingsInv, TypeOK
    <3>2. /\ DOMAIN settings'[u] = DOMAIN settings[u] /\ settings'[u].model = settings[u].model
          /\ settings'[u].provider = settings[u].provider
      BY <3>1
    <3> QED
      BY <2>1, <3>1, <3>2 DEF Agrees
  <2>3. DOMAIN settings' = Urls
    BY DEF SettingsInv, TypeOK
  <2>4. Tame
    BY <1>0, <2>1, TameEnds
  <2>5. /\ store' \in Row /\ (store'.status # "none" => store'.url \in Urls)
        /\ rates' \in [Sources -> Nat] /\ provider' \in [Sources -> Nat]
        /\ ping' \in {"idle", "sent"} /\ work' = work
    BY <1>r, <2>1
  <2> QED
    BY <1>0, <2>2, <2>3, <2>4, <2>5, LockKept, SettingsKept
<1>4. ASSUME NEW s \in Sources, Publish(s)
      PROVE  SettingsInv'
  <2>1. /\ Work /\ provider' = [provider EXCEPT ![s] = @ + 1]
        /\ UNCHANGED <<store, settings, mixed, rates, tasks, ping>>
    BY <1>4 DEF Publish, history
  <2>2. provider' \in [Sources -> Nat]
    BY <1>r, <2>1
  <2>3. /\ store' \in Row /\ (store'.status # "none" => store'.url \in Urls)
        /\ rates' \in [Sources -> Nat] /\ ping' \in {"idle", "sent"}
    BY <1>r, <2>1
  <2> QED
    BY <1>0, <2>1, <2>2, <2>3, TameSame, SettingsSame, LockKept, SettingsKept
<1> QED
  BY <1>1, <1>2, <1>3, <1>4 DEF RateStep

LEMMA StoreKept ==
    ASSUME IInv, IInv', SettingsInv,
           \/ CreateStore \/ BeginPing \/ EndPing \/ Restart
           \/ \E status \in {store.status, "active", "paused"}, linked \in BOOLEAN :
                UpdateStore(status, linked)
    PROVE  SettingsInv'
<1>0. Shape /\ Shape'
  BY DEF IInv
<1>1. rates \in [Sources -> Nat] /\ provider \in [Sources -> Nat] /\ ping \in {"idle", "sent"}
      /\ store \in Row /\ (store.status # "none" => store.url \in Urls)
  BY DEF SettingsInv, TypeOK
<1>2. UNCHANGED <<settings, mixed, rates, provider>> /\ (work' = work \/ Work)
  BY DEF CreateStore, BeginPing, EndPing, Restart, UpdateStore, Edit, world, history
<1>3. Tame
  <2>1. CASE Restart
    BY <2>1, IdleFields DEF Restart, Tame, Stays, Watched
  <2> QED
    BY <2>1, TameSame DEF CreateStore, BeginPing, EndPing, UpdateStore
<1>4. ping' \in {"idle", "sent"}
  BY <1>1 DEF CreateStore, BeginPing, EndPing, Restart, UpdateStore
<1>5. store' \in Row /\ (store'.status # "none" => store'.url \in Urls)
  <2>1. CASE CreateStore
    <3> PICK u \in Urls : u = CHOOSE x \in Urls : TRUE
      BY MasterAssumption
    <3> PICK linked \in BOOLEAN : store' = [status |-> "active", url |-> u, linked |-> linked]
      BY <2>1 DEF CreateStore
    <3> QED
      BY DEF Row
  <2>2. ASSUME NEW status \in {store.status, "active", "paused"}, NEW linked \in BOOLEAN,
               UpdateStore(status, linked)
        PROVE  store' \in Row /\ store'.url \in Urls
    <3>1. store.url \in Urls
      BY <1>1, <2>2 DEF UpdateStore, Edit, Exists
    <3>2. store' = [store EXCEPT !.status = status, !.linked = linked]
      BY <2>2 DEF UpdateStore
    <3>3. status \in {"none", "active", "paused", "error", "deleted"}
      BY <1>1 DEF Row
    <3> QED
      BY <1>1, <3>1, <3>2, <3>3 DEF Row
  <2>3. CASE EndPing
    <3> PICK status \in Health : store' = IF Exists THEN [store EXCEPT !.status = status] ELSE store
      BY <2>3 DEF EndPing
    <3> QED
      BY <1>1 DEF Health, Row, Exists
  <2>4. CASE UNCHANGED store
    BY <1>1, <2>4
  <2> QED
    BY <2>1, <2>2, <2>3, <2>4 DEF BeginPing, Restart
<1> QED
  BY <1>0, <1>1, <1>2, <1>3, <1>4, <1>5, SettingsSame, LockKept, SettingsKept

LEMMA InitSettings == Init => SettingsInv
<1> SUFFICES ASSUME Init PROVE SettingsInv
  OBVIOUS
<1>1. /\ settings = [u \in Urls |-> Defaults] /\ tasks = [t \in Tasks |-> Idle] /\ mixed = {}
      /\ rates = [s \in Sources |-> 0] /\ provider = rates /\ ping = "idle" /\ work = 0
  BY DEF Init
<1>2. /\ {"provider", "model"} \subseteq DOMAIN Defaults /\ Agrees(Defaults)
      /\ Defaults.model \in Models
  BY MasterAssumption DEF Defaults, Agrees, Models
<1>3. store \in Row /\ (store.status # "none" => store.url \in Urls)
  <2> PICK u \in Urls : u = CHOOSE x \in Urls : TRUE
    BY MasterAssumption
  <2>1. \/ store = [status |-> "none", url |-> None, linked |-> FALSE]
        \/ store = [status |-> "active", url |-> u, linked |-> TRUE]
    BY DEF Init
  <2>2. CASE store = [status |-> "none", url |-> None, linked |-> FALSE]
    <3>1. store.status = "none" /\ store \in Row
      BY <2>2 DEF Row
    <3> QED
      BY <3>1
  <2>3. CASE store = [status |-> "active", url |-> u, linked |-> TRUE]
    <3>1. store.url = u /\ store \in Row
      BY <2>3 DEF Row
    <3> QED
      BY <3>1
  <2> QED
    BY <2>1, <2>2, <2>3
<1>4. Shape
  BY InitIInv DEF IInv
<1>5. TypeOK
  <2>1. /\ store.status \in {"none", "active", "paused", "error", "deleted"}
        /\ store.url \in Urls \cup {None} /\ store.linked \in BOOLEAN
    BY <1>3 DEF Row
  <2>2. work \in 0..MaxWork /\ rates \in [Sources -> Nat] /\ provider \in [Sources -> Nat]
    BY <1>1, MasterAssumption
  <2>3. DOMAIN creds = Keys /\ DOMAIN railway = Envs /\ DOMAIN running = Envs
    BY <1>4 DEF Shape
  <2>4. DOMAIN settings = Urls /\ \A u \in Urls : settings[u].model \in Models
    BY <1>1, <1>2
  <2>5. \A t \in Tasks : tasks[t].step # "fetch"
    BY <1>1, IdleFields
  <2> QED
    BY <1>1, <2>1, <2>2, <2>3, <2>4, <2>5 DEF TypeOK
<1> QED
  BY <1>1, <1>2, <1>3, <1>5, IdleFields DEF SettingsInv

LEMMA StepSettings ==
    ASSUME IInv, IInv', SettingsInv, [Next]_vars
    PROVE  SettingsInv'
<1>1. CASE UNCHANGED vars
  <2>1. Beside /\ UNCHANGED tasks
    BY <1>1 DEF vars, Beside
  <2> QED
    BY <2>1, TameSame, BesideKeeps DEF IInv
<1>2. CASE \/ DeleteStore \/ \E u \in Urls : ChangeUrl(u)
           \/ \E k \in Providers : BeginDelete(k) \/ \E v \in Values : SetCredential(k, v)
           \/ \E e \in Envs : BeginDeploy(e)
           \/ \E t \in Slots : \/ DeleteVariable(t) \/ DeleteFails(t) \/ DeleteLocal(t)
                               \/ Collect(t) \/ Push(t) \/ Redeploy(t) \/ DeployFails(t)
  BY <1>2, RailwayBeside
<1>3. CASE \/ CreateStore \/ BeginPing \/ EndPing \/ Restart
           \/ \E status \in {store.status, "active", "paused"}, linked \in BOOLEAN :
                UpdateStore(status, linked)
  BY <1>3, StoreKept
<1>4. CASE \/ \E p \in Patches : BeginSettings(p)
           \/ \E t \in Slots : CheckFallback(t) \/ SaveSettings(t) \/ SettingsFail(t)
           \/ \E u \in Urls, p \in Patches : StoreEdits(u, p)
  BY <1>4, EditsKept
<1>5. CASE BeginRefresh \/ \E due \in (SUBSET Sources) \ {{}} : BeginLoop(due)
  BY <1>5, RefreshBegins
<1>6. CASE \/ \E t \in Tasks : \/ RateStep(t) \/ CopyFails(t)
                               \/ \E s \in Sources : FetchFails(t, s)
           \/ \E s \in Sources : Publish(s)
  BY <1>6, RatesKept
<1> QED
  BY <1>1, <1>2, <1>3, <1>4, <1>5, <1>6 DEF Next

\* update_store_settings: a store's fallback model is one of its fallback
\* provider's, whatever edits, lost answers and restarts come between, unless
\* an edit was laid over one that it had not seen, or the store's own
\* dashboard changed the provider alone; and one refresh fetches at a time.
THEOREM ModelIsOfProvider == Spec => []ModelOfProvider
<1>1. IInv /\ IInv' /\ SettingsInv /\ [Next]_vars => SettingsInv'
  BY StepSettings
<1>2. SettingsInv => ModelOfProvider
  BY DEF SettingsInv, ModelOfProvider, Agrees
<1> QED
  BY <1>1, <1>2, InitSettings, Invariance, PTL DEF Spec
=============================================================================
