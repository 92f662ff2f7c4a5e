---------------------------- MODULE MetaContext ----------------------------
(***************************************************************************)
(* Context for Instagram messages that reach the store through Kommo: the  *)
(* signed Meta events of store/app/integrations/meta_context say which     *)
(* post was commented, or which story was answered, but carry no Kommo     *)
(* identifier.  A job waits for context (waiting_for_context) while its    *)
(* event is searched for by score, and the products of the content are     *)
(* looked up; at its deadline it is released without.  Webhook tasks, the  *)
(* tasks started with a job and the scheduler work on the same rows.       *)
(*                                                                         *)
(* Events and jobs are of one kind, comments or story replies: the queries *)
(* never mix them.  Text, names, identifiers and times are reduced to the  *)
(* signals that _score_candidate finds between an event and a job.         *)
(***************************************************************************)
EXTENDS Integers, FiniteSets

CONSTANTS Events,     \* meta_instagram_context_events
          Jobs,       \* kommo_message_jobs that wait for a context
          Tasks,      \* concurrent tasks of the process
          Scopes,     \* bounds of a behaviour: its rows, the signals that join
                      \* them, the content at first, and how many changes of the
                      \* mappings, aged events and crashes
          Null

Signals == {"comment_id", "identity", "username", "text", "5s", "15s", "stranger", "twice"}

ASSUME ContextAssumption ==
    /\ IsFiniteSet(Events) /\ IsFiniteSet(Jobs)
    /\ Null \notin Events \cup Jobs

\* "url" and "id": one row with products, without and with the media_id;
\* "empty" is a row without products, "many" a row for the URL and another for
\* the media_id, "other" a row for the URL with the media_id of something else.
Contents == {"none", "url", "id", "empty", "many", "other"}

Scope == [events : SUBSET Events, jobs : SUBSET Jobs, tasks : SUBSET Tasks, story : BOOLEAN,
          signals : [Events \X Jobs -> SUBSET Signals], content : Contents,
          edits : Nat, ages : Nat, crashes : Nat]
ASSUME ScopesAssumption == \A s \in Scopes : s \in Scope

VARIABLES scope,    \* of this behaviour; no step changes it
          on,       \* meta_instagram_context_enabled, meta_story_context_enabled
          events, jobs,
          content,  \* the instagram_content rows that concern an event's medium
          tasks,
          spent     \* how much of each bound is used up

contextVars == <<scope, on, events, jobs, content, tasks, spent>>

story == scope.story
signals == scope.signals

Event == [st : {"absent", "pending", "ambiguous", "matched", "expired"},
          job : Jobs \cup {Null},   \* matched_kommo_job_id
          link : BOOLEAN,           \* media_permalink
          mapping : {"none", "not_found", "matched", "backfilled", "conflict",
                     "resolved", "ambiguous"},
          due : BOOLEAN,            \* mapping_next_retry_at is not ahead
          applied : BOOLEAN,        \* product_mapping_applied
          told : BOOLEAN,           \* job_context_enriched
          old : BOOLEAN]            \* expires_at is past
NoEvent == [st |-> "absent", job |-> Null, link |-> FALSE, mapping |-> "none", due |-> TRUE,
            applied |-> FALSE, told |-> FALSE, old |-> FALSE]

Job == [st : {"absent", "waiting", "ready"},
        context : {"pending", "ambiguous", "matched", "timed_out"},
        event : Events \cup {Null},  \* meta_context_event_id
        mapping : {"none", "resolved", "ambiguous", "timed_out"},
        due : BOOLEAN]               \* context_deadline_at is past
NoJob == [st |-> "absent", context |-> "pending", event |-> Null, mapping |-> "none",
          due |-> FALSE]

\* "link", "seen" and "due" are the task's copy of its event, read at its start.
Free == [step |-> "free", event |-> Null, job |-> Null, force |-> FALSE, link |-> FALSE,
         seen |-> "none", due |-> TRUE]

\* The last conjunct: the two tables agree, whichever side found a match and
\* whoever ran in between; an event explains one job and a job has one event.
ContextOK ==
    /\ scope \in Scopes /\ on \in BOOLEAN
    /\ events \in [Events -> Event] /\ jobs \in [Jobs -> Job]
    /\ content \in [Events -> Contents]
    /\ tasks \in [Tasks -> [step : {"free", "discover", "correlate", "resolve", "enrich", "tell",
                                    "backfill", "again", "search", "apply", "release"},
                            event : Events \cup {Null}, job : Jobs \cup {Null},
                            force : BOOLEAN, link : BOOLEAN, due : BOOLEAN,
                            seen : {"none", "not_found", "matched", "backfilled", "conflict",
                                    "resolved", "ambiguous"}]]
    /\ spent \in [edits : 0..scope.edits, ages : 0..scope.ages, crashes : 0..scope.crashes]
    /\ \A e \in Events, j \in Jobs : events[e].job = j <=> jobs[j].event = e

ContextInit ==
    /\ scope \in Scopes /\ on = TRUE
    /\ events = [e \in Events |-> NoEvent]
    /\ jobs = [j \in Jobs |-> NoJob]
    /\ content = [e \in Events |-> scope.content]
    /\ tasks = [t \in Tasks |-> Free]
    /\ spent = [edits |-> 0, ages |-> 0, crashes |-> 0]

rows == <<events, jobs, content>>
Spend(what) ==
    /\ spent[what] < scope[what]
    /\ spent' = [spent EXCEPT ![what] = @ + 1]

Goto(t, step) == tasks' = [tasks EXCEPT ![t].step = step]
Done(t) == tasks' = [tasks EXCEPT ![t] = Free]

-----------------------------------------------------------------------------
(* The score, and the search of a pair                                     *)

\* _score_candidate: text or comment id in common, and nobody known to be
\* another person.
IsCandidate(e, j) ==
    /\ signals[<<e, j>>] \cap {"comment_id", "text"} # {}
    /\ "stranger" \in signals[<<e, j>>] => "identity" \in signals[<<e, j>>]
Score(e, j) ==
    LET found == signals[<<e, j>>]
        Points(signal, n) == IF signal \in found THEN n ELSE 0
    IN Points("comment_id", 100) + Points("identity", 120) + Points("username", 40)
         + Points("text", 30) + (IF "5s" \in found THEN 20 ELSE IF "15s" \in found THEN 10 ELSE 5)

\* _load_event and _load_job, _candidate_events and _candidate_jobs.
OpenEvents == {e \in Events : /\ events[e].st \in {"pending", "ambiguous"}
                              /\ events[e].job = Null /\ ~events[e].old}
\* Mutant: the queries find jobs that have an event already.
OpenJobsTaken == {j \in Jobs : jobs[j].st = "waiting"}
OpenJobs == {j \in Jobs : /\ jobs[j].st = "waiting" /\ jobs[j].event = Null
                          /\ jobs[j].context \in {"pending", "ambiguous"}}

PairsOfEvent(e) == {<<e, j>> : j \in {x \in OpenJobs : e \in OpenEvents /\ IsCandidate(e, x)}}
PairsOfJob(j) == {<<e, j>> : e \in {x \in OpenEvents : j \in OpenJobs /\ IsCandidate(x, j)}}
\* _opposite_candidates: the pairs of the other side of a pair.
Opposite(p, anchor) == IF anchor = "event" THEN PairsOfJob(p[2]) ELSE PairsOfEvent(p[1])
Best(pairs) == {p \in pairs : \A q \in pairs : Score(q[1], q[2]) <= Score(p[1], p[2])}

\* _mark_ambiguous
MarkAmbiguous(pairs) ==
    /\ events' = [e \in Events |-> IF \E p \in pairs : p[1] = e /\ events[e].job = Null
                                     THEN [events[e] EXCEPT !.st = "ambiguous"] ELSE events[e]]
    /\ jobs' = [j \in Jobs |-> IF \E p \in pairs : p[2] = j /\ jobs[j].event = Null
                                 THEN [jobs[j] EXCEPT !.context = "ambiguous"] ELSE jobs[j]]

\* _persist_match
PersistMatch(e, j) ==
    /\ jobs' = [jobs EXCEPT ![j].event = e, ![j].context = "matched"]
    /\ events' = [events EXCEPT ![e].st = "matched", ![e].job = j]

\* Mutant: the best job of an event is its match, whoever else wants the job.
CorrelateOneSided(pairs, anchor) ==
    LET best == Best(pairs) IN
    IF pairs = {} THEN UNCHANGED <<events, jobs>>
    ELSE IF Cardinality(best) # 1 THEN MarkAmbiguous(best)
    ELSE \A p \in best : PersistMatch(p[1], p[2])

\* _correlate, one transaction under an advisory lock: the single best pair
\* from one side must be the single best from the other side too.
Correlate(pairs, anchor) ==
    LET twice == {p \in pairs : "twice" \in signals[p]}
        best == Best(pairs)
        reciprocal == UNION {Best(Opposite(p, anchor)) : p \in best}
    IN
    IF pairs = {} THEN UNCHANGED <<events, jobs>>
    ELSE IF twice # {} THEN MarkAmbiguous(twice)
    ELSE IF Cardinality(best) # 1 THEN MarkAmbiguous(best)
    ELSE IF Cardinality(reciprocal) # 1 THEN MarkAmbiguous(reciprocal)
    ELSE IF reciprocal # best THEN UNCHANGED <<events, jobs>>
    ELSE \A p \in best : PersistMatch(p[1], p[2])

CorrelateEvent(e) == Correlate(PairsOfEvent(e), "event")
CorrelateJob(j) == Correlate(PairsOfJob(j), "job")

-----------------------------------------------------------------------------
(* The products of the content                                             *)

\* resolve_content_product_mapping
Mapping(e) ==
    CASE content[e] \in {"none", "empty"} -> "not_found"
      [] content[e] = "id" -> "resolved"
      [] content[e] = "url" -> IF events[e].link THEN "resolved" ELSE "not_found"
      [] content[e] = "many" -> IF events[e].link THEN "ambiguous" ELSE "resolved"
      [] content[e] = "other" -> IF events[e].link THEN "ambiguous" ELSE "not_found"

Holds(e, j) ==
    /\ events[e].st = "matched" /\ events[e].job = j /\ jobs[j].event = e
    /\ jobs[j].st = "waiting" /\ jobs[j].context = "matched"

\* resolve_and_release_matched_job, one transaction.
ResolveAndRelease(e, force) ==
    \/ /\ \E j \in Jobs : Holds(e, j)
       /\ force \/ events[e].mapping # "not_found" \/ events[e].due
       /\ IF Mapping(e) = "not_found"
            THEN /\ events' = [events EXCEPT ![e].mapping = "not_found", ![e].due = FALSE]
                 /\ UNCHANGED jobs
            ELSE /\ jobs' = [jobs EXCEPT ![events[e].job].st = "ready",
                                         ![events[e].job].mapping = Mapping(e)]
                 /\ events' = [events EXCEPT ![e].mapping = Mapping(e), ![e].due = TRUE,
                                             ![e].applied = TRUE]
    \/ /\ \A j \in Jobs : Holds(e, j) => ~force /\ events[e].mapping = "not_found" /\ ~events[e].due
       /\ UNCHANGED <<events, jobs>>

-----------------------------------------------------------------------------
(* Arrival                                                                 *)

EventTask(t, e, step) ==
    tasks' = [tasks EXCEPT ![t] = [Free EXCEPT !.step = step, !.event = e, !.link = events'[e].link,
                                               !.seen = events'[e].mapping, !.due = events'[e].due]]
FirstStep == IF story THEN "discover" ELSE "correlate"

\* handle_instagram_context and store_context_event; a repeated event is found
\* by its identifiers and starts nothing.
StoreEvent(t, e) ==
    /\ on /\ e \in scope.events /\ events[e].st = "absent" /\ tasks[t] = Free
    /\ events' = [events EXCEPT ![e].st = "pending"]
    /\ EventTask(t, e, FirstStep)
    /\ UNCHANGED <<scope, on, jobs, content, spent>>

\* The job enters waiting_for_context, and its task starts
\* (schedule_context_job_processing).
JobWaits(t, j) ==
    /\ on /\ j \in scope.jobs /\ jobs[j].st = "absent" /\ tasks[t] = Free
    /\ jobs' = [jobs EXCEPT ![j].st = "waiting"]
    /\ tasks' = [tasks EXCEPT ![t] = [Free EXCEPT !.step = "search", !.job = j]]
    /\ UNCHANGED <<scope, on, events, content, spent>>

-----------------------------------------------------------------------------
(* process_context_event                                                   *)

\* The query of process_pending_context_events, its LIMIT aside.
NeedsWork(e) ==
    /\ events[e].st # "absent" /\ ~events[e].old
    /\ \/ events[e].st \in {"pending", "ambiguous"}
       \/ /\ events[e].st = "matched"
          /\ \/ ~story /\ (~events[e].link \/ ~events[e].told)
             \/ /\ jobs[events[e].job].st = "waiting" /\ ~events[e].applied
                /\ events[e].mapping \notin {"ambiguous", "conflict"}
                /\ events[e].mapping = "not_found" => events[e].due

RetryEvent(t, e) ==
    /\ on /\ NeedsWork(e) /\ tasks[t] = Free
    /\ UNCHANGED events /\ EventTask(t, e, FirstStep)
    /\ UNCHANGED <<scope, on, jobs, content, spent>>

\* discover_instagram_story
Discover(t) ==
    LET e == tasks[t].event IN
    /\ tasks[t].step = "discover"
    /\ content' = [content EXCEPT ![e] = IF @ = "none" THEN "empty" ELSE @]
    /\ Goto(t, "correlate")
    /\ UNCHANGED <<scope, on, events, jobs, spent>>

\* A failed correlation is logged, and the task goes on.
EventCorrelates(t) ==
    LET e == tasks[t].event IN
    /\ tasks[t].step = "correlate"
    /\ CorrelateEvent(e) \/ UNCHANGED <<events, jobs>>
    /\ tasks' = [tasks EXCEPT ![t].step = "resolve",
                              ![t].force = events[e].job = Null /\ events'[e].job # Null]
    /\ UNCHANGED <<scope, on, content, spent>>

EventResolves(t) ==
    /\ tasks[t].step = "resolve"
    /\ ResolveAndRelease(tasks[t].event, tasks[t].force)
    /\ tasks' = [tasks EXCEPT ![t].step = IF story THEN "again" ELSE "enrich", ![t].force = FALSE]
    /\ UNCHANGED <<scope, on, content, spent>>

\* get_media and _save_media_enrichment, unless the task's copy has the link.
Enrich(t) ==
    LET e == tasks[t].event IN
    /\ tasks[t].step = "enrich"
    /\ \/ /\ ~tasks[t].link
          /\ events' = [events EXCEPT ![e].link = TRUE]
          /\ tasks' = [tasks EXCEPT ![t].step = "tell", ![t].link = TRUE, ![t].force = TRUE]
       \/ UNCHANGED events /\ Goto(t, "tell")              \* known, or the API failed
    /\ UNCHANGED <<scope, on, jobs, content, spent>>

\* _update_matched_job_context
Tell(t) ==
    LET e == tasks[t].event IN
    /\ tasks[t].step = "tell"
    /\ events' = [events EXCEPT ![e].told = @ \/ \E j \in Jobs : events[e].job = j /\ jobs[j].event = e]
    /\ Goto(t, "backfill")
    /\ UNCHANGED <<scope, on, jobs, content, spent>>

\* backfill_instagram_mapping, decided on the task's copy of the details.
Backfill(t) ==
    LET e == tasks[t].event
        result == CASE content[e] = "url" -> "backfilled" [] content[e] = "id" -> "matched"
                    [] content[e] \in {"many", "other"} -> "conflict" [] OTHER -> "not_found"
    IN
    /\ tasks[t].step = "backfill"
    /\ IF /\ tasks[t].link /\ tasks[t].seen \notin {"matched", "backfilled", "conflict"}
          /\ tasks[t].seen # "not_found" \/ tasks[t].due \/ tasks[t].force
         THEN /\ content' = [content EXCEPT ![e] = IF @ = "url" THEN "id" ELSE @]
              /\ events' = [events EXCEPT ![e].mapping = result,
                                          ![e].due = IF result = "conflict" THEN @
                                                     ELSE result # "not_found"]
         ELSE UNCHANGED <<content, events>>
    /\ Goto(t, "again")
    /\ UNCHANGED <<scope, on, jobs, spent>>

EventResolvesAgain(t) ==
    /\ tasks[t].step = "again"
    /\ ResolveAndRelease(tasks[t].event, tasks[t].force)
    /\ Done(t)
    /\ UNCHANGED <<scope, on, content, spent>>

-----------------------------------------------------------------------------
(* process_waiting_context_jobs                                            *)

\* A row as the query read it; a matched job needs no search.
VisitJob(t, j) ==
    /\ on /\ jobs[j].st = "waiting" /\ tasks[t] = Free
    /\ tasks' = [tasks EXCEPT ![t] = [Free EXCEPT !.job = j, !.event = jobs[j].event,
                   !.step = IF jobs[j].context = "matched" THEN "apply" ELSE "search"]]
    /\ UNCHANGED <<scope, on, rows, spent>>

\* A search that fails skips the products too, not the deadline.
JobCorrelates(t) ==
    LET j == tasks[t].job IN
    /\ tasks[t].step = "search"
    /\ \/ /\ CorrelateJob(j)
          /\ LET found == jobs[j].event = Null /\ jobs'[j].event # Null IN
             tasks' = [tasks EXCEPT ![t].force = found,
                                    ![t].event = IF found THEN jobs'[j].event ELSE @,
                                    ![t].step = IF found THEN "apply" ELSE "release"]
       \/ UNCHANGED <<events, jobs>> /\ Goto(t, "release")
    /\ UNCHANGED <<scope, on, content, spent>>

JobResolves(t) ==
    /\ tasks[t].step = "apply"
    /\ ResolveAndRelease(tasks[t].event, tasks[t].force)
    /\ Goto(t, "release")
    /\ UNCHANGED <<scope, on, content, spent>>

TimedOut(j) == [jobs EXCEPT ![j].st = "ready", ![j].context = "timed_out",
                            ![j].mapping = "timed_out"]

\* Mutant: the deadline is looked at without the status of the job.
ReleaseIfDueAnyway(j) == jobs' = IF jobs[j].due THEN TimedOut(j) ELSE jobs
\* Mutant: a job that has its event waits for the products, whatever the time.
ReleaseIfDueUnmatched(j) ==
    jobs' = IF jobs[j].st = "waiting" /\ jobs[j].due /\ jobs[j].event = Null
              THEN TimedOut(j) ELSE jobs
\* _release_context_job_if_due
ReleaseIfDue(j) == jobs' = IF jobs[j].st = "waiting" /\ jobs[j].due THEN TimedOut(j) ELSE jobs

JobReleased(t) ==
    /\ tasks[t].step = "release"
    /\ ReleaseIfDue(tasks[t].job)
    /\ Done(t)
    /\ UNCHANGED <<scope, on, events, content, spent>>

\* release_timed_out_context_jobs, which _process_kommo_jobs runs once the
\* features are off.
ReleaseTimedOut(j) ==
    /\ ~on /\ jobs[j].st = "waiting" /\ jobs[j].due
    /\ ReleaseIfDue(j)
    /\ UNCHANGED <<scope, on, events, content, tasks, spent>>

\* The last statement of process_waiting_context_jobs.
ExpireEvents ==
    /\ on /\ \E e \in Events : events[e].old /\ events[e].st \in {"pending", "ambiguous"}
    /\ events' = [e \in Events |-> IF events[e].old /\ events[e].st \in {"pending", "ambiguous"}
                                     THEN [events[e] EXCEPT !.st = "expired"] ELSE events[e]]
    /\ UNCHANGED <<scope, on, jobs, content, tasks, spent>>

-----------------------------------------------------------------------------
(* The owner's changes, time and crashes                                   *)

Edit(e, value) ==
    /\ Spend("edits")
    /\ content' = [content EXCEPT ![e] = value]
    /\ UNCHANGED <<scope, on, events, jobs, tasks>>

CreateContent(e) == content[e] = "none" /\ Edit(e, IF story THEN "id" ELSE "url")
\* update_instagram_content: products for a discovered story, or another URL,
\* which takes the media_id away.
UpdateContent(e) ==
    \/ content[e] = "empty" /\ Edit(e, "id")
    \/ ~story /\ content[e] = "id" /\ Edit(e, "none")
    \/ ~story /\ content[e] = "other" /\ Edit(e, "url")
ArchiveContent(e) == content[e] \in {"url", "id", "other"} /\ Edit(e, "none")

TurnOff == on /\ on' = FALSE /\ UNCHANGED <<scope, rows, tasks, spent>>

DeadlinePasses(j) ==
    /\ jobs[j].st = "waiting" /\ ~jobs[j].due
    /\ jobs' = [jobs EXCEPT ![j].due = TRUE]
    /\ UNCHANGED <<scope, on, events, content, tasks, spent>>
RetryFallsDue(e) ==
    /\ ~events[e].due
    /\ events' = [events EXCEPT ![e].due = TRUE]
    /\ UNCHANGED <<scope, on, jobs, content, tasks, spent>>
EventAges(e) ==
    /\ events[e].st # "absent" /\ ~events[e].old /\ Spend("ages")
    /\ events' = [events EXCEPT ![e].old = TRUE]
    /\ UNCHANGED <<scope, on, jobs, content, tasks>>

\* The process stops and starts again; its tasks are gone.
Crash ==
    /\ Spend("crashes")
    /\ tasks' = [t \in Tasks |-> Free]
    /\ UNCHANGED <<scope, on, rows>>

-----------------------------------------------------------------------------
TaskStep(t) ==
    \/ Discover(t) \/ EventCorrelates(t) \/ EventResolves(t) \/ Enrich(t) \/ Tell(t)
    \/ Backfill(t) \/ EventResolvesAgain(t)
    \/ JobCorrelates(t) \/ JobResolves(t) \/ JobReleased(t)

ContextNext ==
    \/ \E t \in scope.tasks : \/ \E e \in Events : StoreEvent(t, e) \/ RetryEvent(t, e)
                              \/ \E j \in Jobs : JobWaits(t, j) \/ VisitJob(t, j)
                              \/ TaskStep(t)
    \/ \E j \in Jobs : ReleaseTimedOut(j) \/ DeadlinePasses(j)
    \/ \E e \in Events : \/ CreateContent(e) \/ UpdateContent(e) \/ ArchiveContent(e)
                         \/ RetryFallsDue(e) \/ EventAges(e)
    \/ ExpireEvents \/ TurnOff \/ Crash

ContextSpec == ContextInit /\ [][ContextNext]_contextVars

(***************************************************************************)
(* Fairness: the event loop runs its tasks, the scheduler visits every     *)
(* waiting job while a feature is on (its query puts the earliest deadline *)
(* first) and releases the due ones when none is; deadlines pass.  Nobody  *)
(* owes an event, a mapping or an answer of Meta.                          *)
(***************************************************************************)
FairSpec ==
    /\ ContextSpec
    /\ \A t \in Tasks : WF_contextVars(TaskStep(t))
    /\ \A j \in Jobs : /\ SF_contextVars(\E t \in scope.tasks : VisitJob(t, j))
                       /\ WF_contextVars(ReleaseTimedOut(j)) /\ WF_contextVars(DeadlinePasses(j))

-----------------------------------------------------------------------------
(* Properties                                                              *)

\* A match is made only between two rows that prefer each other to everything
\* else that waits: no job takes the event of a better claimant.
MatchIsMutualBest ==
    [][\A e \in Events, j \in Jobs :
         jobs[j].event = Null /\ jobs'[j].event = e =>
           \A p \in (PairsOfEvent(e) \cup PairsOfJob(j)) \ {<<e, j>>} :
             Score(p[1], p[2]) < Score(e, j)]_contextVars

\* A released job has one verdict and keeps it: the products of its own event,
\* applied once, or the time-out.  A late match, a late answer of Meta or the
\* deadline of a job that was just released change nothing.
VerdictFinal ==
    [][\A j \in Jobs :
         /\ jobs[j].st = "ready" => jobs'[j] = jobs[j]
         /\ jobs'[j].st = "ready" =>
              \/ jobs'[j].mapping = "timed_out" /\ jobs'[j].context = "timed_out"
              \/ /\ jobs'[j].mapping \in {"resolved", "ambiguous"}
                 /\ jobs'[j].event # Null /\ events'[jobs'[j].event].applied]_contextVars

\* No message waits for its context for ever: neither a match without products,
\* nor a crash, nor features turned off meanwhile keep the job from its answer.
EveryJobReleased == \A j \in Jobs : jobs[j].st = "waiting" ~> jobs[j].st = "ready"
=============================================================================
