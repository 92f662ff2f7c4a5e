---------------------------- MODULE KommoDirect ----------------------------
(***************************************************************************)
(* Instagram private messages answered without a Salesbot: the direct jobs *)
(* of store/app/integrations/kommo/jobs.py and the ledger of Chats API     *)
(* sends of delivery.py (kommo_outbound_deliveries).  A send is paid and   *)
(* cannot be taken back, its answer may be lost, and Kommo says only later *)
(* whether the message reached the customer: the job waits for that report *)
(* and holds back the later messages of its lead meanwhile.  Kommo may     *)
(* also deliver a public comment as a private message: the native comment  *)
(* callback then supersedes the private job.                               *)
(*                                                                         *)
(* The jobs are the messages of one chat, in their order of arrival (the   *)
(* debounce is in KommoJobs).  A lease is the value of attempt_count that  *)
(* its claim writes; a provider message id is the place of the message in  *)
(* "sent".  What evaluate_automation_state decides is left open.           *)
(***************************************************************************)
EXTENDS Integers, Sequences, FiniteSets

CONSTANTS MaxJobs,      \* bound: messages of the chat
          Workers,      \* tasks running process_pending_jobs, process_ready_jobs
          MaxAttempts,  \* MAX_JOB_ATTEMPTS
          Scopes        \* bounds of a behaviour: its messages, the tasks that
                        \* claim, the messages that may mirror a comment, faults

Jobs == 1..MaxJobs

ASSUME DirectAssumption ==
    /\ MaxJobs \in Nat /\ MaxAttempts \in Nat
    /\ Scopes \subseteq [jobs : SUBSET Jobs, tasks : SUBSET Workers,
                         mirrors : SUBSET Jobs, faults : Nat]

VARIABLES scope,       \* the bounds of this behaviour, which no step changes
          storyOn,     \* meta_story_context_enabled
          jobs,        \* kommo_message_jobs
          ledger,      \* kommo_outbound_deliveries, by job and kind of message
          cached,      \* kommo_media_cache has the upload of the image
          comments,    \* private jobs whose comment has a native comment job
          workers,     \* the tasks
          reconciler,  \* the scheduler's process_waiting_for_delivery_jobs
          sent,        \* Kommo: the messages it took for a job, and their fate
          superseded,  \* history: jobs discarded by the comment callback
          stored,      \* history: assistant messages written for a job
          faults       \* faults so far

vars == <<scope, storyOn, jobs, ledger, cached, comments, workers, reconciler, sent,
          superseded, stored, faults>>

\* The logical sends of a job, one fingerprint each.
Kinds == {"text", "image", "fallback", "retext"}
Terminal == {"sent", "discarded", "failed", "delivery_unknown"}
\* Statuses in which a comment callback may still discard the job.
PreAnswer == {"pending", "processing", "waiting_for_context", "ready"}
Active == {"processing", "waiting_for_context", "ready", "waiting_for_delivery"}

Job == [st : {"absent"} \cup PreAnswer \cup {"waiting_for_delivery"} \cup Terminal,
        lease : Nat, attempts : Nat, ai : BOOLEAN,
        timed : BOOLEAN,      \* the timer of the current status has run out
        suppress : BOOLEAN,   \* suppress_after_context
        rescue : BOOLEAN,     \* delivery_failure_fallback of the pending message
        awaits : Nat,         \* provider_message_ids of continuation_response
        final : {"sent", "discarded"},
        kept : BOOLEAN]       \* assistant_message_persisted_at
NoJob == [st |-> "absent", lease |-> 0, attempts |-> 0, ai |-> FALSE, timed |-> FALSE,
          suppress |-> FALSE, rescue |-> FALSE, awaits |-> 0, final |-> "sent",
          kept |-> FALSE]

\* "tried" is send_attempt_count >= 1; "refused" a failure that Kommo reported.
Row == [st : {"none", "sending", "accepted", "confirmed", "failed", "delivery_unknown"},
        id : Nat, tried : BOOLEAN, refused : BOOLEAN]
NoRow == [st |-> "none", id |-> 0, tried |-> FALSE, refused |-> FALSE]

Free == [step |-> "free", job |-> 0, lease |-> 0, kind |-> "text", id |-> 0,
         error |-> "none", next |-> "free"]
Task == [step : {"free", "mirror", "discard", "decide", "prepare", "ready", "generate", "upload",
                 "claim", "send", "accept", "wait", "error"},
         job : Jobs \cup {0}, lease : Nat, kind : Kinds, id : Nat,
         error : {"none", "aborted", "unknown", "state", "api", "after"},
         next : {"free", "decide", "prepare"}]

Idle == [step |-> "idle", job |-> 0, id |-> 0, rescue |-> FALSE]

\* The last conjunct: no claim, recovery or rescue trips the unique index of the
\* active jobs of a correlation (uq_kommo_message_jobs_active_salesbot).
TypeOK ==
    /\ scope \in Scopes /\ storyOn \in BOOLEAN /\ cached \in BOOLEAN
    /\ jobs \in [Jobs -> Job]
    /\ ledger \in [Jobs -> [Kinds -> Row]]
    /\ comments \subseteq Jobs /\ superseded \subseteq Jobs
    /\ workers \in [Workers -> Task]
    /\ reconciler \in [step : {"idle", "look", "keep", "final"},
                       job : Jobs \cup {0}, id : Nat, rescue : BOOLEAN]
    /\ sent \in [Jobs -> Seq({"accepted", "delivered", "error"})]
    /\ stored \in [Jobs -> Nat]
    /\ faults \in 0..scope.faults
    /\ Cardinality({j \in Jobs : jobs[j].st \in Active}) <= 1

Init ==
    /\ scope \in Scopes
    /\ storyOn \in BOOLEAN
    /\ jobs = [j \in Jobs |-> NoJob]
    /\ ledger = [j \in Jobs |-> [k \in Kinds |-> NoRow]]
    /\ cached = FALSE
    /\ comments = {} /\ superseded = {}
    /\ workers = [w \in Workers |-> Free]
    /\ reconciler = Idle
    /\ sent = [j \in Jobs |-> <<>>]
    /\ stored = [j \in Jobs |-> 0]
    /\ faults = 0

Fault == faults < scope.faults /\ faults' = faults + 1
Goto(w, step) == workers' = [workers EXCEPT ![w].step = step]
Done(w) == workers' = [workers EXCEPT ![w] = Free]
HasLease(w) == jobs[workers[w].job].lease = workers[w].lease
Owns(w) == HasLease(w) /\ jobs[workers[w].job].st = "processing"

Finish(j, status) == [jobs EXCEPT ![j].st = status, ![j].lease = 0, ![j].timed = FALSE]
\* _mark_job: fenced by the lease alone.
MarkJob(w, status) ==
    jobs' = IF HasLease(w) THEN Finish(workers[w].job, status) ELSE jobs

outside == <<scope, storyOn, comments, superseded, reconciler, faults>>
records == <<ledger, cached, sent, stored>>

-----------------------------------------------------------------------------
(* Arrival, claim and preparation                                          *)

\* record_incoming_event; the chat has one pending job at most.
RecordIncoming(j) ==
    /\ j \in scope.jobs /\ jobs[j].st = "absent"
    /\ \A i \in 1..(j - 1) : jobs[i].st \notin {"absent", "pending"}
    /\ jobs' = [jobs EXCEPT ![j].st = "pending"]
    /\ UNCHANGED <<workers, records, outside>>

Claim(w, j, step, next, ai) ==
    LET attempt == jobs[j].attempts + 1 IN
    /\ jobs' = [jobs EXCEPT ![j].st = "processing", ![j].timed = FALSE,
                            ![j].lease = attempt, ![j].attempts = attempt, ![j].ai = ai]
    /\ workers' = [workers EXCEPT ![w] = [Free EXCEPT !.step = step, !.next = next,
                                                      !.job = j, !.lease = attempt]]
    /\ UNCHANGED <<records, outside>>

\* Mutant: a job that waits for Kommo's report holds nobody back.
HoldsBackNotWaiting(i, j) == i # j /\ jobs[i].st \in Active \ {"waiting_for_delivery"}
HoldsBack(i, j) == i # j /\ jobs[i].st \in Active

\* _claim_due_pending_job, then the first mirror check.
ClaimPending(w) ==
    /\ w \in scope.tasks /\ workers[w].step = "free"
    /\ \E j \in Jobs :
         /\ jobs[j].st = "pending"
         /\ \A i \in Jobs : ~HoldsBack(i, j)
         /\ Claim(w, j, "mirror", "decide", FALSE)

Begun(row) == row.st \in {"sending", "accepted", "confirmed", "delivery_unknown"}
SendBegan(j) == \E k \in Kinds : Begun(ledger[j][k])
MayDiscard(j) == jobs[j].st \in PreAnswer /\ ~jobs[j].kept

\* What follows a mirror check that discarded nothing.
Proceed(w) ==
    IF workers[w].next = "free" THEN Done(w) ELSE Goto(w, workers[w].next)

\* _discard_private_job_if_superseded_by_recent_comment: the search, and the
\* snapshot of the UPDATE that follows.  A comment out of the window, or
\* another text, is no match.
MirrorLooks(w) ==
    LET j == workers[w].job IN
    /\ workers[w].step = "mirror"
    /\ \/ j \in comments /\ MayDiscard(j) /\ ~SendBegan(j) /\ Goto(w, "discard")
       \/ Proceed(w)
    /\ UNCHANGED <<jobs, records, outside>>

\* The UPDATE reads its row again but the ledger in its snapshot.
MirrorDiscards(w) ==
    LET j == workers[w].job IN
    /\ workers[w].step = "discard"
    /\ IF MayDiscard(j) THEN jobs' = Finish(j, "discarded") /\ Done(w)
                        ELSE UNCHANGED jobs /\ Proceed(w)
    /\ UNCHANGED <<records, outside>>

\* The decision of _prepare_direct_instagram_dm; with story contexts on, the
\* suppression is left for later.
Decide(w) ==
    /\ workers[w].step = "decide"
    /\ \/ MarkJob(w, "failed") /\ Done(w)                   \* no talk, or an error
       \/ ~storyOn /\ MarkJob(w, "discarded") /\ Done(w)     \* automation is off
       \/ /\ workers' = [workers EXCEPT ![w].step = "mirror", ![w].next = "prepare"]
          /\ UNCHANGED jobs
    /\ UNCHANGED <<records, outside>>

\* _mark_direct_instagram_job_prepared.  The third mirror check follows, and
\* has no lease any more.
MarkPrepared(w) ==
    LET j == workers[w].job IN
    /\ workers[w].step = "prepare"
    /\ \/ ~Owns(w) /\ UNCHANGED jobs /\ Done(w)
       \/ /\ Owns(w)
          /\ \E suppress \in {FALSE, storyOn} :
               jobs' = [jobs EXCEPT ![j].st = IF storyOn THEN "waiting_for_context" ELSE "ready",
                                    ![j].suppress = suppress, ![j].lease = 0,
                                    ![j].ai = FALSE, ![j].timed = FALSE]
          /\ workers' = [workers EXCEPT ![w].step = "mirror", ![w].next = "free"]
    /\ UNCHANGED <<records, outside>>

\* The context is resolved or its deadline passes (module MetaContext).
ContextReleased(j) ==
    /\ jobs[j].st = "waiting_for_context"
    /\ jobs' = [jobs EXCEPT ![j].st = "ready"]
    /\ UNCHANGED <<workers, records, outside>>

\* The private messages that may mirror the comment; a row that another task
\* has locked is skipped, and the match is dropped when it is not the only good one.
Candidates(j) == {i \in {j} : MayDiscard(i)}
BestCandidate(j) == SUBSET Candidates(j)

DiscardMirrored(j) == \E best \in BestCandidate(j) :
    LET gone == {i \in best : ~SendBegan(i)} IN
    /\ jobs' = IF j \in gone THEN Finish(j, "discarded") ELSE jobs
    /\ superseded' = superseded \cup gone

\* The comment's own job is inserted once, however often the callback comes.
InsertComment(j) == comments' = comments \cup {j}

\* _create_ready_comment_job_from_callback.  The mirror is looked for again by
\* every repetition of the callback.
CommentCallback(j) ==
    /\ j \in scope.mirrors
    /\ DiscardMirrored(j)
    /\ InsertComment(j)
    /\ UNCHANGED <<scope, storyOn, workers, reconciler, faults, records>>

-----------------------------------------------------------------------------
(* _process_ready_job                                                      *)

ClaimReady(w) ==
    /\ w \in scope.tasks /\ workers[w].step = "free"
    /\ \E j \in Jobs : jobs[j].st = "ready" /\ Claim(w, j, "ready", "free", TRUE)

\* deliver_response: text is claimed and sent, an image is uploaded before that.
DeliverText(w, kind) ==
    workers' = [workers EXCEPT ![w].step = "claim", ![w].kind = kind]
DeliverImage(w) ==
    workers' = [workers EXCEPT ![w].step = "upload", ![w].kind = "image"]
Errs(w, error) == workers' = [workers EXCEPT ![w].step = "error", ![w].error = error]

\* _continue_and_discard_job for a direct job, with something to say or without.
Apologise(w) == DeliverText(w, "fallback") /\ UNCHANGED jobs
Discard(w) == MarkJob(w, "discarded") /\ Done(w)

\* _retry_ready_job
RetryReady(w) ==
    /\ jobs[workers[w].job].attempts < MaxAttempts
    /\ jobs' = IF Owns(w)
                 THEN [jobs EXCEPT ![workers[w].job].st = "ready", ![workers[w].job].lease = 0,
                                   ![workers[w].job].ai = FALSE,
                                   ![workers[w].job].timed = FALSE]
                 ELSE jobs
    /\ Done(w)

\* A voice note that cannot be transcribed is tried again, or _fail_ready_job
\* apologises: the customer is known by then.
Transcribe(w) == RetryReady(w) \/ Apologise(w)

\* Up to the first decision.  A queued text fallback comes before all else.
Ready(w) ==
    LET j == workers[w].job IN
    /\ workers[w].step = "ready"
    /\ IF jobs[j].rescue THEN DeliverText(w, "retext") /\ UNCHANGED jobs
       ELSE \/ Errs(w, "api") /\ UNCHANGED jobs
            \/ Apologise(w)                                  \* unsupported attachment
            \/ Transcribe(w)
            \/ Discard(w)                                    \* deferred, or decided now
            \/ ~jobs[j].suppress /\ Goto(w, "generate") /\ UNCHANGED jobs
    /\ UNCHANGED <<records, outside>>

\* generate_response, the second decision and the choice of what to deliver.
Generate(w) ==
    /\ workers[w].step = "generate"
    /\ \/ Discard(w)
       \/ UNCHANGED jobs /\ (Errs(w, "api") \/ DeliverText(w, "text") \/ DeliverImage(w))
    /\ UNCHANGED <<records, outside>>

\* _get_or_upload_media: the image is downloaded; a row of kommo_media_cache for
\* its content saves the upload.  A lost race for that row may be an error too.
CachedUpload(w) == cached /\ Goto(w, "claim") /\ UNCHANGED cached
NewUpload(w) == ~cached /\ Goto(w, "claim") /\ cached' = TRUE
DownloadFails(w) == Errs(w, "api") /\ UNCHANGED cached
UploadFails(w) == ~cached /\ (Errs(w, "api") \/ Errs(w, "state")) /\ UNCHANGED cached
Upload(w) ==
    /\ workers[w].step = "upload"
    /\ DownloadFails(w) \/ CachedUpload(w) \/ NewUpload(w) \/ UploadFails(w)
    /\ UNCHANGED <<jobs, ledger, sent, stored, outside>>

\* Only a provider's refusal of the media lets the text be sent after it.
Rescues(w, row) ==
    /\ workers[w].kind = "retext" /\ jobs[workers[w].job].rescue
    /\ row.st = "failed" /\ row.id # 0 /\ row.refused

\* Another send of this job that stands in the way of a new one.
Conflicts(w, row) == Begun(row) \/ (row.tried /\ ~Rescues(w, row))

\* Mutant: the claim of a send does not look at the job's row.
ClaimDeliveryUnfenced(w) ==
    LET j == workers[w].job k == workers[w].kind IN
    /\ workers[w].step = "claim"
    /\ IF \E x \in Kinds \ {k} : Conflicts(w, ledger[j][x])
         THEN Errs(w, "aborted") /\ UNCHANGED ledger
         ELSE /\ ledger' = [ledger EXCEPT ![j][k] = [NoRow EXCEPT !.st = "sending", !.tried = TRUE]]
              /\ Goto(w, "send")
    /\ UNCHANGED <<jobs, cached, sent, stored, outside>>

\* _claim_delivery, one transaction that locks the job's row.
ClaimDelivery(w) ==
    LET j == workers[w].job
        k == workers[w].kind
        row == ledger[j][k]
    IN
    /\ workers[w].step = "claim"
    /\ \/ /\ ~Owns(w) \/ \E x \in Kinds \ {k} : Conflicts(w, ledger[j][x])
          /\ Errs(w, "aborted") /\ UNCHANGED ledger
       \/ /\ Owns(w) /\ \A x \in Kinds \ {k} : ~Conflicts(w, ledger[j][x])
          /\ IF row.st = "none" \/ (row.st = "failed" /\ row.id = 0)
               THEN /\ ledger' = [ledger EXCEPT ![j][k] =
                                    [NoRow EXCEPT !.st = "sending", !.tried = TRUE]]
                    /\ Goto(w, "send")
               ELSE /\ UNCHANGED ledger
                    /\ IF row.st \in {"accepted", "confirmed"}
                         THEN workers' = [workers EXCEPT ![w].step = "wait", ![w].id = row.id]
                         ELSE Errs(w, "state")
       \/ Errs(w, "api") /\ UNCHANGED ledger              \* the database failed
    /\ UNCHANGED <<jobs, cached, sent, stored, outside>>

\* _mark_delivery_error changes a row that is still sending.
MarkError(w, status) ==
    LET j == workers[w].job k == workers[w].kind IN
    ledger' = IF ledger[j][k].st = "sending" THEN [ledger EXCEPT ![j][k].st = status] ELSE ledger

\* send_talk_message, by its outcome.  Kommo answers with the message's id;
\* or the answer is lost or unusable, and Kommo may have taken the message or
\* not; or its status (below 500, not 408) tells that it did not.
Takes(j) == sent' = [sent EXCEPT ![j] = Append(@, "accepted")]
SendTaken(w) ==
    /\ Takes(workers[w].job)
    /\ workers' = [workers EXCEPT ![w].step = "accept",
                                  ![w].id = Len(sent[workers[w].job]) + 1]
    /\ UNCHANGED ledger
SendUnknown(w) ==
    /\ Takes(workers[w].job) \/ UNCHANGED sent
    /\ Errs(w, "unknown")
    /\ MarkError(w, "delivery_unknown") \/ UNCHANGED ledger      \* the note may fail
SendRefused(w) ==
    /\ UNCHANGED sent
    /\ Errs(w, "api")
    /\ MarkError(w, "failed") \/ UNCHANGED ledger

Send(w) ==
    /\ workers[w].step = "send"
    /\ SendTaken(w) \/ SendUnknown(w) \/ SendRefused(w)
    /\ UNCHANGED <<jobs, cached, stored, outside>>

\* The UPDATE of the row to accepted, or its failure.
Accept(w) ==
    LET j == workers[w].job k == workers[w].kind IN
    /\ workers[w].step = "accept"
    /\ \/ /\ ledger[j][k].st = "sending"
          /\ ledger' = [ledger EXCEPT ![j][k].st = "accepted", ![j][k].id = workers[w].id]
          /\ Goto(w, "wait")
       \/ Errs(w, "unknown") /\ UNCHANGED ledger
    /\ UNCHANGED <<jobs, cached, sent, stored, outside>>

\* _mark_direct_job_waiting_for_delivery
Wait(w) ==
    LET j == workers[w].job k == workers[w].kind IN
    /\ workers[w].step = "wait"
    /\ \/ /\ Owns(w) /\ ledger[j][k].st \in {"accepted", "confirmed"}
          /\ jobs' = [jobs EXCEPT ![j].st = "waiting_for_delivery", ![j].lease = 0,
                                  ![j].timed = FALSE, ![j].awaits = workers[w].id,
                                  ![j].final = IF k = "fallback" THEN "discarded" ELSE "sent"]
          /\ Done(w)
       \/ UNCHANGED jobs /\ Errs(w, "after")       \* not its job any more, or an error
    /\ UNCHANGED <<records, outside>>

\* _direct_customer_send_begun, negated.
Safe(j) == \A k \in Kinds : ~Begun(ledger[j][k]) /\ ~ledger[j][k].tried

\* What an error does.  "after" is an error once the send was accepted.  A reply
\* that was never begun may be replaced by an apology; the statuses are those of
\* the except clauses of the turn, of the apology and of the text fallback.
FallsBack(w) ==
    /\ workers[w].kind \in {"text", "image"}
    /\ workers[w].error \in {"state", "api", "after"}
    /\ Safe(workers[w].job)
    /\ Apologise(w)
TurnEnds(w) ==
    IF workers[w].error \in {"aborted", "api"} THEN {"failed"} ELSE {"delivery_unknown"}
ApologyEnds(w) ==
    CASE workers[w].error \in {"aborted", "api"} -> {"failed"}
      [] workers[w].error = "after" -> {"failed", "delivery_unknown"}
      [] OTHER -> {"delivery_unknown"}
RetextEnds(w) ==
    IF workers[w].error = "after" THEN {"failed", "delivery_unknown"} ELSE {"failed"}
HandleError(w) ==
    /\ workers[w].step = "error"
    /\ \/ FallsBack(w)
       \/ /\ \E status \in CASE workers[w].kind = "fallback" -> ApologyEnds(w)
                              [] workers[w].kind = "retext" -> RetextEnds(w)
                              [] OTHER -> TurnEnds(w) : MarkJob(w, status)
          /\ Done(w)
    /\ UNCHANGED <<records, outside>>

-----------------------------------------------------------------------------
(* Kommo's report and process_waiting_for_delivery_jobs                    *)

\* get_talk_message_delivery_status reads the talk's newest messages.
LookedUp(j, i, fate) == sent[j][i] = fate

\* Kommo finds out what became of a message it took.
Report(j) ==
    /\ \E i \in DOMAIN sent[j], fate \in {"delivered", "error"} :
         sent[j][i] = "accepted" /\ sent' = [sent EXCEPT ![j][i] = fate]
    /\ UNCHANGED <<jobs, workers, ledger, cached, stored, outside>>

notRecon == <<scope, storyOn, cached, comments, workers, superseded, faults>>

\* _claim_waiting_for_delivery_job: the reconciler works on a copy of the row.
ReconcileClaims(j) ==
    /\ reconciler = Idle
    /\ jobs[j].st = "waiting_for_delivery"
    /\ reconciler' = [step |-> "look", job |-> j, id |-> jobs[j].awaits,
                      rescue |-> jobs[j].rescue]
    /\ UNCHANGED <<jobs, ledger, sent, stored, notRecon>>

WaitsStill(j) == jobs[j].st = "waiting_for_delivery"

\* _fail_waiting_delivery: media are followed by their text, once.
FailWaiting(j, k) ==
    /\ ledger' = [ledger EXCEPT ![j][k].st = "failed", ![j][k].refused = TRUE]
    /\ jobs' = IF ~WaitsStill(j) THEN jobs
               ELSE IF k = "image" /\ ~reconciler.rescue
                 THEN [jobs EXCEPT ![j].st = "ready", ![j].rescue = TRUE,
                                   ![j].awaits = 0, ![j].ai = FALSE]
                 ELSE Finish(j, "failed")
    /\ reconciler' = Idle

\* Mutant: a message without a report counts as refused.
ReconcileHasty ==
    LET j == reconciler.job i == reconciler.id IN
    /\ reconciler.step = "look"
    /\ \E k \in Kinds :
         /\ ledger[j][k].id = i
         /\ \/ /\ sent[j][i] = "delivered"
               /\ ledger' = [ledger EXCEPT ![j][k].st = "confirmed"]
               /\ reconciler' = [reconciler EXCEPT !.step = "keep"] /\ UNCHANGED jobs
            \/ sent[j][i] \in {"error", "accepted"} /\ FailWaiting(j, k)
    /\ UNCHANGED <<sent, stored, notRecon>>

\* _reconcile_waiting_for_delivery_job: a row already confirmed is not asked
\* for again; no report yet, or a lookup that fails, ends the visit.
Reconcile ==
    LET j == reconciler.job i == reconciler.id IN
    /\ reconciler.step = "look"
    /\ \E k \in Kinds :
         /\ ledger[j][k].id = i
         /\ \/ /\ ledger[j][k].st = "confirmed" \/ LookedUp(j, i, "delivered")
               /\ ledger' = [ledger EXCEPT ![j][k].st = "confirmed"]
               /\ reconciler' = [reconciler EXCEPT !.step = "keep"] /\ UNCHANGED jobs
            \/ LookedUp(j, i, "error") /\ FailWaiting(j, k)
            \/ LookedUp(j, i, "accepted") /\ reconciler' = Idle /\ UNCHANGED <<jobs, ledger>>
    /\ UNCHANGED <<sent, stored, notRecon>>

\* Mutant: the message is written each time the job is finalized.
KeepAgain ==
    LET j == reconciler.job IN
    /\ reconciler.step = "keep"
    /\ jobs' = [jobs EXCEPT ![j].kept = WaitsStill(j) \/ @]
    /\ stored' = [stored EXCEPT ![j] = IF WaitsStill(j) THEN @ + 1 ELSE @]
    /\ reconciler' = [reconciler EXCEPT !.step = "final"]
    /\ UNCHANGED <<ledger, sent, notRecon>>

\* _persist_waiting_assistant_message, then the final UPDATE: two transactions.
Keep ==
    LET j == reconciler.job
        writes == WaitsStill(j) /\ ~jobs[j].kept
    IN
    /\ reconciler.step = "keep"
    /\ jobs' = [jobs EXCEPT ![j].kept = writes \/ @]
    /\ stored' = [stored EXCEPT ![j] = IF writes THEN @ + 1 ELSE @]
    /\ reconciler' = [reconciler EXCEPT !.step = "final"]
    /\ UNCHANGED <<ledger, sent, notRecon>>
Finalize ==
    LET j == reconciler.job IN
    /\ reconciler.step = "final"
    /\ jobs' = IF WaitsStill(j) /\ jobs[j].kept THEN Finish(j, jobs[j].final) ELSE jobs
    /\ reconciler' = Idle
    /\ UNCHANGED <<ledger, sent, stored, notRecon>>

-----------------------------------------------------------------------------
(* Time, recovery, crashes                                                 *)

Attended(j) == \E w \in Workers :
    workers[w].job = j /\ workers[w].lease = jobs[j].lease

\* STALE_PROCESSING_MINUTES pass; a slow task ages its row.
TimePasses(j) ==
    /\ jobs[j].st = "processing" /\ ~jobs[j].timed
    /\ jobs' = [jobs EXCEPT ![j].timed = TRUE]
    /\ IF Attended(j) THEN Fault ELSE UNCHANGED faults
    /\ UNCHANGED <<scope, storyOn, comments, superseded, reconciler, workers, records>>

\* Mutant: only turns are recovered, not preparations.
RecoverTurnsOnly(j) ==
    /\ jobs[j].st = "processing" /\ jobs[j].timed /\ jobs[j].ai
    /\ jobs' = Finish(j, "delivery_unknown")
    /\ UNCHANGED <<workers, records, outside>>

\* recover_stale_jobs for a direct job: a preparation becomes ready, a turn
\* that may have sent something is closed.
RecoverStale(j) ==
    /\ jobs[j].st = "processing" /\ jobs[j].timed
    /\ jobs' = Finish(j, IF jobs[j].ai THEN "delivery_unknown" ELSE "ready")
    /\ UNCHANGED <<workers, records, outside>>

\* The process stops and starts again.
Crash ==
    /\ Fault
    /\ workers' = [w \in Workers |-> Free]
    /\ reconciler' = Idle
    /\ UNCHANGED <<scope, storyOn, jobs, records, comments, superseded>>

-----------------------------------------------------------------------------
TaskStep(w) ==
    \/ MirrorLooks(w) \/ MirrorDiscards(w) \/ Decide(w) \/ MarkPrepared(w)
    \/ Ready(w) \/ Generate(w) \/ Upload(w) \/ ClaimDelivery(w) \/ Send(w)
    \/ Accept(w) \/ Wait(w) \/ HandleError(w)
ReconcileStep == Reconcile \/ Keep \/ Finalize

Next ==
    \/ \E j \in Jobs : \/ RecordIncoming(j) \/ ContextReleased(j) \/ CommentCallback(j)
                       \/ Report(j) \/ ReconcileClaims(j) \/ TimePasses(j) \/ RecoverStale(j)
    \/ \E w \in Workers : ClaimPending(w) \/ ClaimReady(w) \/ TaskStep(w)
    \/ ReconcileStep
    \/ Crash

Spec == Init /\ [][Next]_vars

(***************************************************************************)
(* Fairness: the scheduler's cycle (recovery, claims, reconciliation) and  *)
(* the event loop.  A waiting context is released (MetaContext).  Kommo    *)
(* owes no report, and nobody a message, a comment or a fault.             *)
(***************************************************************************)
FairSpec ==
    /\ Spec
    /\ \A j \in Jobs : /\ WF_vars(ContextReleased(j)) /\ WF_vars(RecoverStale(j))
                       /\ WF_vars(~Attended(j) /\ TimePasses(j))
    /\ \A w \in Workers : WF_vars(TaskStep(w))
    /\ WF_vars(\E w \in Workers : ClaimPending(w))
    /\ WF_vars(\E w \in Workers : ClaimReady(w))
    /\ WF_vars(\E j \in Jobs : ReconcileClaims(j)) /\ WF_vars(ReconcileStep)

-----------------------------------------------------------------------------
(* Properties                                                              *)

Closed(j) == jobs[j].st \in Terminal

\* What the customer sees of each job: its phase, and the messages for it that
\* Kommo has not reported as lost.
Phases == [j \in Jobs |-> IF jobs[j].st = "absent" THEN "none"
                          ELSE IF Closed(j) THEN "closed" ELSE "open"]
Copies == [j \in Jobs |-> Cardinality({i \in DOMAIN sent[j] : sent[j][i] # "error"})]

\* The promise of Answers: the customer receives one message for a job at most
\* (a second send waits until Kommo itself says that the first one did not
\* arrive, whatever was lost, stalled, retried or recovered), nothing is sent
\* while the answer to an earlier message may still fail, closed is final.
Promise == INSTANCE Answers WITH
    Newest <- MaxJobs,
    ChatOf <- [j \in Jobs |-> "chat"],
    phase <- Phases,
    copies <- Copies
AnswersImplemented == Promise!Spec

\* The rows tell the truth.  "sent" means that the message reached the customer;
\* the history has a reply only if it did, and has it once, in spite of crashes
\* between the two transactions; and a private job that the comment callback
\* discarded stays silent: no task that was at work on it gets anything to the
\* customer, before or after.
Truthful ==
    /\ TypeOK
    /\ \A j \in Jobs :
         LET reached == \E i \in DOMAIN sent[j] : sent[j][i] = "delivered" IN
         /\ jobs[j].st = "sent" \/ jobs[j].kept => reached
         /\ stored[j] <= 1
         /\ j \in superseded => \A i \in DOMAIN sent[j] : sent[j][i] = "error"

Recorded(j) == jobs[j].st # "absent"
Unreported == \E j \in Jobs :
    WaitsStill(j) /\ \E i \in DOMAIN sent[j] : i = jobs[j].awaits /\ sent[j][i] = "accepted"

\* Every message ends in a closed job, unless Kommo keeps silent for ever about
\* a message it accepted: nothing else holds the lead's next messages back.
ClosesWhenReported == \A j \in Jobs :
    []<>~Unreported => (Recorded(j) ~> Closed(j))
=============================================================================
