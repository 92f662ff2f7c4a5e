----------------------------- MODULE KommoJobs -----------------------------
(***************************************************************************)
(* The durable jobs that answer WhatsApp messages through a Kommo Salesbot *)
(* (store/app/integrations/kommo/jobs.py): the debounce of incoming        *)
(* messages, the launch of a Salesbot run, the signed callback that hands  *)
(* over its return_url, the AI turn, the continuation posted to that URL,  *)
(* and the recovery of stale rows.                                         *)
(*                                                                         *)
(* A statement on one row is one action.  The claim of a pending row also  *)
(* reads other rows, in the snapshot its statement started with (READ      *)
(* COMMITTED), so it is two actions.  Calls to Kommo and to the AI end     *)
(* actions: other tasks, callbacks, the recovery, an operator and a crash  *)
(* come in between.                                                        *)
(*                                                                         *)
(* A message is named by its arrival number, a job by the message that     *)
(* inserted its row, a lease (a fresh uuid for every claim) by the value   *)
(* of attempt_count that its claim writes.                                 *)
(***************************************************************************)
EXTENDS Integers, Sequences, FiniteSets, FiniteSetsExt

CONSTANTS MaxMessages,   \* bound: messages Kommo delivers
          Chats, ChatOf, \* correlation_id of each message
          LeadOf, ContactOf, NoId,  \* ids of a chat's rows, NoId for NULL
          Workers,       \* tasks running process_pending_jobs, process_ready_jobs
          MaxAttempts,   \* MAX_JOB_ATTEMPTS
          MaxFaults      \* bound: crashes, stalled tasks and takeovers

Messages == 1..MaxMessages
Leads == {LeadOf[c] : c \in Chats}

ASSUME KommoAssumption ==
    /\ MaxMessages \in Nat /\ MaxAttempts \in Nat /\ MaxFaults \in Nat
    /\ ChatOf \in [Messages -> Chats]
    /\ DOMAIN LeadOf = Chats /\ DOMAIN ContactOf = Chats

VARIABLES jobs,      \* kommo_message_jobs
          receipts,  \* kommo_message_receipts: the messages already recorded
          workers,   \* the tasks
          runs,      \* the Salesbot runs Kommo has accepted
          launches,  \* salesbot_launched_at, as the number of the launch
          blocked,   \* leads for which evaluate_automation_state says no
          faults,    \* faults so far
          turns,     \* history: AI turns taken for a job
          heard      \* history: what the customer received for a job

vars == <<jobs, receipts, workers, runs, launches, blocked, faults,
          turns, heard>>

Terminal == {"sent", "discarded", "failed", "delivery_unknown"}
Active == {"waiting_for_salesbot", "ready", "processing", "continuing"}

Job == [st : {"absent", "pending"} \cup Active \cup Terminal,
        parts : SUBSET Messages,
        timed : BOOLEAN,  \* the timer of the current status has run out
        lease : Nat, ai : BOOLEAN, attempts : Nat,
        launched : Nat,   \* salesbot_launched_at
        run : Nat,        \* the run behind return_url and callback_claims
        kept : BOOLEAN]   \* assistant_message_persisted_at
NoJob == [st |-> "absent", parts |-> {}, timed |-> FALSE, lease |-> 0,
          ai |-> FALSE, attempts |-> 0, launched |-> 0, run |-> 0, kept |-> FALSE]

\* A task holds its job's id and lease; "says" is what its continuation tells
\* the customer, "ending" the status it will write.
Free == [step |-> "free", job |-> 0, lease |-> 0, seen |-> {}, says |-> "nothing",
         ending |-> "sent", media |-> FALSE, escalated |-> FALSE, held |-> FALSE]
Task == [step : {"free", "claim", "launch", "run", "prepare", "generate", "check",
                 "media", "keep", "mark", "post", "store", "end"},
         job : Messages \cup {0}, lease : Nat, seen : SUBSET Messages,
         says : {"nothing", "reply", "apology"}, ending : Terminal,
         media : BOOLEAN, escalated : BOOLEAN,
         held : BOOLEAN]   \* history: the lead was taken over before the reply

TypeOK ==
    /\ jobs \in [Messages -> Job]
    /\ receipts \subseteq Messages
    /\ workers \in [Workers -> Task]
    /\ runs \in Seq([job : Messages, iat : Nat, posts : Nat])
    /\ launches \in Nat
    /\ blocked \subseteq Leads
    /\ faults \in 0..MaxFaults
    /\ turns \in [Messages -> Nat]
    /\ heard \in [Messages -> Seq({"reply", "apology"})]

Init ==
    /\ jobs = [j \in Messages |-> NoJob]
    /\ receipts = {}
    /\ workers = [w \in Workers |-> Free]
    /\ runs = <<>>
    /\ launches = 0
    /\ blocked = {}
    /\ faults = 0
    /\ turns = [j \in Messages |-> 0]
    /\ heard = [j \in Messages |-> <<>>]

Chat(j) == ChatOf[j]
Lead(j) == LeadOf[Chat(j)]
Fault == faults < MaxFaults /\ faults' = faults + 1

-----------------------------------------------------------------------------
(* record_incoming_event                                                   *)

PendingOf(c) == {j \in Messages : Chat(j) = c /\ jobs[j].st = "pending"}

\* A receipt ends the transaction early; else the message joins the chat's
\* newest pending job and restarts its buffer, or inserts one.
RecordIncoming(m) ==
    LET open == PendingOf(Chat(m)) IN
    /\ 1..(m - 1) \subseteq receipts     \* messages are numbered by arrival
    /\ m \notin receipts
    /\ receipts' = receipts \cup {m}
    /\ jobs' = IF open = {}
                 THEN [jobs EXCEPT ![m] = [NoJob EXCEPT !.st = "pending", !.parts = {m}]]
                 ELSE [jobs EXCEPT ![Max(open)].parts = @ \cup {m},
                                   ![Max(open)].timed = FALSE]
    /\ UNCHANGED <<workers, runs, launches, blocked, faults, turns, heard>>

Attended(j) == \E w \in Workers :
    workers[w].job = j /\ workers[w].lease = jobs[j].lease

\* buffer_expires_at, STALE_WAITING_MINUTES or STALE_PROCESSING_MINUTES pass.
\* No heartbeat renews processing_started_at: a slow task ages its row.
TimePasses(j) ==
    /\ jobs[j].st \in {"pending", "waiting_for_salesbot", "processing", "continuing"}
    /\ ~jobs[j].timed
    /\ jobs' = [jobs EXCEPT ![j].timed = TRUE]
    /\ IF jobs[j].st \in {"processing", "continuing"} /\ Attended(j)
         THEN Fault ELSE UNCHANGED faults
    /\ UNCHANGED <<receipts, workers, runs, launches, blocked, turns, heard>>

-----------------------------------------------------------------------------
(* _claim_due_pending_job                                                  *)

\* Mutant: a job that waits for its callback holds nobody back.
HoldsBackNotWaiting(k, j) ==
    /\ k # j /\ jobs[k].st \in Active \ {"waiting_for_salesbot"}
    /\ LeadOf[Chat(k)] = LeadOf[Chat(j)]

\* An active job that holds back the candidate j.
HoldsBack(k, j) ==
    LET c == Chat(j) d == Chat(k) IN
    /\ k # j /\ jobs[k].st \in Active
    /\ \/ LeadOf[c] # NoId /\ LeadOf[d] = LeadOf[c]
       \/ ContactOf[c] # NoId /\ ContactOf[d] = ContactOf[c]
       \/ LeadOf[c] = NoId /\ ContactOf[c] = NoId /\ c = d

Due(j) == jobs[j].st = "pending" /\ jobs[j].timed
Claimable == {j \in Messages : Due(j) /\ \A k \in Messages : ~HoldsBack(k, j)}

\* The statement takes its snapshot.
ClaimStarts(w) ==
    /\ workers[w].step = "free"
    /\ Claimable # {}
    /\ workers' = [workers EXCEPT ![w].step = "claim", ![w].seen = Claimable]
    /\ UNCHANGED <<jobs, receipts, runs, launches, blocked, faults, turns, heard>>

\* Mutant: ai_started_at is set when the turn ends, not with the claim.
ClaimNoAiStart(w, j, step) ==
    LET attempt == jobs[j].attempts + 1 IN
    /\ jobs' = [jobs EXCEPT ![j].st = "processing", ![j].timed = FALSE,
                            ![j].lease = attempt, ![j].attempts = attempt,
                            ![j].ai = FALSE]
    /\ workers' = [workers EXCEPT ![w] = [Free EXCEPT !.step = step, !.job = j,
                                                      !.lease = attempt]]
    /\ UNCHANGED <<receipts, runs, launches, blocked, faults, turns, heard>>

\* The row is leased to the task; a ready row also starts its AI turn.
Claim(w, j, step) ==
    LET attempt == jobs[j].attempts + 1 IN
    /\ jobs' = [jobs EXCEPT ![j].st = "processing", ![j].timed = FALSE,
                            ![j].lease = attempt, ![j].attempts = attempt,
                            ![j].ai = (step = "prepare")]
    /\ workers' = [workers EXCEPT ![w] = [Free EXCEPT !.step = step, !.job = j,
                                                      !.lease = attempt]]
    /\ UNCHANGED <<receipts, runs, launches, blocked, faults, turns, heard>>

\* The row it locks is checked again as it is now, the others are not.
ClaimPending(w) ==
    LET open == {j \in workers[w].seen : Due(j)} IN
    /\ workers[w].step = "claim"
    /\ IF open # {} THEN Claim(w, Min(open), "launch")
       ELSE /\ workers' = [workers EXCEPT ![w] = Free]
            /\ UNCHANGED <<jobs, receipts, runs, launches, blocked, faults,
                           turns, heard>>

-----------------------------------------------------------------------------
(* _launch_salesbot_for_job                                                *)

\* Mutant: the final status is written whoever holds the lease.
HasLeaseUnchecked(w) == TRUE
HasLease(w) == jobs[workers[w].job].lease = workers[w].lease

\* Mutant: the row's status and lease are not conditions of the UPDATE.
OwnsUnchecked(w) == TRUE
Owns(w) == HasLease(w) /\ jobs[workers[w].job].st = "processing"

\* Every final status clears the lease.
Finish(j, status) == [jobs EXCEPT ![j].st = status, ![j].lease = 0, ![j].timed = FALSE]

\* _mark_job: fenced by the lease alone.
MarkJob(w, status) ==
    jobs' = IF HasLease(w) THEN Finish(workers[w].job, status) ELSE jobs
Done(w) == workers' = [workers EXCEPT ![w] = Free]

\* _mark_job_waiting_for_salesbot keeps the lease.
MarkWaiting(w) ==
    /\ launches' = launches + 1
    /\ jobs' = [jobs EXCEPT ![workers[w].job].st = "waiting_for_salesbot",
                            ![workers[w].job].timed = FALSE,
                            ![workers[w].job].launched = launches + 1]
    /\ workers' = [workers EXCEPT ![w].step = "run"]

\* The decision and the write that follows it.  Without a lead there is no AI
\* mode to read, which fails the job.
Launch(w) ==
    LET l == Lead(workers[w].job) IN
    /\ workers[w].step = "launch"
    /\ \/ /\ MarkJob(w, "failed")                     \* no lead, or an error
          /\ Done(w) /\ UNCHANGED launches
       \/ /\ l \in blocked
          /\ MarkJob(w, "discarded")
          /\ Done(w) /\ UNCHANGED launches
       \/ /\ l \notin blocked /\ l # NoId /\ Owns(w)
          /\ MarkWaiting(w)
       \/ /\ l \notin blocked /\ ~Owns(w)
          /\ Done(w) /\ UNCHANGED <<jobs, launches>>
    /\ UNCHANGED <<receipts, runs, blocked, faults, turns, heard>>

\* run_salesbot.  A time-out, a 429 or a 5xx leaves the row waiting whether or
\* not Kommo accepted the run; another 4xx fails it if no callback came first.
RunSalesbot(w) ==
    LET j == workers[w].job IN
    /\ workers[w].step = "run"
    /\ Done(w)
    /\ \/ runs' = Append(runs, [job |-> j, iat |-> 0, posts |-> 0]) /\ UNCHANGED jobs
       \/ UNCHANGED <<jobs, runs>>
       \/ /\ jobs' = IF HasLease(w) /\ jobs[j].st = "waiting_for_salesbot"
                       THEN Finish(j, "failed") ELSE jobs
          /\ UNCHANGED runs
    /\ UNCHANGED <<receipts, launches, blocked, faults, turns, heard>>

-----------------------------------------------------------------------------
(* The Salesbot and persist_salesbot_callback                              *)

\* Kommo starts an accepted run, sooner or later, and signs its iat.
BotStarts(r) ==
    /\ runs[r].iat = 0
    /\ runs' = [runs EXCEPT ![r].iat = launches]
    /\ UNCHANGED <<jobs, receipts, workers, launches, blocked, faults,
                   turns, heard>>

\* Mutant: the identity of the callback is not looked up in earlier jobs.
ConsumedNever(r) == FALSE
Consumed(r) == \E j \in Messages : jobs[j].run = r
Waiting(r, iat) == {j \in Messages :
    /\ jobs[j].st = "waiting_for_salesbot"
    /\ jobs[j].launched <= iat
    /\ Lead(j) = Lead(runs[r].job)}

\* The callback may come late and more than once; it goes to the newest
\* launch of its lead, and is ignored when its run was used or no row waits.
\* The first launch after iat passes for earlier within the same second.
Callback(r) ==
    /\ runs[r].iat # 0
    /\ ~Consumed(r)
    /\ \E iat \in {runs[r].iat, runs[r].iat + 1} : \E j \in Waiting(r, iat) :
         /\ \A k \in Waiting(r, iat) : jobs[k].launched <= jobs[j].launched
         /\ jobs' = [jobs EXCEPT ![j].st = "ready", ![j].run = r, ![j].lease = 0,
                                 ![j].ai = FALSE, ![j].timed = FALSE]
    /\ UNCHANGED <<receipts, workers, runs, launches, blocked, faults,
                   turns, heard>>

-----------------------------------------------------------------------------
(* _process_ready_job                                                      *)

ClaimReady(w) ==
    /\ workers[w].step = "free"
    /\ \E j \in Messages :
         jobs[j].st = "ready" /\ jobs[j].run # 0 /\ Claim(w, j, "prepare")

Goto(w, step) == workers' = [workers EXCEPT ![w].step = step]

\* _continue_and_discard_job and _fail_ready_job, up to the marking.
Answers(w, says, ending) ==
    workers' = [workers EXCEPT ![w].step = "mark", ![w].says = says, ![w].ending = ending]

\* _retry_ready_job
Retry(w) ==
    LET j == workers[w].job IN
    jobs' = IF Owns(w)
              THEN [jobs EXCEPT ![j].st = "ready", ![j].lease = 0, ![j].ai = FALSE,
                                ![j].timed = FALSE]
              ELSE jobs

\* Up to the first decision: attachments and voice notes come before it.
Prepare(w) ==
    LET j == workers[w].job IN
    /\ workers[w].step = "prepare"
    /\ \/ Answers(w, "apology", "discarded") /\ UNCHANGED jobs  \* attachment, or an error
       \/ /\ jobs[j].attempts < MaxAttempts                     \* transcription, retryable
          /\ Retry(w) /\ Done(w)
       \/ Answers(w, "apology", "failed") /\ UNCHANGED jobs     \* transcription
       \/ /\ UNCHANGED jobs
          /\ IF Lead(j) \in blocked THEN Answers(w, "nothing", "discarded")
                                    ELSE Goto(w, "generate")
    /\ UNCHANGED <<receipts, runs, launches, blocked, faults, turns, heard>>

\* generate_response may escalate the customer itself; that reply is not withheld.
Generate(w) ==
    LET l == Lead(workers[w].job) IN
    /\ workers[w].step = "generate"
    /\ turns' = [turns EXCEPT ![workers[w].job] = @ + 1]
    /\ \/ /\ workers' = [workers EXCEPT ![w].step = "check", ![w].held = (l \in blocked)]
          /\ UNCHANGED blocked
       \/ /\ workers' = [workers EXCEPT ![w].step = "check", ![w].escalated = TRUE]
          /\ blocked' = blocked \cup {l}
       \/ Answers(w, "apology", "discarded") /\ UNCHANGED blocked
    /\ UNCHANGED <<jobs, receipts, runs, launches, faults, heard>>

\* Mutant: the automation state is not read again after the turn.
CheckSkipped(w) ==
    /\ workers[w].step = "check"
    /\ Answers(w, "nothing", "discarded") \/ Answers(w, "reply", "sent")
         \/ Goto(w, "media")
    /\ UNCHANGED <<jobs, receipts, runs, launches, blocked, faults, turns, heard>>

\* The second decision, then text for Salesbot, media for the Chats API, or
\* nothing left to deliver; an error on the way gets an apology.
Check(w) ==
    /\ workers[w].step = "check"
    /\ \/ Answers(w, "nothing", "discarded") \/ Answers(w, "apology", "discarded")
       \/ /\ workers[w].escalated \/ Lead(workers[w].job) \notin blocked
          /\ Answers(w, "reply", "sent") \/ Goto(w, "media")
    /\ UNCHANGED <<jobs, receipts, runs, launches, blocked, faults, turns, heard>>

Hears(w, what) == heard' = [heard EXCEPT ![workers[w].job] = Append(@, what)]
Ends(w, status) ==
    workers' = [workers EXCEPT ![w].step = "end", ![w].ending = status]

\* deliver_response for enabled media (the ledger of the sends is abstracted).
Media(w) ==
    /\ workers[w].step = "media"
    /\ \/ /\ Hears(w, "reply")               \* all accepted, or only a prefix
          /\ \E status \in {"sent", "delivery_unknown"} :
               workers' = [workers EXCEPT ![w].step = "keep", ![w].media = TRUE,
                                          ![w].ending = status]
       \/ /\ Hears(w, "reply") \/ UNCHANGED heard     \* the answer is lost
          /\ Ends(w, "delivery_unknown")
       \/ /\ Answers(w, "apology", "discarded")       \* refused before a send
          /\ UNCHANGED heard
    /\ UNCHANGED <<jobs, receipts, runs, launches, blocked, faults, turns>>

\* _store_assistant_message_after_delivery without a fence: media was sent.
KeepMedia(w) ==
    /\ workers[w].step = "keep"
    /\ \/ /\ jobs' = [jobs EXCEPT ![workers[w].job].kept = TRUE]
          /\ IF workers[w].ending = "sent" THEN Answers(w, "nothing", "sent")
                                           ELSE Goto(w, "end")
       \/ Ends(w, "delivery_unknown") /\ UNCHANGED jobs        \* not stored
    /\ UNCHANGED <<receipts, runs, launches, blocked, faults, turns, heard>>

\* _mark_job_continuing; a task without the lease stops here.
MarkContinuing(w) ==
    LET j == workers[w].job IN
    /\ workers[w].step = "mark"
    /\ IF Owns(w)
         THEN /\ jobs' = [jobs EXCEPT ![j].st = "continuing", ![j].timed = FALSE]
              /\ Goto(w, "post")
         ELSE Done(w) /\ UNCHANGED jobs
    /\ UNCHANGED <<receipts, runs, launches, blocked, faults, turns, heard>>

\* Mutant: the empty continuation is shown to the customer as well.
TakenEmpty(w) ==
    /\ runs' = [runs EXCEPT ![jobs[workers[w].job].run].posts = @ + 1]
    /\ Hears(w, workers[w].says)

\* Kommo takes the continuation; an empty message shows the customer nothing.
Taken(w) ==
    /\ runs' = [runs EXCEPT ![jobs[workers[w].job].run].posts = @ + 1]
    /\ IF workers[w].says = "nothing" THEN UNCHANGED heard ELSE Hears(w, workers[w].says)

\* Mutant: a lost answer counts as accepted.
PostOptimistic(w) ==
    /\ workers[w].step = "post"
    /\ Taken(w) \/ UNCHANGED <<runs, heard>>
    /\ Goto(w, IF workers[w].says = "reply" THEN "store" ELSE "end")
    /\ UNCHANGED <<jobs, receipts, launches, blocked, faults, turns>>

\* continue_salesbot.  Only a status outside _TRANSIENT_CONTINUATION_STATUSES
\* is a definite failure, and not after media was sent or in _fail_ready_job.
Post(w) ==
    /\ workers[w].step = "post"
    /\ \/ /\ Taken(w)
          /\ Goto(w, IF workers[w].says = "reply" THEN "store" ELSE "end")
       \/ /\ Taken(w) \/ UNCHANGED <<runs, heard>>
          /\ Ends(w, "delivery_unknown")
       \/ /\ ~workers[w].media /\ workers[w].ending # "failed"
          /\ Ends(w, "failed") /\ UNCHANGED <<runs, heard>>
    /\ UNCHANGED <<jobs, receipts, launches, blocked, faults, turns>>

\* The continuing row is still leased to the task.
Continuing(w) == HasLease(w) /\ jobs[workers[w].job].st = "continuing"

\* Mutant: an error while the history is written is ignored.
StoreIgnoringErrors(w) ==
    /\ workers[w].step = "store"
    /\ \/ jobs' = IF Continuing(w) THEN [jobs EXCEPT ![workers[w].job].kept = TRUE]
                                    ELSE jobs
       \/ UNCHANGED jobs
    /\ Goto(w, "end")
    /\ UNCHANGED <<receipts, runs, launches, blocked, faults, turns, heard>>

\* _store_assistant_message_after_delivery, fenced by the continuing row.
Store(w) ==
    /\ workers[w].step = "store"
    /\ \/ /\ jobs' = IF Continuing(w) THEN [jobs EXCEPT ![workers[w].job].kept = TRUE]
                                      ELSE jobs
          /\ Goto(w, "end")
       \/ Ends(w, "delivery_unknown") /\ UNCHANGED jobs
    /\ UNCHANGED <<receipts, runs, launches, blocked, faults, turns, heard>>

\* _mark_job_sent and _mark_job_discarded want the continuing row, _mark_job
\* only the lease.
End(w) ==
    /\ workers[w].step = "end"
    /\ IF workers[w].ending \in {"sent", "discarded"} /\ ~Continuing(w)
         THEN UNCHANGED jobs ELSE MarkJob(w, workers[w].ending)
    /\ Done(w)
    /\ UNCHANGED <<receipts, runs, launches, blocked, faults, turns, heard>>

-----------------------------------------------------------------------------
(* Recovery, operators and faults                                          *)

Stale(j, status) == jobs[j].timed /\ jobs[j].st = status
Unstarted(j) == Stale(j, "processing") /\ ~jobs[j].ai

\* The UPDATE that takes unstarted rows back raises while one of them has a
\* pending successor (uq_kommo_message_jobs_pending_correlation); the rest of
\* _process_kommo_jobs, and of recover_stale_jobs, does not run then.
Collides(j) == Unstarted(j) /\ jobs[j].attempts < MaxAttempts /\ jobs[j].run = 0
                 /\ PendingOf(Chat(j)) # {}
Wedged == \E j \in Messages : Collides(j)

\* The UPDATEs of recover_stale_jobs, in their order.
FailWaiting(j) == Stale(j, "waiting_for_salesbot") /\ jobs' = Finish(j, "failed")
TakeBack(j) ==
    /\ Unstarted(j) /\ jobs[j].attempts < MaxAttempts
    /\ ~Wedged
    /\ jobs' = [Finish(j, IF jobs[j].run = 0 THEN "pending" ELSE "ready")
                  EXCEPT ![j].timed = TRUE]
GiveUp(j) ==
    /\ Stale(j, "continuing") \/ (Stale(j, "processing") /\ jobs[j].ai)
    /\ jobs' = Finish(j, "delivery_unknown")
Exhausted(j) ==
    Unstarted(j) /\ jobs[j].attempts >= MaxAttempts /\ jobs' = Finish(j, "failed")

\* Mutant: a stale continuation is tried again.
RecoverContinuing(j) ==
    /\ \/ FailWaiting(j) \/ TakeBack(j) \/ Exhausted(j)
       \/ Stale(j, "continuing") /\ jobs' = Finish(j, "ready")
    /\ UNCHANGED <<receipts, workers, runs, launches, blocked, faults, turns, heard>>

\* Mutant: rows that wait for their callback are not looked at.
RecoverNotWaiting(j) ==
    /\ TakeBack(j) \/ GiveUp(j) \/ Exhausted(j)
    /\ UNCHANGED <<receipts, workers, runs, launches, blocked, faults, turns, heard>>

\* recover_stale_jobs, for one row.  A cycle that got past the second UPDATE
\* may still run the others when a collision arises: fairness tells them apart.
RecoverStale(j) ==
    /\ FailWaiting(j) \/ TakeBack(j) \/ GiveUp(j) \/ Exhausted(j)
    /\ UNCHANGED <<receipts, workers, runs, launches, blocked, faults,
                   turns, heard>>

\* An operator takes a lead over (AI mode, or the state of its customer, which
\* follows the mode), and hands it back to the AI.
TakeOver(l) ==
    /\ l \notin blocked /\ Fault
    /\ blocked' = blocked \cup {l}
    /\ UNCHANGED <<jobs, receipts, workers, runs, launches, turns, heard>>
HandBack(l) ==
    /\ l \in blocked
    /\ blocked' = blocked \ {l}
    /\ workers' = [w \in Workers |->
         IF workers[w].held /\ Lead(workers[w].job) = l
           THEN [workers[w] EXCEPT !.held = FALSE] ELSE workers[w]]
    /\ UNCHANGED <<jobs, receipts, runs, launches, faults, turns, heard>>

\* The process stops and starts again.
Crash ==
    /\ Fault
    /\ workers' = [w \in Workers |-> Free]
    /\ UNCHANGED <<jobs, receipts, runs, launches, blocked, turns, heard>>

-----------------------------------------------------------------------------
TaskStep(w) ==
    \/ ClaimPending(w) \/ Launch(w) \/ RunSalesbot(w)
    \/ Prepare(w) \/ Generate(w) \/ Check(w) \/ Media(w) \/ KeepMedia(w)
    \/ MarkContinuing(w) \/ Post(w) \/ Store(w) \/ End(w)

Next ==
    \/ \E m \in Messages : RecordIncoming(m) \/ TimePasses(m) \/ RecoverStale(m)
    \/ \E w \in Workers : ClaimStarts(w) \/ ClaimReady(w) \/ TaskStep(w)
    \/ \E r \in DOMAIN runs : BotStarts(r) \/ Callback(r)
    \/ \E l \in Leads : TakeOver(l) \/ HandBack(l)
    \/ Crash

Spec == Init /\ [][Next]_vars

(***************************************************************************)
(* Fairness: time passes, the event loop runs the tasks it holds, and the  *)
(* scheduler calls _process_kommo_jobs (recovery, pending claims, ready    *)
(* claims) again and again; while the recovery raises, only its first      *)
(* UPDATE is owed.  Kommo owes no callback, and nobody owes a message, a   *)
(* fault or a takeover.                                                    *)
(***************************************************************************)
FairSpec ==
    /\ Spec
    /\ \A j \in Messages : WF_vars(~Attended(j) /\ TimePasses(j))
    /\ \A j \in Messages : WF_vars(jobs[j].st = "pending" /\ TimePasses(j))
    /\ \A j \in Messages : WF_vars(jobs[j].st = "waiting_for_salesbot" /\ RecoverStale(j))
    /\ \A j \in Messages : WF_vars(~Wedged /\ RecoverStale(j))
    /\ \A w \in Workers : WF_vars(TaskStep(w))
    /\ WF_vars(~Wedged /\ \E w \in Workers : ClaimStarts(w))
    /\ WF_vars(~Wedged /\ \E w \in Workers : ClaimReady(w))

-----------------------------------------------------------------------------
(* Properties                                                              *)

\* Whatever crashes, stalls, late and repeated callbacks come in between: a job
\* takes one AI turn at most, with all its orders, sessions and escalations,
\* and launches one Salesbot run; a run is continued at most once, although its
\* callback may come again while later jobs of the lead wait; and the customer
\* receives one answer to a job, a reply or an apology.
AtMostOnce ==
    /\ TypeOK
    /\ \A j \in Messages : turns[j] <= 1 /\ Len(heard[j]) <= 1
    /\ \A r, s \in DOMAIN runs : runs[r].job = runs[s].job => r = s
    /\ \A r \in DOMAIN runs : runs[r].posts <= 1

\* "sent" is true (Kommo took the reply and the history has it), and the
\* history has no reply the customer did not receive.
Truthful == \A j \in Messages :
    /\ jobs[j].st = "sent" => heard[j] = <<"reply">> /\ jobs[j].kept
    /\ jobs[j].kept => heard[j] = <<"reply">>

\* A closed job stays as it is: no late task, callback or recovery reopens it
\* or writes another outcome over the one an operator may have acted upon.
ClosedStaysClosed ==
    [][\A j \in Messages : jobs[j].st \in Terminal => jobs'[j].st = jobs[j].st]_vars

\* A reply generated while the lead was taken over is not sent, unless the
\* operator handed the lead back first.  A turn that escalated the customer
\* itself skips the second decision (jobs.py:1529), and is not meant here.
HandoffRespected ==
    [][\A w \in Workers : workers[w].held =>
         heard'[workers[w].job] # Append(heard[workers[w].job], "reply")]_vars

Closes(m) == \E j \in Messages : m \in jobs[j].parts /\ jobs[j].st \in Terminal

Phases == [m \in Messages |-> IF m \notin receipts THEN "none"
                              ELSE IF Closes(m) THEN "closed" ELSE "open"]
Copies == [m \in Messages |-> IF m \notin receipts THEN 0
             ELSE Len(heard[CHOOSE j \in Messages : m \in jobs[j].parts])]

\* The promise of Answers to the messages of a chat, which jobs answer together.
Promise == INSTANCE Answers WITH
    Newest <- MaxMessages, ChatOf <- ChatOf, phase <- Phases, copies <- Copies
AnswersImplemented == Promise!Spec

\* Every recorded message ends in a closed job, whatever callback is lost, task
\* crashed or older job of the lead in its way, unless the recovery collides
\* with the unique index of pending jobs (jobs.py:788): a chat with a stale job
\* and a newer pending one is never served again.
ClosesUnlessWedged == \A m \in Messages : m \in receipts ~> Closes(m) \/ Wedged

\* A chat has one active job at most, whatever is taken back, claimed and
\* called back: no claim ever meets uq_kommo_message_jobs_active_salesbot.
OneActivePerChat == \A j, k \in Messages :
    jobs[j].st \in Active /\ jobs[k].st \in Active /\ Chat(j) = Chat(k) => j = k
=============================================================================
