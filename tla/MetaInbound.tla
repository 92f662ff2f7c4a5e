---------------------------- MODULE MetaInbound ----------------------------
(***************************************************************************)
(* The durable debounce queue between the Meta webhooks and the AI turns   *)
(* (store/app/webhooks/inbound_buffer.py) and the processors that answer a *)
(* batch (_deliver_ai_response in whatsapp.py and instagram.py).           *)
(*                                                                         *)
(* Each transaction on meta_inbound_jobs holds the sender's advisory lock  *)
(* or locks the one pending row it changes (SKIP LOCKED in the claims), so *)
(* a transaction is one action.  What happens between two transactions of  *)
(* a worker is where other workers, the webhooks, the recovery of stale    *)
(* leases and a crash of the process interleave.                           *)
(*                                                                         *)
(* A message is named by its arrival number, a job by the message that     *)
(* inserted its row, a lease token by the number of the claim.             *)
(***************************************************************************)
EXTENDS Integers, Sequences, SequencesExt, FiniteSetsExt

CONSTANTS MaxMessages,  \* bound: messages Meta delivers
          Senders,
          From,         \* the sender of each message
          WithMedia,    \* messages that carry an image
          Workers,      \* slots of _inbound_processor_semaphore
          MaxAttempts,  \* MAX_PROCESSING_ATTEMPTS
          MaxTries,     \* MAX_META_SEND_ATTEMPTS
          MaxReply,     \* bound: sends that make up one reply
          MaxFaults     \* bound: crashes, stalls and failed requeues

Messages == 1..MaxMessages

ASSUME InboundAssumption ==
    /\ MaxMessages \in Nat /\ MaxReply \in Nat /\ MaxFaults \in Nat
    /\ From \in [Messages -> Senders]
    /\ WithMedia \subseteq Messages
    /\ MaxAttempts \in Nat \ {0} /\ MaxTries \in Nat \ {0}

VARIABLES jobs,     \* meta_inbound_jobs
          receipts, \* meta_inbound_receipts: the messages already accepted
          workers,  \* the tasks running _process_claimed_job
          snap,     \* the stale rows recover_stale_inbound_jobs has selected
          leases,   \* lease tokens issued so far
          faults,   \* faults so far
          answers   \* history: turns with an accepted send, by message

vars == <<jobs, receipts, workers, snap, leases, faults, answers>>

Failures == {"merged", "exhausted", "unknown", "partial"}
Terminal == {"completed"} \cup Failures   \* status and, if failed, last_error
Open == {"pending", "processing"}

Job == [st : {"absent"} \cup Open \cup Terminal,
        parts : Seq(Messages), media : Messages \cup {0},
        due : BOOLEAN, attempts : Nat, lease : Nat, stale : BOOLEAN,
        started : BOOLEAN, sent : BOOLEAN]
NoJob == [st |-> "absent", parts |-> <<>>, media |-> 0, due |-> FALSE,
          attempts |-> 0, lease |-> 0, stale |-> FALSE,
          started |-> FALSE, sent |-> FALSE]

Free == [step |-> "free", job |-> 0, lease |-> 0, parts |-> <<>>,
         left |-> 0, tries |-> 0, hit |-> FALSE, safe |-> FALSE]
Task == [step : {"free", "generate", "fence", "send", "record", "complete", "requeue"},
         job : Messages \cup {0}, lease : Nat, parts : Seq(Messages),
         left : 0..MaxReply, tries : 0..MaxTries, hit : BOOLEAN, safe : BOOLEAN]

JobsOf(s, status) == {j \in Messages : From[j] = s /\ jobs[j].st = status}

\* The last conjunct: no transaction trips a partial unique index of the queue,
\* one pending and one processing row per sender.
TypeOK ==
    /\ jobs \in [Messages -> Job]
    /\ receipts \subseteq Messages
    /\ workers \in [Workers -> Task]
    /\ snap \subseteq [job : Messages, lease : Nat]
    /\ leases \in Nat
    /\ faults \in 0..MaxFaults
    /\ answers \in [Messages -> Nat]
    /\ \A s \in Senders, st \in Open : Cardinality(JobsOf(s, st)) <= 1

Init ==
    /\ jobs = [j \in Messages |-> NoJob]
    /\ receipts = {}
    /\ workers = [w \in Workers |-> Free]
    /\ snap = {}
    /\ leases = 0
    /\ faults = 0
    /\ answers = [m \in Messages |-> 0]

-----------------------------------------------------------------------------
(* enqueue_inbound_message                                                 *)

\* SQL COALESCE over media ids, 0 for NULL.
Coalesce(a, b) == IF a # 0 THEN a ELSE b
MediaOf(m) == IF m \in WithMedia THEN m ELSE 0

\* Append to the sender's pending batch and restart its window, or insert one.
Append1(j, m) ==
    [jobs EXCEPT ![j].parts = Append(@, m), ![j].due = FALSE,
                 ![j].media = Coalesce(MediaOf(m), @)]
Insert1(m) ==
    [jobs EXCEPT ![m] = [NoJob EXCEPT !.st = "pending", !.parts = <<m>>,
                                      !.media = MediaOf(m)]]

\* Mutant: a redelivered message is not looked up in the receipts.
EnqueueNoReceipt(m) ==
    /\ 1..(m - 1) \subseteq receipts
    /\ faults < MaxFaults
    /\ IF JobsOf(From[m], "pending") = {}
         THEN jobs' = Insert1(m)
         ELSE \E j \in JobsOf(From[m], "pending") : jobs' = Append1(j, m)
    /\ receipts' = receipts \cup {m}
    /\ faults' = IF m \in receipts THEN faults + 1 ELSE faults
    /\ UNCHANGED <<workers, snap, leases, answers>>

\* Meta may deliver a message again; its receipt then ends the transaction.
Enqueue(m) ==
    /\ 1..(m - 1) \subseteq receipts     \* messages are numbered by arrival
    /\ m \notin receipts
    /\ IF JobsOf(From[m], "pending") = {}
         THEN jobs' = Insert1(m)
         ELSE \E j \in JobsOf(From[m], "pending") : jobs' = Append1(j, m)
    /\ receipts' = receipts \cup {m}
    /\ UNCHANGED <<workers, snap, leases, faults, answers>>

\* available_at passes.
WindowElapses(j) ==
    /\ jobs[j].st = "pending" /\ ~jobs[j].due
    /\ jobs' = [jobs EXCEPT ![j].due = TRUE]
    /\ UNCHANGED <<receipts, workers, snap, leases, faults, answers>>

-----------------------------------------------------------------------------
(* Claims                                                                  *)

\* Status, token and heartbeat of the row; the task gets the row's contents.
Lease(w, j) ==
    /\ leases' = leases + 1
    /\ jobs' = [jobs EXCEPT ![j].st = "processing", ![j].lease = leases + 1,
                            ![j].attempts = @ + 1, ![j].stale = FALSE]
    /\ workers' = [workers EXCEPT ![w] =
                     [Free EXCEPT !.step = "generate", !.job = j,
                                  !.lease = leases + 1, !.parts = jobs[j].parts]]
    /\ UNCHANGED <<receipts, snap, faults, answers>>

\* Mutant: an active batch of the same sender does not hold the claim back.
ClaimDueAnyTime(w) ==
    /\ workers[w].step = "free"
    /\ \E j \in Messages : jobs[j].st = "pending" /\ jobs[j].due /\ Lease(w, j)

\* _claim_due_job, from the scheduler, for any sender.
ClaimDue(w) ==
    /\ workers[w].step = "free"
    /\ \E j \in Messages :
         /\ jobs[j].st = "pending" /\ jobs[j].due
         /\ JobsOf(From[j], "processing") = {}
         /\ Lease(w, j)

\* _claim_sender_job, from the task started by the enqueue.
ClaimSender(w, s) ==
    /\ workers[w].step = "free"
    /\ JobsOf(s, "processing") = {}
    /\ \E j \in JobsOf(s, "pending") : jobs[j].due /\ Lease(w, j)

-----------------------------------------------------------------------------
(* _process_claimed_job and the processor it calls                         *)

\* The predicate of every fenced UPDATE.
Current(w) == LET j == workers[w].job IN
    jobs[j].st = "processing" /\ jobs[j].lease = workers[w].lease
Step(w, step) == workers' = [workers EXCEPT ![w].step = step]
\* An exception other than a retryable MetaSendError.
Fails(w) == workers' = [workers EXCEPT ![w].step = "requeue", ![w].safe = FALSE]

\* generate_response: a reply of n sends, none while the AI is paused or the
\* customer escalated; an error becomes one apology.  The rows of the
\* history, which no claim reads, are left out.
Generate(w) ==
    /\ workers[w].step = "generate"
    /\ \E n \in 0..MaxReply :
         workers' = [workers EXCEPT ![w].left = n,
                       ![w].step = IF n = 0 THEN "complete" ELSE "fence"]
    /\ UNCHANGED <<jobs, receipts, snap, leases, faults, answers>>

\* mark_outbound_send_started; the send is refused when the lease is gone.
Fence(w) ==
    /\ workers[w].step = "fence"
    /\ \/ /\ Current(w)
          /\ jobs' = [jobs EXCEPT ![workers[w].job].started = TRUE]
          /\ workers' = [workers EXCEPT ![w].step = "send", ![w].tries = 0]
       \/ Fails(w) /\ UNCHANGED jobs   \* no lease, or no database
    /\ UNCHANGED <<receipts, snap, leases, faults, answers>>

\* Meta accepts the message.
Accepted(w) ==
    answers' = IF workers[w].hit THEN answers
               ELSE [m \in Messages |-> answers[m]
                       + IF Contains(workers[w].parts, m) THEN 1 ELSE 0]

\* One attempt of send_func inside send_with_delivery_record.
Send(w) ==
    /\ workers[w].step = "send"
    /\ \/ /\ Accepted(w)              \* accepted, and the answer arrives
          /\ workers' = [workers EXCEPT ![w].step = "record", ![w].hit = TRUE]
       \/ /\ Accepted(w)              \* accepted, but a time-out or a 5xx
          /\ workers' = [workers EXCEPT ![w].step = "requeue", ![w].safe = FALSE,
                                        ![w].hit = TRUE]
       \/ Fails(w) /\ UNCHANGED answers          \* not accepted, not retryable
       \/ /\ workers[w].tries + 1 < MaxTries     \* 401, 403, 429, no connection
          /\ workers' = [workers EXCEPT ![w].tries = @ + 1]
          /\ UNCHANGED answers
       \/ /\ workers[w].tries + 1 >= MaxTries
          /\ workers' = [workers EXCEPT ![w].step = "requeue", ![w].safe = TRUE]
          /\ UNCHANGED answers
    /\ UNCHANGED <<jobs, receipts, snap, leases, faults>>

\* Mutant: the last send of a reply is not recognised as the last.
RecordExtraSend(w) ==
    /\ workers[w].step = "record"
    /\ jobs' = IF Current(w) THEN [jobs EXCEPT ![workers[w].job].sent = TRUE] ELSE jobs
    /\ workers' = [workers EXCEPT ![w].left = @ - 1,
                     ![w].step = IF workers[w].left = 0 THEN "complete" ELSE "fence"]
    /\ UNCHANGED <<receipts, snap, leases, faults, answers>>

\* record_outbound_message: without the lease the UPDATE matches no row.
Record(w) ==
    /\ workers[w].step = "record"
    /\ \/ /\ jobs' = IF Current(w) THEN [jobs EXCEPT ![workers[w].job].sent = TRUE]
                                   ELSE jobs
          /\ workers' = [workers EXCEPT ![w].left = @ - 1,
                           ![w].step = IF workers[w].left = 1
                                         THEN "complete" ELSE "fence"]
       \/ Fails(w) /\ UNCHANGED jobs
    /\ UNCHANGED <<receipts, snap, leases, faults, answers>>

\* The row leaves processing: token and timestamps are cleared.
Finish(j, status) ==
    [jobs EXCEPT ![j].st = status, ![j].lease = 0, ![j].stale = FALSE]

\* Mutant: the completion is not fenced by the lease token.
CompleteUnfenced(w) ==
    /\ workers[w].step = "complete"
    /\ jobs' = IF jobs[workers[w].job].st \in Open
                 THEN Finish(workers[w].job, "completed") ELSE jobs
    /\ workers' = [workers EXCEPT ![w] = Free]
    /\ UNCHANGED <<receipts, snap, leases, faults, answers>>

Complete(w) ==
    /\ workers[w].step = "complete"
    /\ \/ /\ jobs' = IF Current(w) THEN Finish(workers[w].job, "completed") ELSE jobs
          /\ workers' = [workers EXCEPT ![w] = Free]
       \/ Fails(w) /\ UNCHANGED jobs
    /\ UNCHANGED <<receipts, snap, leases, faults, answers>>

\* Mutant: the older batch is put behind the messages that arrived later.
MergeBehind(j, p, due) ==
    [Finish(j, "merged") EXCEPT
       ![p].parts = @ \o jobs[j].parts, ![p].due = due,
       ![p].media = Coalesce(@, jobs[j].media)]

\* Mutant: the media of the older batch wins.
MergeOldMedia(j, p, due) ==
    [Finish(j, "merged") EXCEPT
       ![p].parts = jobs[j].parts \o @, ![p].due = due,
       ![p].media = Coalesce(jobs[j].media, @)]

\* Job j goes back in front of the newer pending batch p and is closed.
Merge(j, p, due) ==
    [Finish(j, "merged") EXCEPT
       ![p].parts = jobs[j].parts \o @, ![p].due = due,
       ![p].media = Coalesce(@, jobs[j].media)]

\* Mutant: a job with a started send goes back to pending after any error.
GiveBackIgnoringSends(j, retry, safe, due) ==
    LET newer == JobsOf(From[j], "pending") IN
    \/ retry /\ \E p \in newer : jobs' = Merge(j, p, due)
    \/ retry /\ newer = {} /\ jobs' = [Finish(j, "pending") EXCEPT ![j].due = due]
    \/ ~retry /\ jobs' = Finish(j, "exhausted")

\* _requeue_failed_job for a job that is still ours, and the same choice in
\* recover_stale_inbound_jobs for a job whose worker is gone.
GiveBack(j, retry, safe, due) ==
    LET newer == JobsOf(From[j], "pending") IN
    IF jobs[j].started /\ ~safe THEN jobs' = Finish(j, "unknown")
    ELSE \/ retry /\ \E p \in newer : jobs' = Merge(j, p, due)
         \/ retry /\ newer = {} /\ jobs' = [Finish(j, "pending") EXCEPT ![j].due = due]
         \/ ~retry /\ jobs' = Finish(j, "exhausted")

Requeue(w) ==
    LET j == workers[w].job IN
    /\ workers[w].step = "requeue"
    /\ IF ~Current(w) THEN jobs' = jobs
       ELSE IF jobs[j].sent THEN jobs' = Finish(j, "partial")
       ELSE GiveBack(j, jobs[j].attempts < MaxAttempts, workers[w].safe, FALSE)
    /\ workers' = [workers EXCEPT ![w] = Free]
    /\ UNCHANGED <<receipts, snap, leases, faults, answers>>

-----------------------------------------------------------------------------
(* Leases, heartbeats and recovery                                         *)

Holds(w, j) == workers[w].job = j /\ workers[w].lease = jobs[j].lease

\* PROCESSING_LEASE_MINUTES pass without a heartbeat: nobody holds the lease,
\* or its worker cannot reach the database.
LeaseExpires(j) ==
    /\ jobs[j].st = "processing" /\ ~jobs[j].stale
    /\ jobs' = [jobs EXCEPT ![j].stale = TRUE]
    /\ IF \E w \in Workers : Holds(w, j)
         THEN faults < MaxFaults /\ faults' = faults + 1
         ELSE UNCHANGED faults
    /\ UNCHANGED <<receipts, workers, snap, leases, answers>>

\* _heartbeat_claimed_job gets through again.
Heartbeat(w) ==
    /\ workers[w].step # "free" /\ Current(w)
    /\ jobs[workers[w].job].stale
    /\ jobs' = [jobs EXCEPT ![workers[w].job].stale = FALSE]
    /\ UNCHANGED <<receipts, workers, snap, leases, faults, answers>>

\* Mutant: leases with a started send are left to the operator.
StaleRowsUnstarted ==
    {[job |-> j, lease |-> jobs[j].lease] :
       j \in {i \in Messages : jobs[i].st = "processing" /\ jobs[i].stale
                             /\ ~jobs[i].started}}

\* recover_stale_inbound_jobs reads the stale rows, then handles each row in
\* a transaction of its own.
StaleRows == {[job |-> j, lease |-> jobs[j].lease] :
                 j \in {i \in Messages : jobs[i].st = "processing" /\ jobs[i].stale}}
RecoverSelect ==
    /\ snap = {} /\ StaleRows # {}
    /\ snap' = StaleRows
    /\ UNCHANGED <<jobs, receipts, workers, leases, faults, answers>>

\* Mutant: the row is not checked again under the sender's lock.
RecoverUnchecked(row) ==
    LET j == row.job IN
    /\ snap' = snap \ {row}
    /\ IF jobs[j].st \notin Open THEN jobs' = jobs
       ELSE IF jobs[j].sent THEN jobs' = Finish(j, "completed")
       ELSE GiveBack(j, TRUE, FALSE, TRUE)
    /\ UNCHANGED <<receipts, workers, leases, faults, answers>>

Recover(row) ==
    LET j == row.job IN
    /\ snap' = snap \ {row}
    /\ IF row \notin StaleRows THEN jobs' = jobs
       ELSE IF jobs[j].sent THEN jobs' = Finish(j, "completed")
       ELSE GiveBack(j, TRUE, FALSE, TRUE)
    /\ UNCHANGED <<receipts, workers, leases, faults, answers>>

\* The requeue's own transaction fails: the job keeps its lease, unattended.
RequeueFails(w) ==
    /\ workers[w].step = "requeue"
    /\ faults < MaxFaults /\ faults' = faults + 1
    /\ workers' = [workers EXCEPT ![w] = Free]
    /\ UNCHANGED <<jobs, receipts, snap, leases, answers>>

\* The process stops and starts again.
Crash ==
    /\ faults < MaxFaults /\ faults' = faults + 1
    /\ workers' = [w \in Workers |-> Free]
    /\ snap' = {}
    /\ UNCHANGED <<jobs, receipts, leases, answers>>

-----------------------------------------------------------------------------
WorkerStep(w) ==
    \/ Generate(w) \/ Fence(w) \/ Send(w) \/ Record(w) \/ Complete(w) \/ Requeue(w)

Next ==
    \/ \E m \in Messages : Enqueue(m) \/ WindowElapses(m) \/ LeaseExpires(m)
    \/ \E w \in Workers :
         \/ ClaimDue(w) \/ WorkerStep(w) \/ RequeueFails(w) \/ Heartbeat(w)
         \/ \E s \in Senders : ClaimSender(w, s)
    \/ RecoverSelect
    \/ \E row \in snap : Recover(row)
    \/ Crash

Spec == Init /\ [][Next]_vars

(***************************************************************************)
(* Fairness: the event loop runs every task it holds, time passes (windows *)
(* end, and so do leases nobody renews), and the scheduler calls           *)
(* process_due_inbound_jobs every 5 seconds.  Deliveries by Meta and       *)
(* faults are never obliged to happen.                                     *)
(***************************************************************************)
FairSpec ==
    /\ Spec
    /\ \A m \in Messages : WF_vars(WindowElapses(m))
    /\ \A m \in Messages :
         WF_vars((\A w \in Workers : ~Holds(w, m)) /\ LeaseExpires(m))
    /\ \A w \in Workers : WF_vars(WorkerStep(w))
    /\ WF_vars(\E w \in Workers : ClaimDue(w))
    /\ WF_vars(RecoverSelect)
    /\ WF_vars(\E row \in snap : Recover(row))

-----------------------------------------------------------------------------
(* Properties                                                              *)

Increasing(s) == \A i, k \in DOMAIN s : i < k => s[i] < s[k]

\* Through any number of appends, retries and merges (of the requeue and of the
\* recovery) every accepted message sits in exactly one row that is not merged,
\* a batch reads in the order the customer wrote, the batch being answered is
\* older than the one that waits, and the image a turn looks at is the newest.
MessagesIntact ==
    /\ \A m \in receipts :
         LET rows == {j \in Messages : jobs[j].st \notin {"absent", "merged"}}
             places == UNION {{j} \X {i \in DOMAIN jobs[j].parts : jobs[j].parts[i] = m} : j \in rows}
         IN Cardinality(places) = 1
    /\ \A s \in Senders :
         /\ \A j \in JobsOf(s, "pending") \cup JobsOf(s, "processing") :
              Increasing(jobs[j].parts)
         /\ \A j \in JobsOf(s, "processing"), p \in JobsOf(s, "pending") :
              Increasing(jobs[j].parts \o jobs[p].parts)
    /\ \A j \in Messages : jobs[j].st \in Open =>
         jobs[j].media = Max({m \in WithMedia : Contains(jobs[j].parts, m)} \cup {0})

\* A lease protects the worker that holds it, and nobody else.  A row is
\* completed only by a turn that saw all of its parts, or after Meta accepted a
\* reply to it: never by a worker whose lease was taken away and whose batch has
\* grown since.  A lease with a recent heartbeat ends only by a step of its
\* holder: the recovery, which selected its rows earlier, leaves alone a row that
\* was renewed or claimed again while it waited for the sender's lock.
LeasesRespected ==
    [][\A j \in Messages :
         /\ jobs[j].st \in Open /\ jobs'[j].st = "completed" =>
              \/ jobs[j].sent
              \/ \E w \in Workers : /\ Holds(w, j) /\ jobs[j].lease # 0
                                    /\ workers[w].parts = jobs[j].parts
         /\ /\ jobs[j].st = "processing" /\ ~jobs[j].stale
            /\ jobs'[j].lease # jobs[j].lease
            => \E w \in Workers : Holds(w, j) /\ workers'[w] # workers[w]]_vars

Settled(m) == \E j \in Messages :
    Contains(jobs[j].parts, m) /\ jobs[j].st \in Terminal \ {"merged"}

\* What the rows say of a message.
Phases == [m \in Messages |-> IF m \notin receipts THEN "none"
                              ELSE IF Settled(m) THEN "closed" ELSE "open"]
Promise == INSTANCE Answers WITH
    Newest <- MaxMessages, ChatOf <- From, copies <- answers, phase <- Phases

\* The promise of Answers: no requeue, merge, recovery or late worker makes Meta
\* accept a second reply to a message, or one out of the order of the chat, and
\* a batch that was closed is never answered again or opened.
AnswersImplemented == Promise!Spec

\* Every accepted message reaches an end: its batch is completed or closed as
\* failed, whatever crashes, lost leases and failed sends come in between.
EveryMessageSettles == \A m \in Messages : m \in receipts ~> Settled(m)
=============================================================================
