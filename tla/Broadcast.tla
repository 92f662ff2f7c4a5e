----------------------------- MODULE Broadcast -----------------------------
(***************************************************************************)
(* One WhatsApp campaign: the delivery ledger and the tasks that work it   *)
(* off (store/app/broadcast/sender.py), the recovery of stale claims by    *)
(* the scheduler, and the operator's reset and retry                       *)
(* (store/app/broadcast/api.py).  Campaigns share nothing but customers.   *)
(*                                                                         *)
(* A task is one call of execute_broadcast: from the API, from Telegram or *)
(* from the scheduler.  Each SQL statement is one action; nothing but the  *)
(* claim of the campaign and of a row is atomic with what follows.         *)
(***************************************************************************)
EXTENDS Integers, FiniteSets

CONSTANTS Customers,
          Tasks,       \* concurrent calls of execute_broadcast
          MaxFaults,   \* bound: database errors and crashes
          MaxResets,   \* bound: resets and retries by the operator
          SlowTasks,   \* may a claim outlive 5 minutes with its task alive?
          Null

ASSUME BroadcastAssumption ==
    /\ IsFiniteSet(Customers)
    /\ MaxFaults \in Nat /\ MaxResets \in Nat
    /\ SlowTasks \in BOOLEAN
    /\ Null \notin Customers

VARIABLES campaign, \* the broadcasts row
          ledger,   \* broadcast_deliveries, by customer
          consent,  \* customers that opted in and are not blocked
          tasks,
          reset,    \* the statement of reset_broadcast_endpoint that is next
          faults, resets,
          overlap,  \* history: executions or resets of the campaign overlapped
          audience, \* history: the customers of the first snapshot
          accepted  \* history: templates Meta accepted, by customer

vars == <<campaign, ledger, consent, tasks, reset, faults, resets, overlap, audience, accepted>>
bounds == <<faults, resets>>
history == <<overlap, audience, accepted>>

Final == {"sent", "partial", "failed"}
Campaign == [status : {"draft", "scheduled", "sending"} \cup Final,
             seeded : BOOLEAN, recipients : Nat]

\* "rejected" is failed with last_error 'known_meta_send_failure'.
Row == [st : {"none", "pending", "sending", "sent", "failed", "rejected", "unknown"},
        started : BOOLEAN, stale : BOOLEAN]
NoRow == [st |-> "none", started |-> FALSE, stale |-> FALSE]

Task == [step : {"free", "seed", "claim", "mark", "send", "sent", "error",
                 "count", "finish", "abort"},
         cust : Customers \cup {Null},
         result : {"none", "failed", "rejected", "unknown"} \cup Final,
         sent : Nat]
Free == [step |-> "free", cust |-> Null, result |-> "none", sent |-> 0]

TypeOK ==
    /\ campaign \in Campaign
    /\ ledger \in [Customers -> Row]
    /\ consent \subseteq Customers
    /\ tasks \in [Tasks -> Task]
    /\ reset \in {"none", "failures", "draft"}
    /\ faults \in 0..MaxFaults /\ resets \in 0..MaxResets
    /\ overlap \in BOOLEAN /\ audience \subseteq Customers
    /\ accepted \in [Customers -> Nat]

Init ==
    /\ \E s \in {"draft", "scheduled"} :      \* create_broadcast
         campaign = [status |-> s, seeded |-> FALSE, recipients |-> 0]
    /\ ledger = [c \in Customers |-> NoRow]
    /\ consent \in SUBSET Customers
    /\ tasks = [t \in Tasks |-> Free]
    /\ reset = "none"
    /\ faults = 0 /\ resets = 0
    /\ overlap = FALSE /\ audience = {}
    /\ accepted = [c \in Customers |-> 0]

-----------------------------------------------------------------------------
(* execute_broadcast                                                       *)

Goto(t, step) == tasks' = [tasks EXCEPT ![t].step = step]
With(status) == {c \in Customers : ledger[c].st = status}

NoteOverlap ==
    overlap' = (overlap \/ reset # "none" \/ \E t \in Tasks : tasks[t].step # "free")

\* The conditional UPDATE ... RETURNING: one caller gets the campaign.
Begin(t) ==
    /\ tasks[t].step = "free"
    /\ campaign.status \in {"draft", "scheduled"}
    /\ campaign' = [campaign EXCEPT !.status = "sending"]
    /\ Goto(t, "seed") /\ NoteOverlap
    /\ UNCHANGED <<ledger, consent, reset, bounds, audience, accepted>>

\* Mutant: every execution adds the customers that match now.
SeedAgain(t) ==
    /\ tasks[t].step = "seed"
    /\ \E tagged \in SUBSET Customers :
         /\ ledger' = [c \in Customers |->
                         IF c \in tagged \cap consent /\ ledger[c].st = "none"
                           THEN [NoRow EXCEPT !.st = "pending"] ELSE ledger[c]]
         /\ campaign' = [campaign EXCEPT !.seeded = TRUE]
         /\ audience' = IF campaign.seeded THEN audience ELSE tagged \cap consent
    /\ Goto(t, "claim")
    /\ UNCHANGED <<consent, reset, bounds, overlap, accepted>>

\* _seed_delivery_ledger: the customers with the tags, once per campaign.
Seed(t) ==
    /\ tasks[t].step = "seed"
    /\ IF campaign.seeded THEN UNCHANGED <<campaign, ledger, audience>>
       ELSE \E tagged \in SUBSET Customers :
              /\ audience' = tagged \cap consent
              /\ ledger' = [c \in Customers |->
                              IF c \in audience' THEN [NoRow EXCEPT !.st = "pending"]
                                                 ELSE ledger[c]]
              /\ campaign' = [campaign EXCEPT !.seeded = TRUE]
    /\ Goto(t, "claim")
    /\ UNCHANGED <<consent, reset, bounds, overlap, accepted>>

\* _claim_next_delivery: a pending row, failed at once if no longer eligible.
Claim(t) ==
    /\ tasks[t].step = "claim"
    /\ IF With("pending") = {} THEN Goto(t, "count") /\ UNCHANGED ledger
       ELSE \E c \in With("pending") :
              IF c \in consent
                THEN /\ ledger' = [ledger EXCEPT ![c].st = "sending", ![c].stale = FALSE]
                     /\ tasks' = [tasks EXCEPT ![t].step = "mark", ![t].cust = c]
                ELSE /\ ledger' = [ledger EXCEPT ![c].st = "failed"]
                     /\ UNCHANGED tasks
    /\ UNCHANGED <<campaign, consent, reset, bounds, history>>

\* outbound_started_at; that no row may match is not looked at.
Mark(t) ==
    LET c == tasks[t].cust IN
    /\ tasks[t].step = "mark"
    /\ ledger' = IF ledger[c].st = "sending" THEN [ledger EXCEPT ![c].started = TRUE]
                                             ELSE ledger
    /\ Goto(t, "send")
    /\ UNCHANGED <<campaign, consent, reset, bounds, history>>

\* send_template, and how its exceptions are classified.
Raise(t, result) ==
    tasks' = [tasks EXCEPT ![t].step = "error", ![t].result = result]
Send(t) ==
    LET accept == accepted' = [accepted EXCEPT ![tasks[t].cust] = @ + 1] IN
    /\ tasks[t].step = "send"
    /\ \/ accept /\ Goto(t, "sent")
       \/ (accept \/ UNCHANGED accepted) /\ Raise(t, "unknown")  \* 5xx
       \/ (accept \/ UNCHANGED accepted) /\ Raise(t, "failed")   \* read time-out
       \/ UNCHANGED accepted /\ Raise(t, "rejected")             \* 4xx, no connection
    /\ UNCHANGED <<campaign, ledger, consent, reset, bounds, overlap, audience>>

\* Mutant: every failed attempt is recorded as known not to be delivered.
RecordAsRejected(c, status) ==
    IF ledger[c].st = "sending"
      THEN [ledger EXCEPT ![c].st = IF status = "sent" THEN "sent" ELSE "rejected"]
      ELSE ledger

\* The outcome is written only to a row that is still being sent.
RecordOutcome(c, status) ==
    IF ledger[c].st = "sending" THEN [ledger EXCEPT ![c].st = status] ELSE ledger

MarkSent(t) ==
    /\ tasks[t].step = "sent"
    /\ ledger' = RecordOutcome(tasks[t].cust, "sent")
    /\ tasks' = [tasks EXCEPT ![t].step = "claim", ![t].cust = Null]
    /\ UNCHANGED <<campaign, consent, reset, bounds, history>>

MarkError(t) ==
    /\ tasks[t].step = "error"
    /\ ledger' = RecordOutcome(tasks[t].cust, tasks[t].result)
    /\ tasks' = [tasks EXCEPT ![t].step = "claim", ![t].cust = Null, ![t].result = "none"]
    /\ UNCHANGED <<campaign, consent, reset, bounds, history>>

\* _delivery_counts and the final status; pending rows are not counted.
Count(t) ==
    LET sent == Cardinality(With("sent"))
        errors == With("failed") \cup With("rejected") \cup With("sending")
                    \cup With("unknown")
    IN
    /\ tasks[t].step = "count"
    /\ tasks' = [tasks EXCEPT ![t].step = "finish", ![t].sent = sent,
                   ![t].result = IF errors = {} THEN "sent"
                                 ELSE IF sent > 0 THEN "partial" ELSE "failed"]
    /\ UNCHANGED <<campaign, ledger, consent, reset, bounds, history>>

\* Mutant: the recipients of the final counts are not written.
FinishStatusOnly(t) ==
    /\ tasks[t].step = "finish"
    /\ campaign' = [campaign EXCEPT !.status = tasks[t].result]
    /\ tasks' = [tasks EXCEPT ![t] = Free]
    /\ UNCHANGED <<ledger, consent, reset, bounds, history>>

\* The final UPDATE, whatever the status has become in the meantime.
Finish(t) ==
    /\ tasks[t].step = "finish"
    /\ campaign' = [campaign EXCEPT !.status = tasks[t].result,
                                    !.recipients = tasks[t].sent]
    /\ tasks' = [tasks EXCEPT ![t] = Free]
    /\ UNCHANGED <<ledger, consent, reset, bounds, history>>

\* A statement raises: inside the try of one delivery the row is marked
\* failed next, anywhere else the campaign is.
DatabaseError(t) ==
    /\ faults < MaxFaults /\ faults' = faults + 1
    /\ \/ tasks[t].step \in {"mark", "sent"} /\ Raise(t, "failed")
       \/ /\ tasks[t].step \in {"seed", "claim", "error", "count", "finish"}
          /\ tasks' = [tasks EXCEPT ![t] = [Free EXCEPT !.step = "abort"]]
    /\ UNCHANGED <<campaign, ledger, consent, reset, resets, history>>

\* Mutant: the campaign gets a status the schema does not know.
AbortUnknownStatus(t) ==
    /\ tasks[t].step = "abort"
    /\ campaign' = [campaign EXCEPT !.status = "crashed"]
    /\ tasks' = [tasks EXCEPT ![t] = Free]
    /\ UNCHANGED <<ledger, consent, reset, bounds, history>>

\* The outer except.
Abort(t) ==
    /\ tasks[t].step = "abort"
    /\ campaign' = [campaign EXCEPT !.status = "failed"]
    /\ tasks' = [tasks EXCEPT ![t] = Free]
    /\ UNCHANGED <<ledger, consent, reset, bounds, history>>

-----------------------------------------------------------------------------
(* Recovery, reset and retry                                               *)

Holder(c) == \E t \in Tasks : tasks[t].cust = c

\* claimed_at becomes older than 5 minutes.
ClaimAges(c) ==
    /\ ledger[c].st = "sending" /\ ~ledger[c].stale
    /\ SlowTasks \/ ~Holder(c)
    /\ ledger' = [ledger EXCEPT ![c].stale = TRUE]
    /\ UNCHANGED <<campaign, consent, tasks, reset, bounds, history>>

Stale(c) == ledger[c].st = "sending" /\ ledger[c].stale

\* Mutant: a stale claim goes back to pending, started or not.
RecoveredAll ==
    [c \in Customers |-> IF Stale(c) THEN [NoRow EXCEPT !.st = "pending"] ELSE ledger[c]]

\* Mutant: attempts that reached Meta are left as they are.
RecoveredUnstarted ==
    [c \in Customers |->
       IF Stale(c) /\ ~ledger[c].started THEN [ledger[c] EXCEPT !.st = "pending"]
                                         ELSE ledger[c]]

\* The two UPDATEs of recover_stale_broadcast_deliveries, on disjoint rows.
Recovered ==
    [c \in Customers |->
       IF Stale(c) THEN [ledger[c] EXCEPT !.stale = FALSE,
                           !.st = IF ledger[c].started THEN "unknown" ELSE "pending"]
                   ELSE ledger[c]]

\* From _check_scheduled_broadcasts, every minute.
RecoverStale ==
    /\ \E c \in Customers : Stale(c)
    /\ ledger' = Recovered
    /\ UNCHANGED <<campaign, consent, tasks, reset, bounds, history>>

\* reset_broadcast_endpoint: recovery, known failures, campaign.
ResetRecover ==
    /\ reset = "none" /\ resets < MaxResets /\ resets' = resets + 1
    /\ NoteOverlap
    /\ ledger' = Recovered
    /\ reset' = "failures"
    /\ UNCHANGED <<campaign, consent, tasks, faults, audience, accepted>>

ResetFailures ==
    /\ reset = "failures"
    /\ ledger' = [c \in Customers |-> IF ledger[c].st = "rejected"
                                       THEN [NoRow EXCEPT !.st = "pending"] ELSE ledger[c]]
    /\ reset' = "draft"
    /\ UNCHANGED <<campaign, consent, tasks, bounds, history>>

ResetDraft ==
    /\ reset = "draft"
    /\ campaign' = [campaign EXCEPT !.status = "draft",
                                    !.recipients = Cardinality(With("sent"))]
    /\ reset' = "none"
    /\ UNCHANGED <<ledger, consent, tasks, bounds, history>>

\* retry_reconciled_delivery_endpoint: the operator has looked at the chat
\* (confirmed_not_delivered), with no attempt still on its way.
Retry(c) ==
    /\ resets < MaxResets /\ resets' = resets + 1
    /\ ledger[c].st = "unknown"
    /\ accepted[c] = 0 /\ ~Holder(c)
    /\ ledger' = [ledger EXCEPT ![c] = [NoRow EXCEPT !.st = "pending"]]
    /\ UNCHANGED <<campaign, consent, tasks, reset, faults, history>>

-----------------------------------------------------------------------------
(* The environment                                                         *)

\* A customer opts in or out, or is blocked.
ConsentChanges ==
    /\ consent' \in SUBSET Customers /\ consent' # consent
    /\ UNCHANGED <<campaign, ledger, tasks, reset, bounds, history>>

Crash ==
    /\ faults < MaxFaults /\ faults' = faults + 1
    /\ tasks' = [t \in Tasks |-> Free]
    /\ reset' = "none"
    /\ UNCHANGED <<campaign, ledger, consent, resets, history>>

TaskStep(t) ==
    \/ Seed(t) \/ Claim(t) \/ Mark(t) \/ Send(t) \/ MarkSent(t) \/ MarkError(t)
    \/ Count(t) \/ Finish(t) \/ Abort(t)

Next ==
    \/ \E t \in Tasks : Begin(t) \/ TaskStep(t) \/ DatabaseError(t)
    \/ \E c \in Customers : ClaimAges(c) \/ Retry(c)
    \/ RecoverStale \/ ResetRecover \/ ResetFailures \/ ResetDraft
    \/ ConsentChanges \/ Crash

Spec == Init /\ [][Next]_vars

\* A running task takes its next step, claims grow old, the scheduler runs.
FairSpec ==
    /\ Spec
    /\ \A t \in Tasks : WF_vars(TaskStep(t))
    /\ \A c \in Customers : WF_vars(ClaimAges(c))
    /\ WF_vars(RecoverStale)

-----------------------------------------------------------------------------
(* Properties                                                              *)

\* No customer gets the template twice, whatever crashes, resets (of a running
\* campaign too), recoveries and confirmed retries the campaign goes through.
TemplateOnce == \A c \in Customers : accepted[c] <= 1

\* Only customers of the first snapshot have a delivery row, and only they are
\* written to: an execution after a reset does not take in customers that match
\* the tags by then.
AudienceFixed == \A c \in Customers :
    ledger[c].st # "none" \/ accepted[c] > 0 => c \in audience

\* The ledger does not lie about what reached Meta: a row recorded as sent was
\* accepted, and an accepted row is never one a claim or a reset sends again;
\* and once no task works on it, the recipients column of a finished campaign
\* is the number of rows recorded as sent, unless executions and resets
\* overlapped: a count then may be older than a row.
AtRest == campaign.status \in {"sent", "partial"} /\ \A t \in Tasks : tasks[t].step = "free"
LedgerTruthful ==
    /\ TypeOK
    /\ \A c \in Customers :
         /\ ledger[c].st = "sent" => accepted[c] = 1
         /\ accepted[c] > 0 => ledger[c].st \notin {"none", "pending", "rejected"}
    /\ AtRest /\ ~overlap => campaign.recipients = Cardinality(With("sent"))

\* A claim does not stay in sending for ever: its task records an outcome, or
\* the recovery requeues or quarantines it after the task is gone.
ClaimsResolve == \A c \in Customers : ledger[c].st = "sending" ~> ledger[c].st # "sending"
=============================================================================
