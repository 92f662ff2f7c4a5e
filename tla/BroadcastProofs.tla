-------------------------- MODULE BroadcastProofs --------------------------
(***************************************************************************)
(* Theorems about Broadcast for any customers, any number of concurrent    *)
(* executions and any bounds on faults, resets and retries.  What reaches  *)
(* the customers is proved under the assumption that no task outlives its  *)
(* claim by five minutes (SlowTasks = FALSE): with it, a recovered claim   *)
(* is sent again while its first task still is at work.                    *)
(***************************************************************************)
EXTENDS Broadcast, FiniteSetTheorems, TLAPS

\* What a task has in hand, by its step.
Working == {"mark", "send", "sent", "error"}
TaskOK(task) ==
    /\ task.step \in Working <=> task.cust # Null
    /\ task.step = "finish" => task.result \in Final
    /\ task.step = "error" => task.result \in {"failed", "rejected", "unknown"}
Typed == TypeOK /\ \A t \in Tasks : TaskOK(tasks[t])

\* A row says what is known of its template, and is one of the snapshot.
RowTrue(c) ==
    /\ ledger[c].st \in {"none", "pending", "rejected"} => accepted[c] = 0
    /\ ledger[c].st = "sent" => accepted[c] = 1
    /\ ledger[c].st = "pending" => ~ledger[c].started
    /\ ledger[c].st = "sending" /\ ~ledger[c].started => accepted[c] = 0
    /\ ledger[c].st # "none" => campaign.seeded /\ c \in audience
    /\ accepted[c] \in {0, 1}

\* The row a task holds is being sent, its claim is young, and whether Meta
\* has accepted it follows from the step.
HandTrue(t) ==
    LET c == tasks[t].cust IN
    tasks[t].step \in Working =>
        /\ ledger[c].st = "sending" /\ ~ledger[c].stale
        /\ tasks[t].step = "mark" => ~ledger[c].started
        /\ tasks[t].step = "send" => ledger[c].started /\ accepted[c] = 0
        /\ tasks[t].step = "sent" => accepted[c] = 1
        /\ tasks[t].step = "error" /\ tasks[t].result = "rejected" => accepted[c] = 0

\* No two tasks hold the same row.
Apart == \A t, u \in Tasks : t # u /\ tasks[t].step \in Working => tasks[t].cust # tasks[u].cust

Delivery == (\A c \in Customers : RowTrue(c)) /\ (\A t \in Tasks : HandTrue(t)) /\ Apart

\* As long as executions and resets come one after the other, the counts of
\* the last one are those of the ledger.
SentRows == Cardinality(With("sent"))
Counted ==
    ~overlap =>
      /\ \A t \in Tasks : tasks[t].step # "free" =>
            reset = "none" /\ \A u \in Tasks \ {t} : tasks[u].step = "free"
      /\ \A t \in Tasks : tasks[t].step = "finish" => tasks[t].sent = SentRows
      /\ campaign.status \in {"sent", "partial"} =>
            campaign.recipients = SentRows /\ \A t \in Tasks : tasks[t].step = "free"

-----------------------------------------------------------------------------
(* Types                                                                   *)

LEMMA SentIsNat == \A T \in SUBSET Customers : Cardinality(T) \in Nat
BY BroadcastAssumption, FS_Subset, FS_CardinalityType

LEMMA RecoveredTyped ==
    ASSUME TypeOK
    PROVE  Recovered \in [Customers -> Row]
BY DEF TypeOK, Recovered, Row

LEMMA PendingRow == [NoRow EXCEPT !.st = "pending"] \in Row /\ NoRow \in Row
BY DEF NoRow, Row

LEMMA InitTyped == Init => Typed
<1> SUFFICES ASSUME Init PROVE Typed
  OBVIOUS
<1>1. campaign \in Campaign /\ Free \in Task
  BY DEF Init, Campaign, Free, Task
<1>2. ledger \in [Customers -> Row] /\ tasks \in [Tasks -> Task] /\ accepted \in [Customers -> Nat]
  BY <1>1, PendingRow DEF Init
<1>3. TypeOK
  <2>1. faults \in 0..MaxFaults /\ resets \in 0..MaxResets
    BY BroadcastAssumption DEF Init
  <2>2. overlap \in BOOLEAN /\ audience \subseteq Customers /\ consent \subseteq Customers
    BY DEF Init
  <2>3. reset \in {"none", "failures", "draft"}
    BY DEF Init
  <2> QED
    BY <1>1, <1>2, <2>1, <2>2, <2>3 DEF TypeOK
<1> QED
  BY <1>3 DEF Init, Typed, TaskOK, Free, Working

TasksTyped == tasks \in [Tasks -> Task] /\ \A t \in Tasks : TaskOK(tasks[t])

LEMMA ReplaceTyped ==
    ASSUME Typed, NEW t \in Tasks, NEW new \in Task, TaskOK(new), tasks' = [tasks EXCEPT ![t] = new]
    PROVE  TasksTyped'
BY DEF Typed, TypeOK, TasksTyped

LEMMA FreeTyped == Free \in Task /\ TaskOK(Free) /\ TaskOK([Free EXCEPT !.step = "abort"])
                   /\ [Free EXCEPT !.step = "abort"] \in Task
BY DEF Free, Task, TaskOK, Working

\* A task goes on without changing what it has in hand.
LEMMA GotoTyped ==
    ASSUME Typed, NEW t \in Tasks, NEW step \in {"seed", "claim", "count", "send", "sent"},
           tasks[t].step \in Working <=> step \in Working, Goto(t, step)
    PROVE  TasksTyped'
<1> PICK task \in Task : task = tasks[t] /\ TaskOK(task)
  BY DEF Typed, TypeOK
<1>1. PICK new : new = [task EXCEPT !.step = step]
  OBVIOUS
<1>2. new \in Task /\ new.step = step /\ new.cust = task.cust
  BY <1>1 DEF Task
<1>3. TaskOK(new)
  BY <1>2 DEF TaskOK
<1> QED
  BY <1>1, <1>2, <1>3, ReplaceTyped DEF Goto

LEMMA RaiseTyped ==
    ASSUME Typed, NEW t \in Tasks, tasks[t].step \in Working,
           NEW result \in {"failed", "rejected", "unknown"}, Raise(t, result)
    PROVE  TasksTyped'
<1> PICK task \in Task : task = tasks[t] /\ TaskOK(task)
  BY DEF Typed, TypeOK
<1>1. PICK new : new = [task EXCEPT !.step = "error", !.result = result]
  OBVIOUS
<1>2. new \in Task /\ new.step = "error" /\ new.cust = task.cust /\ new.result = result
  BY <1>1 DEF Task
<1>3. TaskOK(new)
  BY <1>2 DEF TaskOK, Working
<1>4. tasks' = [tasks EXCEPT ![t] = new]
  BY <1>1 DEF Raise
<1> QED
  BY <1>2, <1>3, <1>4, ReplaceTyped

LEMMA SeedTyped ==
    ASSUME Typed, NEW t \in Tasks, Seed(t)
    PROVE  campaign' \in Campaign /\ ledger' \in [Customers -> Row] /\ audience' \subseteq Customers
<1>1. CASE campaign.seeded
  BY <1>1 DEF Seed, Typed, TypeOK
<1>2. CASE ~campaign.seeded
  <2>1. PICK tagged \in SUBSET Customers :
          /\ audience' = tagged \cap consent /\ campaign' = [campaign EXCEPT !.seeded = TRUE]
          /\ ledger' = [c \in Customers |->
                          IF c \in audience' THEN [NoRow EXCEPT !.st = "pending"] ELSE ledger[c]]
    BY <1>2 DEF Seed
  <2>2. campaign' \in Campaign
    BY <2>1 DEF Typed, TypeOK, Campaign
  <2>3. ledger' \in [Customers -> Row]
    BY <2>1, PendingRow DEF Typed, TypeOK
  <2> QED
    BY <2>1, <2>2, <2>3
<1> QED
  BY <1>1, <1>2

LEMMA ClaimTyped ==
    ASSUME Typed, NEW t \in Tasks, Claim(t)
    PROVE  ledger' \in [Customers -> Row] /\ TasksTyped'
<1>0. ledger \in [Customers -> Row] /\ tasks[t].step = "claim" /\ TasksTyped
  BY DEF Claim, Typed, TypeOK, TasksTyped
<1>1. CASE Goto(t, "count") /\ UNCHANGED ledger
  BY <1>0, <1>1, GotoTyped DEF Working
<1>2. ASSUME NEW c \in Customers, ledger' = [ledger EXCEPT ![c].st = "sending", ![c].stale = FALSE],
             tasks' = [tasks EXCEPT ![t].step = "mark", ![t].cust = c]
      PROVE  ledger' \in [Customers -> Row] /\ TasksTyped'
  <2>1. [ledger[c] EXCEPT !.st = "sending", !.stale = FALSE] \in Row
    BY <1>0 DEF Row
  <2>2. ledger' = [ledger EXCEPT ![c] = [ledger[c] EXCEPT !.st = "sending", !.stale = FALSE]]
    BY <1>2
  <2>3. ledger' \in [Customers -> Row]
    BY <1>0, <2>1, <2>2
  <2> PICK task \in Task : task = tasks[t]
    BY <1>0 DEF TasksTyped
  <2>4. PICK new : new = [task EXCEPT !.step = "mark", !.cust = c]
    OBVIOUS
  <2>5. new \in Task /\ new.step = "mark" /\ new.cust = c
    BY <2>4 DEF Task
  <2>6. TaskOK(new)
    BY <2>5, BroadcastAssumption DEF TaskOK, Working
  <2>7. tasks' = [tasks EXCEPT ![t] = new]
    BY <1>2, <2>4
  <2> QED
    BY <2>3, <2>5, <2>6, <2>7, ReplaceTyped
<1>3. ASSUME NEW c \in Customers, ledger' = [ledger EXCEPT ![c].st = "failed"], UNCHANGED tasks
      PROVE  ledger' \in [Customers -> Row] /\ TasksTyped'
  <2>1. [ledger[c] EXCEPT !.st = "failed"] \in Row
    BY <1>0 DEF Row
  <2>2. ledger' \in [Customers -> Row]
    BY <1>0, <1>3, <2>1
  <2> QED
    BY <1>0, <1>3, <2>2 DEF TasksTyped
<1> QED
  BY <1>1, <1>2, <1>3 DEF Claim, With

LEMMA OutcomeTyped ==
    ASSUME Typed, NEW c \in Customers, NEW status \in {"sent", "failed", "rejected", "unknown"}
    PROVE  RecordOutcome(c, status) \in [Customers -> Row]
<1>1. ledger[c] \in Row /\ ledger \in [Customers -> Row]
  BY DEF Typed, TypeOK
<1>2. [ledger[c] EXCEPT !.st = status] \in Row
  BY <1>1 DEF Row
<1> QED
  BY <1>1, <1>2 DEF RecordOutcome

LEMMA OutcomeSteps ==
    ASSUME Typed, NEW t \in Tasks, MarkSent(t) \/ MarkError(t)
    PROVE  ledger' \in [Customers -> Row] /\ TasksTyped'
<1> PICK task \in Task : task = tasks[t] /\ TaskOK(task)
  BY DEF Typed, TypeOK
<1>1. task.step \in {"sent", "error"} /\ task.cust \in Customers
  BY DEF MarkSent, MarkError, TaskOK, Working, Task
<1>2. ledger' \in [Customers -> Row]
  <2>1. CASE MarkSent(t)
    BY <1>1, <2>1, OutcomeTyped DEF MarkSent
  <2>2. CASE MarkError(t)
    <3>1. task.result \in {"failed", "rejected", "unknown"}
      BY <2>2 DEF MarkError, TaskOK
    <3> QED
      BY <1>1, <2>2, <3>1, OutcomeTyped DEF MarkError
  <2> QED
    BY <2>1, <2>2
<1>3. PICK new : /\ \/ new = [task EXCEPT !.step = "claim", !.cust = Null]
                    \/ new = [task EXCEPT !.step = "claim", !.cust = Null, !.result = "none"]
                 /\ tasks' = [tasks EXCEPT ![t] = new]
  <2>1. CASE MarkSent(t)
    BY <2>1 DEF MarkSent
  <2>2. CASE MarkError(t)
    BY <2>2 DEF MarkError
  <2> QED
    BY <2>1, <2>2
<1>4. new \in Task /\ new.step = "claim" /\ new.cust = Null
  BY <1>3 DEF Task
<1>5. TaskOK(new)
  BY <1>4 DEF TaskOK, Working
<1> QED
  BY <1>2, <1>3, <1>4, <1>5, ReplaceTyped

LEMMA CountTyped ==
    ASSUME Typed, NEW t \in Tasks, Count(t)
    PROVE  TasksTyped'
<1> PICK task \in Task : task = tasks[t] /\ TaskOK(task)
  BY DEF Typed, TypeOK
<1> DEFINE sent == Cardinality(With("sent"))
<1>1. sent \in Nat
  BY SentIsNat DEF With
<1> HIDE DEF sent
<1>2. PICK result \in Final :
        tasks' = [tasks EXCEPT ![t].step = "finish", ![t].sent = sent, ![t].result = result]
  BY DEF Count, sent, Final
<1>3. PICK new : new = [task EXCEPT !.step = "finish", !.sent = sent, !.result = result]
  OBVIOUS
<1>4. new = [step |-> "finish", cust |-> task.cust, result |-> result, sent |-> sent]
  BY <1>3 DEF Task
<1>5. new \in Task
  BY <1>1, <1>4 DEF Task
<1>6. TaskOK(new)
  BY <1>4 DEF TaskOK, Working, Count
<1>7. tasks' = [tasks EXCEPT ![t] = new]
  BY <1>2, <1>3
<1> QED
  BY <1>5, <1>6, <1>7, ReplaceTyped

LEMMA FinishTyped ==
    ASSUME Typed, NEW t \in Tasks, Finish(t) \/ Abort(t)
    PROVE  campaign' \in Campaign /\ TasksTyped'
<1> PICK task \in Task : task = tasks[t] /\ TaskOK(task)
  BY DEF Typed, TypeOK
<1>1. TasksTyped'
  BY FreeTyped, ReplaceTyped DEF Finish, Abort
<1>2. CASE Finish(t)
  <2>1. task.result \in Final /\ task.sent \in Nat
    BY <1>2 DEF Finish, TaskOK, Task
  <2> QED
    BY <1>1, <1>2, <2>1 DEF Finish, Typed, TypeOK, Campaign
<1>3. CASE Abort(t)
  BY <1>1, <1>3 DEF Abort, Typed, TypeOK, Campaign, Final
<1> QED
  BY <1>2, <1>3

LEMMA DatabaseErrorTyped ==
    ASSUME Typed, NEW t \in Tasks, DatabaseError(t)
    PROVE  TasksTyped'
<1>1. ASSUME tasks[t].step \in {"mark", "sent"}, Raise(t, "failed") PROVE TasksTyped'
  <2>1. tasks[t].step \in Working
    BY <1>1 DEF Working
  <2> QED
    BY <1>1, <2>1, RaiseTyped
<1>2. ASSUME tasks' = [tasks EXCEPT ![t] = [Free EXCEPT !.step = "abort"]] PROVE TasksTyped'
  BY <1>2, FreeTyped, ReplaceTyped
<1> QED
  BY <1>1, <1>2 DEF DatabaseError

LEMMA RowsTyped ==
    ASSUME Typed, \/ \E c \in Customers : ClaimAges(c) \/ Retry(c)
                  \/ RecoverStale \/ ResetRecover \/ ResetFailures
    PROVE  ledger' \in [Customers -> Row]
<1>0. ledger \in [Customers -> Row]
  BY DEF Typed, TypeOK
<1>1. ASSUME NEW c \in Customers, ClaimAges(c) PROVE ledger' \in [Customers -> Row]
  <2>1. [ledger[c] EXCEPT !.stale = TRUE] \in Row
    BY <1>0 DEF Row
  <2> QED
    BY <1>0, <1>1, <2>1 DEF ClaimAges
<1>2. ASSUME NEW c \in Customers, Retry(c) PROVE ledger' \in [Customers -> Row]
  BY <1>0, <1>2, PendingRow DEF Retry
<1>3. CASE RecoverStale \/ ResetRecover
  BY <1>3, RecoveredTyped DEF RecoverStale, ResetRecover, Typed
<1>4. CASE ResetFailures
  BY <1>0, <1>4, PendingRow DEF ResetFailures
<1> QED
  BY <1>1, <1>2, <1>3, <1>4

LEMMA TypedStep ==
    ASSUME Typed, [Next]_vars
    PROVE  Typed'
<1> USE DEF bounds, history
<1>0. /\ campaign \in Campaign /\ ledger \in [Customers -> Row] /\ consent \subseteq Customers
      /\ TasksTyped /\ reset \in {"none", "failures", "draft"}
      /\ faults \in 0..MaxFaults /\ resets \in 0..MaxResets
      /\ overlap \in BOOLEAN /\ audience \subseteq Customers /\ accepted \in [Customers -> Nat]
  BY DEF Typed, TypeOK, TasksTyped
<1>1. campaign' \in Campaign
  <2>1. CASE \E t \in Tasks : Begin(t)
    BY <1>0, <2>1 DEF Begin, Campaign
  <2>2. CASE \E t \in Tasks : Seed(t) \/ Finish(t) \/ Abort(t)
    BY <2>2, SeedTyped, FinishTyped
  <2>3. CASE ResetDraft
    BY <1>0, <2>3, SentIsNat DEF ResetDraft, With, Campaign
  <2>4. CASE UNCHANGED campaign
    BY <1>0, <2>4
  <2> QED
    BY <2>1, <2>2, <2>3, <2>4 DEF Next, TaskStep, Claim, Mark, Send, MarkSent, MarkError, Count, DatabaseError,
       ClaimAges, Retry, RecoverStale, ResetRecover, ResetFailures, ConsentChanges, Crash, vars
<1>2. ledger' \in [Customers -> Row] /\ audience' \subseteq Customers
  <2>1. CASE \E t \in Tasks : Seed(t)
    BY <2>1, SeedTyped
  <2>2. CASE \E t \in Tasks : Claim(t) \/ MarkSent(t) \/ MarkError(t)
    BY <1>0, <2>2, ClaimTyped, OutcomeSteps DEF Claim, MarkSent, MarkError
  <2>3. CASE \E t \in Tasks : Mark(t)
    <3> PICK t \in Tasks : Mark(t)
      BY <2>3
    <3>1. tasks[t].step = "mark" /\ tasks[t].cust \in Customers
      BY <1>0 DEF Mark, TasksTyped, TaskOK, Working, Task
    <3>2. \A row \in Row : [row EXCEPT !.started = TRUE] \in Row
      BY DEF Row
    <3>3. [ledger[tasks[t].cust] EXCEPT !.started = TRUE] \in Row
      BY <1>0, <3>1, <3>2
    <3> QED
      BY <1>0, <3>1, <3>3 DEF Mark
  <2>4. CASE \/ \E c \in Customers : ClaimAges(c) \/ Retry(c)
             \/ RecoverStale \/ ResetRecover \/ ResetFailures
    <3>1. UNCHANGED audience
      BY <2>4 DEF ClaimAges, Retry, RecoverStale, ResetRecover, ResetFailures
    <3> QED
      BY <1>0, <2>4, <3>1, RowsTyped
  <2>5. CASE UNCHANGED <<ledger, audience>>
    BY <1>0, <2>5
  <2> QED
    BY <2>1, <2>2, <2>3, <2>4, <2>5 DEF Next, TaskStep, Begin, Send, Count, Finish, Abort, DatabaseError,
       ResetDraft, ConsentChanges, Crash, vars
<1>3. TasksTyped'
  <2>1. CASE \E t \in Tasks : Begin(t) \/ Seed(t) \/ Mark(t)
    BY <2>1, GotoTyped DEF Begin, Seed, Mark, Working
  <2>2. CASE \E t \in Tasks : Claim(t) \/ MarkSent(t) \/ MarkError(t)
    BY <2>2, ClaimTyped, OutcomeSteps
  <2>3. CASE \E t \in Tasks : Send(t)
    <3> PICK t \in Tasks : Send(t)
      BY <2>3
    <3>1. tasks[t].step = "send" /\ tasks[t].step \in Working /\ "sent" \in Working
      BY DEF Send, Working
    <3>2. Goto(t, "sent") \/ \E result \in {"failed", "rejected", "unknown"} : Raise(t, result)
      BY DEF Send
    <3> QED
      BY <3>1, <3>2, GotoTyped, RaiseTyped
  <2>4. CASE \E t \in Tasks : Count(t) \/ Finish(t) \/ Abort(t) \/ DatabaseError(t)
    BY <2>4, CountTyped, FinishTyped, DatabaseErrorTyped
  <2>5. CASE Crash
    BY <2>5, FreeTyped DEF Crash, TasksTyped
  <2>6. CASE UNCHANGED tasks
    BY <1>0, <2>6 DEF TasksTyped
  <2> QED
    BY <2>1, <2>2, <2>3, <2>4, <2>5, <2>6 DEF Next, TaskStep, ClaimAges, Retry, RecoverStale, ResetRecover,
       ResetFailures, ResetDraft, ConsentChanges, vars
<1>4. accepted' \in [Customers -> Nat]
  <2>1. CASE \E t \in Tasks : Send(t)
    <3> PICK t \in Tasks : Send(t)
      BY <2>1
    <3>1. tasks[t].cust \in Customers
      BY <1>0 DEF Send, TasksTyped, TaskOK, Working, Task
    <3>2. accepted' = [accepted EXCEPT ![tasks[t].cust] = @ + 1] \/ UNCHANGED accepted
      BY DEF Send
    <3> QED
      BY <1>0, <3>1, <3>2
  <2>2. CASE UNCHANGED accepted
    BY <1>0, <2>2
  <2> QED
    BY <2>1, <2>2 DEF Next, TaskStep, Begin, Seed, Claim, Mark, MarkSent, MarkError, Count, Finish, Abort,
       DatabaseError, ClaimAges, Retry, RecoverStale, ResetRecover, ResetFailures, ResetDraft,
       ConsentChanges, Crash, vars
<1>5. /\ consent' \subseteq Customers /\ reset' \in {"none", "failures", "draft"}
      /\ overlap' \in BOOLEAN
  <2>1. CASE \E t \in Tasks : Begin(t) \/ TaskStep(t) \/ DatabaseError(t)
    BY <1>0, <2>1 DEF TaskStep, Begin, NoteOverlap, Seed, Claim, Mark, Send, MarkSent, MarkError, Count,
       Finish, Abort, DatabaseError
  <2>2. CASE \/ \E c \in Customers : ClaimAges(c) \/ Retry(c)
             \/ RecoverStale \/ ResetRecover \/ ResetFailures \/ ResetDraft
    BY <1>0, <2>2 DEF ClaimAges, Retry, RecoverStale, ResetRecover, NoteOverlap, ResetFailures, ResetDraft
  <2>3. CASE ConsentChanges \/ Crash \/ UNCHANGED vars
    BY <1>0, <2>3 DEF ConsentChanges, Crash, vars
  <2> QED
    BY <2>1, <2>2, <2>3 DEF Next
<1>6. faults' \in 0..MaxFaults /\ resets' \in 0..MaxResets
  <2>1. CASE UNCHANGED <<faults, resets>>
    BY <1>0, <2>1
  <2>2. CASE faults < MaxFaults /\ faults' = faults + 1 /\ UNCHANGED resets
    BY <1>0, <2>2, BroadcastAssumption
  <2>3. CASE resets < MaxResets /\ resets' = resets + 1 /\ UNCHANGED faults
    BY <1>0, <2>3, BroadcastAssumption
  <2> QED
    BY <2>1, <2>2, <2>3 DEF Next, TaskStep, Begin, Seed, Claim, Mark, Send, MarkSent, MarkError, Count, Finish,
       Abort, DatabaseError, ClaimAges, Retry, RecoverStale, ResetRecover, ResetFailures, ResetDraft,
       ConsentChanges, Crash, vars
<1> QED
  BY <1>1, <1>2, <1>3, <1>4, <1>5, <1>6 DEF Typed, TypeOK, TasksTyped

-----------------------------------------------------------------------------
(* What reaches the customers                                              *)

\* Rows that no task holds change, and tasks at most let go of theirs.
LEMMA DeliveryRows ==
    ASSUME Typed', Delivery,
           \A t \in Tasks : tasks'[t] = tasks[t] \/ tasks'[t].step \notin Working,
           \A c \in Customers :
             /\ RowTrue(c)'
             /\ \/ ledger'[c] = ledger[c] /\ accepted'[c] = accepted[c]
                \/ \A t \in Tasks : tasks'[t].step \in Working => tasks'[t].cust # c
    PROVE  Delivery'
<1>1. ASSUME NEW t \in Tasks
      PROVE  HandTrue(t)'
  <2> SUFFICES ASSUME tasks'[t].step \in Working
               PROVE  HandTrue(t)'
    BY DEF HandTrue
  <2>1. tasks'[t] = tasks[t] /\ tasks[t].cust \in Customers
    BY DEF Typed, TypeOK, TaskOK, Task
  <2>2. ledger'[tasks[t].cust] = ledger[tasks[t].cust] /\ accepted'[tasks[t].cust] = accepted[tasks[t].cust]
    BY <2>1
  <2> QED
    BY <2>1, <2>2 DEF Delivery, HandTrue
<1>2. Apart'
  <2> SUFFICES ASSUME NEW t \in Tasks, NEW u \in Tasks, t # u, tasks'[t].step \in Working,
                      tasks'[t].cust = tasks'[u].cust
               PROVE  FALSE
    BY DEF Apart
  <2>1. tasks'[t] = tasks[t] /\ tasks'[u].step \in Working
    BY DEF Typed, TypeOK, TaskOK, Task
  <2>2. tasks'[u] = tasks[u]
    BY <2>1
  <2> QED
    BY <2>1, <2>2 DEF Delivery, Apart
<1> QED
  BY <1>1, <1>2 DEF Delivery

\* Nothing of the ledger changes.
LEMMA DeliveryTasks ==
    ASSUME Typed', Delivery, UNCHANGED <<ledger, accepted, audience>>,
           campaign'.seeded = campaign.seeded,
           \A t \in Tasks : tasks'[t] = tasks[t] \/ tasks'[t].step \notin Working
    PROVE  Delivery'
<1>1. \A c \in Customers : RowTrue(c)'
  BY DEF Delivery, RowTrue
<1> QED
  BY <1>1, DeliveryRows

\* One task goes on with a row that no other holds.
LEMMA DeliveryHand ==
    ASSUME Typed', Delivery, NEW t \in Tasks, NEW c \in Customers,
           \A u \in Tasks \ {t} : tasks'[u] = tasks[u] /\ (tasks[u].step \in Working => tasks[u].cust # c),
           \A x \in Customers \ {c} : ledger'[x] = ledger[x] /\ accepted'[x] = accepted[x],
           UNCHANGED <<campaign, audience>>,
           tasks'[t].step \in Working, tasks'[t].cust = c,
           RowTrue(c)', HandTrue(t)'
    PROVE  Delivery'
<1>1. \A x \in Customers : RowTrue(x)'
  BY DEF Delivery, RowTrue
<1>2. \A u \in Tasks : HandTrue(u)'
  <2> SUFFICES ASSUME NEW u \in Tasks \ {t}, tasks'[u].step \in Working
               PROVE  HandTrue(u)'
    BY DEF HandTrue
  <2>1. tasks'[u] = tasks[u] /\ tasks[u].cust \in Customers \ {c}
    BY DEF Typed, TypeOK, TaskOK, Task
  <2> QED
    BY <2>1 DEF Delivery, HandTrue
<1>3. Apart'
  BY DEF Delivery, Apart, Typed, TypeOK, TaskOK, Task
<1> QED
  BY <1>1, <1>2, <1>3 DEF Delivery

\* A row that a task holds is not stale, so recovery leaves it alone.
LEMMA DeliveryRecovered ==
    ASSUME Typed, Typed', Delivery, ledger' = Recovered,
           UNCHANGED <<campaign, tasks, audience, accepted>>
    PROVE  Delivery'
<1>1. ASSUME NEW c \in Customers
      PROVE  RowTrue(c)' /\ (ledger'[c] = ledger[c] \/ \A t \in Tasks : tasks[t].step \in Working => tasks[t].cust # c)
  <2>1. CASE ~Stale(c)
    BY <2>1 DEF Recovered, Delivery, RowTrue
  <2>2. CASE Stale(c)
    <3>1. ledger[c] \in Row /\ ledger'[c] = [ledger[c] EXCEPT !.stale = FALSE,
                                               !.st = IF ledger[c].started THEN "unknown" ELSE "pending"]
      BY <2>2 DEF Recovered, Typed, TypeOK
    <3>2. /\ ledger'[c].st = (IF ledger[c].started THEN "unknown" ELSE "pending")
          /\ ledger'[c].started = ledger[c].started
      BY <3>1 DEF Row
    <3>3. RowTrue(c)'
      BY <2>2, <3>1, <3>2 DEF Delivery, RowTrue, Stale
    <3>4. \A t \in Tasks : tasks[t].step \in Working => tasks[t].cust # c
      BY <2>2 DEF Delivery, HandTrue, Stale
    <3> QED
      BY <3>3, <3>4
  <2> QED
    BY <2>1, <2>2
<1> QED
  BY <1>1, DeliveryRows

LEMMA SeedDelivery ==
    ASSUME Typed, Typed', Delivery, NEW t \in Tasks, Seed(t)
    PROVE  Delivery'
<1>1. \A u \in Tasks : tasks'[u] = tasks[u] \/ tasks'[u].step \notin Working
  BY DEF Seed, Goto, Typed, TypeOK, Task, Working
<1>2. CASE campaign.seeded
  BY <1>1, <1>2, DeliveryTasks DEF Seed, history
<1>3. CASE ~campaign.seeded
  <2>1. PICK tagged \in SUBSET Customers :
          /\ audience' = tagged \cap consent /\ campaign' = [campaign EXCEPT !.seeded = TRUE]
          /\ ledger' = [c \in Customers |->
                          IF c \in audience' THEN [NoRow EXCEPT !.st = "pending"] ELSE ledger[c]]
    BY <1>3 DEF Seed
  <2>2. campaign'.seeded /\ UNCHANGED accepted
    BY <2>1 DEF Seed, Typed, TypeOK, Campaign
  <2>3. \A c \in Customers : ledger[c].st = "none" /\ accepted[c] = 0
    BY <1>3 DEF Delivery, RowTrue, Typed, TypeOK, Row
  <2>4. \A c \in Customers : ledger'[c] = IF c \in audience' THEN [NoRow EXCEPT !.st = "pending"] ELSE ledger[c]
    BY <2>1
  <2>5. \A c \in Customers : RowTrue(c)'
    <3> TAKE c \in Customers
    <3>1. CASE c \in audience'
      <4>1. ledger'[c].st = "pending" /\ ~ledger'[c].started
        BY <2>4, <3>1 DEF NoRow
      <4> QED
        BY <2>2, <2>3, <3>1, <4>1 DEF RowTrue
    <3>2. CASE c \notin audience'
      BY <2>2, <2>3, <2>4, <3>2 DEF RowTrue
    <3> QED
      BY <3>1, <3>2
  <2>6. \A u \in Tasks : tasks'[u].step \notin Working
    <3> SUFFICES ASSUME NEW u \in Tasks, tasks'[u].step \in Working
                 PROVE  FALSE
      OBVIOUS
    <3>1. tasks[u].step \in Working /\ tasks[u].cust \in Customers
      BY <1>1 DEF Typed, TypeOK, TaskOK, Task
    <3> QED
      BY <2>3, <3>1 DEF Delivery, HandTrue
  <2> QED
    BY <1>1, <2>5, <2>6, DeliveryRows
<1> QED
  BY <1>2, <1>3

LEMMA ClaimDelivery ==
    ASSUME Typed, Typed', Delivery, NEW t \in Tasks, Claim(t)
    PROVE  Delivery'
<1>1. UNCHANGED <<campaign, audience, accepted>> /\ tasks[t].step = "claim" /\ tasks[t].step \notin Working
  BY DEF Claim, history, Working
<1>2. CASE Goto(t, "count") /\ UNCHANGED ledger
  <2>1. \A u \in Tasks : tasks'[u] = tasks[u] \/ tasks'[u].step \notin Working
    BY <1>2 DEF Goto, Typed, TypeOK, Task, Working
  <2> QED
    BY <1>1, <1>2, <2>1, DeliveryTasks
<1>3. ASSUME NEW c \in With("pending"), ledger' = [ledger EXCEPT ![c].st = "sending", ![c].stale = FALSE],
             tasks' = [tasks EXCEPT ![t].step = "mark", ![t].cust = c]
      PROVE  Delivery'
  <2>1. c \in Customers /\ ledger[c].st = "pending" /\ RowTrue(c)
    BY <1>3 DEF With, Delivery
  <2>2. /\ tasks'[t].step = "mark" /\ tasks'[t].cust = c
        /\ \A u \in Tasks \ {t} : tasks'[u] = tasks[u]
    BY <1>3 DEF Typed, TypeOK, Task
  <2>3. /\ ledger'[c].st = "sending" /\ ledger'[c].started = ledger[c].started /\ ~ledger'[c].stale
        /\ \A x \in Customers \ {c} : ledger'[x] = ledger[x]
    BY <1>3, <2>1 DEF Typed, TypeOK, Row
  <2>4. \A u \in Tasks \ {t} : tasks[u].step \in Working => tasks[u].cust # c
    BY <2>1 DEF Delivery, HandTrue
  <2>5. RowTrue(c)' /\ HandTrue(t)'
    BY <1>1, <2>1, <2>2, <2>3 DEF RowTrue, HandTrue
  <2> QED
    BY <1>1, <2>1, <2>2, <2>3, <2>4, <2>5, DeliveryHand DEF Working
<1>4. ASSUME NEW c \in With("pending"), ledger' = [ledger EXCEPT ![c].st = "failed"], UNCHANGED tasks
      PROVE  Delivery'
  <2>1. c \in Customers /\ ledger[c].st = "pending"
    BY <1>4 DEF With
  <2>2. ledger'[c].st = "failed" /\ \A x \in Customers \ {c} : ledger'[x] = ledger[x]
    BY <1>4, <2>1 DEF Typed, TypeOK, Row
  <2>3. \A x \in Customers : RowTrue(x)'
    BY <1>1, <2>1, <2>2 DEF Delivery, RowTrue
  <2>4. \A u \in Tasks : tasks[u].step \in Working => tasks[u].cust # c
    BY <2>1 DEF Delivery, HandTrue
  <2> QED
    BY <1>1, <1>4, <2>2, <2>3, <2>4, DeliveryRows
<1> QED
  BY <1>2, <1>3, <1>4 DEF Claim

\* The row in the hand of a task at work.
LEMMA InHand ==
    ASSUME Typed, Delivery, NEW t \in Tasks, tasks[t].step \in Working
    PROVE  /\ tasks[t].cust \in Customers /\ HandTrue(t) /\ RowTrue(tasks[t].cust)
           /\ \A u \in Tasks \ {t} : tasks[u].step \in Working => tasks[u].cust # tasks[t].cust
BY DEF Typed, TypeOK, TaskOK, Task, Delivery, Apart

LEMMA MarkDelivery ==
    ASSUME Typed, Typed', Delivery, NEW t \in Tasks, Mark(t)
    PROVE  Delivery'
<1> DEFINE c == tasks[t].cust
<1>1. UNCHANGED <<campaign, audience, accepted>> /\ tasks[t].step = "mark" /\ tasks[t].step \in Working
  BY DEF Mark, history, Working
<1>2. /\ c \in Customers /\ HandTrue(t) /\ RowTrue(c)
      /\ \A u \in Tasks \ {t} : tasks[u].step \in Working => tasks[u].cust # c
  BY <1>1, InHand
<1>3. /\ tasks'[t].step = "send" /\ tasks'[t].cust = c
      /\ \A u \in Tasks \ {t} : tasks'[u] = tasks[u]
  BY DEF Mark, Goto, Typed, TypeOK, Task
<1>4. ledger' = [ledger EXCEPT ![c].started = TRUE]
  BY <1>1, <1>2 DEF Mark, HandTrue
<1>5. /\ ledger'[c].st = ledger[c].st /\ ledger'[c].started /\ ledger'[c].stale = ledger[c].stale
      /\ \A x \in Customers \ {c} : ledger'[x] = ledger[x]
  BY <1>2, <1>4 DEF Typed, TypeOK, Row
<1>6. RowTrue(c)' /\ HandTrue(t)'
  BY <1>1, <1>2, <1>3, <1>5 DEF RowTrue, HandTrue
<1> QED
  BY <1>1, <1>2, <1>3, <1>5, <1>6, DeliveryHand DEF Working

LEMMA SendDelivery ==
    ASSUME Typed, Typed', Delivery, NEW t \in Tasks, Send(t)
    PROVE  Delivery'
<1> DEFINE c == tasks[t].cust
<1>1. UNCHANGED <<campaign, audience, ledger>> /\ tasks[t].step = "send" /\ tasks[t].step \in Working
  BY DEF Send, Working
<1>2. /\ c \in Customers /\ HandTrue(t) /\ RowTrue(c)
      /\ \A u \in Tasks \ {t} : tasks[u].step \in Working => tasks[u].cust # c
  BY <1>1, InHand
<1>3. accepted[c] = 0 /\ ledger[c].started /\ ledger[c].st = "sending" /\ ~ledger[c].stale
  BY <1>1, <1>2 DEF HandTrue
<1>4. /\ tasks'[t].step \in {"sent", "error"} /\ tasks'[t].cust = c
      /\ \A u \in Tasks \ {t} : tasks'[u] = tasks[u]
  BY DEF Send, Goto, Raise, Typed, TypeOK, Task
<1>5. /\ accepted'[c] \in {0, 1} /\ \A x \in Customers \ {c} : accepted'[x] = accepted[x]
      /\ tasks'[t].step = "sent" => accepted'[c] = 1
      /\ tasks'[t].step = "error" /\ tasks'[t].result = "rejected" => accepted'[c] = 0
  <2>1. CASE accepted' = [accepted EXCEPT ![c] = @ + 1] /\ Goto(t, "sent")
    BY <1>2, <1>3, <2>1 DEF Goto, Typed, TypeOK, Task
  <2>2. ASSUME NEW result \in {"unknown", "failed"}, Raise(t, result),
               accepted' = [accepted EXCEPT ![c] = @ + 1] \/ UNCHANGED accepted
        PROVE  /\ accepted'[c] \in {0, 1} /\ \A x \in Customers \ {c} : accepted'[x] = accepted[x]
               /\ tasks'[t].step = "error" /\ tasks'[t].result # "rejected"
    BY <1>2, <1>3, <2>2 DEF Raise, Typed, TypeOK, Task
  <2>3. CASE UNCHANGED accepted /\ Raise(t, "rejected")
    BY <1>2, <1>3, <2>3 DEF Raise, Typed, TypeOK, Task
  <2> QED
    BY <2>1, <2>2, <2>3 DEF Send
<1>6. RowTrue(c)' /\ HandTrue(t)'
  BY <1>1, <1>2, <1>3, <1>4, <1>5 DEF RowTrue, HandTrue
<1> QED
  BY <1>1, <1>2, <1>4, <1>5, <1>6, DeliveryHand DEF Working

\* The outcome is written to the row in hand, which the task lets go.
LEMMA OutcomeDelivery ==
    ASSUME Typed, Typed', Delivery, NEW t \in Tasks, NEW status \in {"sent", "failed", "rejected", "unknown"},
           tasks[t].step \in Working, ledger' = RecordOutcome(tasks[t].cust, status),
           status = "sent" => accepted[tasks[t].cust] = 1,
           status = "rejected" => accepted[tasks[t].cust] = 0,
           tasks'[t].step \notin Working, \A u \in Tasks \ {t} : tasks'[u] = tasks[u],
           UNCHANGED <<campaign, audience, accepted>>
    PROVE  Delivery'
<1> DEFINE c == tasks[t].cust
<1>1. /\ c \in Customers /\ HandTrue(t) /\ RowTrue(c)
      /\ \A u \in Tasks \ {t} : tasks[u].step \in Working => tasks[u].cust # c
  BY InHand
<1>2. ledger' = [ledger EXCEPT ![c].st = status]
  BY <1>1 DEF RecordOutcome, HandTrue
<1>3. ledger'[c].st = status /\ \A x \in Customers \ {c} : ledger'[x] = ledger[x]
  BY <1>1, <1>2 DEF Typed, TypeOK, Row
<1>4. ledger[c].st = "sending"
  BY <1>1 DEF HandTrue
<1>5. \A x \in Customers : RowTrue(x)'
  BY <1>1, <1>3, <1>4 DEF Delivery, RowTrue
<1> QED
  BY <1>1, <1>3, <1>5, DeliveryRows

LEMMA MarkSentDelivery ==
    ASSUME Typed, Typed', Delivery, NEW t \in Tasks, MarkSent(t) \/ MarkError(t)
    PROVE  Delivery'
<1>1. UNCHANGED <<campaign, audience, accepted>> /\ tasks[t].step \in {"sent", "error"}
  BY DEF MarkSent, MarkError, history
<1>2. /\ tasks'[t].step \notin Working /\ \A u \in Tasks \ {t} : tasks'[u] = tasks[u]
  BY DEF MarkSent, MarkError, Working, Typed, TypeOK, Task
<1>3. HandTrue(t) /\ tasks[t].step \in Working
  BY <1>1 DEF Delivery, Working
<1>4. CASE MarkSent(t)
  BY <1>1, <1>2, <1>3, <1>4, OutcomeDelivery DEF MarkSent, HandTrue
<1>5. CASE MarkError(t)
  <2>1. tasks[t].result \in {"failed", "rejected", "unknown"} /\ tasks[t].step = "error"
    BY <1>5 DEF MarkError, Typed, TaskOK
  <2>2. tasks[t].result = "rejected" => accepted[tasks[t].cust] = 0
    BY <1>3, <2>1 DEF HandTrue
  <2> QED
    BY <1>1, <1>2, <1>3, <1>5, <2>1, <2>2, OutcomeDelivery DEF MarkError
<1> QED
  BY <1>4, <1>5

LEMMA ErrorDelivery ==
    ASSUME Typed, Typed', Delivery, NEW t \in Tasks, DatabaseError(t)
    PROVE  Delivery'
<1> DEFINE c == tasks[t].cust
<1>1. UNCHANGED <<campaign, ledger, audience, accepted>>
  BY DEF DatabaseError, history
<1>2. CASE tasks[t].step \in {"mark", "sent"} /\ Raise(t, "failed")
  <2>1. /\ c \in Customers /\ HandTrue(t) /\ RowTrue(c)
        /\ \A u \in Tasks \ {t} : tasks[u].step \in Working => tasks[u].cust # c
    BY <1>2, InHand DEF Working
  <2>2. /\ tasks'[t].step = "error" /\ tasks'[t].cust = c /\ tasks'[t].result = "failed"
        /\ \A u \in Tasks \ {t} : tasks'[u] = tasks[u]
    BY <1>2 DEF Raise, Typed, TypeOK, Task
  <2>3. RowTrue(c)' /\ HandTrue(t)'
    BY <1>1, <1>2, <2>1, <2>2 DEF RowTrue, HandTrue, Working
  <2> QED
    BY <1>1, <2>1, <2>2, <2>3, DeliveryHand DEF Working
<1>3. CASE tasks' = [tasks EXCEPT ![t] = [Free EXCEPT !.step = "abort"]]
  <2>1. \A u \in Tasks : tasks'[u] = tasks[u] \/ tasks'[u].step \notin Working
    BY <1>3 DEF Free, Typed, TypeOK, Working
  <2> QED
    BY <1>1, <2>1, DeliveryTasks
<1> QED
  BY <1>2, <1>3 DEF DatabaseError

LEMMA RowsDelivery ==
    ASSUME ~SlowTasks, Typed, Typed', Delivery,
           \/ \E c \in Customers : ClaimAges(c) \/ Retry(c)
           \/ ResetFailures
    PROVE  Delivery'
<1>1. UNCHANGED <<campaign, tasks, audience, accepted>>
  BY DEF ClaimAges, Retry, ResetFailures, history
<1>2. ASSUME NEW c \in Customers, ClaimAges(c)
      PROVE  Delivery'
  <2>1. \A t \in Tasks : tasks[t].cust # c
    BY <1>2 DEF ClaimAges, Holder
  <2>2. /\ ledger'[c].st = ledger[c].st /\ ledger'[c].started = ledger[c].started
        /\ \A x \in Customers \ {c} : ledger'[x] = ledger[x]
    BY <1>2 DEF ClaimAges, Typed, TypeOK, Row
  <2>3. \A x \in Customers : RowTrue(x)'
    BY <1>1, <2>2 DEF Delivery, RowTrue
  <2> QED
    BY <1>1, <2>1, <2>2, <2>3, DeliveryRows
<1>3. ASSUME NEW c \in Customers, Retry(c)
      PROVE  Delivery'
  <2>1. accepted[c] = 0 /\ ledger[c].st = "unknown" /\ \A t \in Tasks : tasks[t].cust # c
    BY <1>3 DEF Retry, Holder
  <2>2. /\ ledger'[c].st = "pending" /\ ~ledger'[c].started
        /\ \A x \in Customers \ {c} : ledger'[x] = ledger[x]
    BY <1>3 DEF Retry, NoRow, Typed, TypeOK
  <2>3. \A x \in Customers : RowTrue(x)'
    BY <1>1, <2>1, <2>2 DEF Delivery, RowTrue
  <2> QED
    BY <1>1, <2>1, <2>2, <2>3, DeliveryRows
<1>4. CASE ResetFailures
  <2>1. \A c \in Customers : ledger'[c] = IF ledger[c].st = "rejected"
                                            THEN [NoRow EXCEPT !.st = "pending"] ELSE ledger[c]
    BY <1>4 DEF ResetFailures
  <2>2. ASSUME NEW c \in Customers
        PROVE  /\ RowTrue(c)'
               /\ ledger'[c] = ledger[c] \/ \A t \in Tasks : tasks[t].step \in Working => tasks[t].cust # c
    <3>1. CASE ledger[c].st = "rejected"
      <4>1. ledger'[c].st = "pending" /\ ~ledger'[c].started
        BY <2>1, <3>1 DEF NoRow
      <4>2. \A t \in Tasks : tasks[t].step \in Working => tasks[t].cust # c
        BY <3>1 DEF Delivery, HandTrue
      <4>3. RowTrue(c)'
        BY <1>1, <3>1, <4>1 DEF Delivery, RowTrue
      <4> QED
        BY <4>2, <4>3
    <3>2. CASE ledger[c].st # "rejected"
      BY <1>1, <2>1, <3>2 DEF Delivery, RowTrue
    <3> QED
      BY <3>1, <3>2
  <2> QED
    BY <1>1, <2>2, DeliveryRows
<1> QED
  BY <1>2, <1>3, <1>4

LEMMA DeliveryStep ==
    ASSUME ~SlowTasks, Typed, Typed', Delivery, [Next]_vars
    PROVE  Delivery'
<1>1. ASSUME NEW t \in Tasks, Begin(t) \/ Count(t) \/ Finish(t) \/ Abort(t)
      PROVE  Delivery'
  <2>1. UNCHANGED <<ledger, audience, accepted>> /\ campaign'.seeded = campaign.seeded
    BY <1>1 DEF Begin, Count, Finish, Abort, history, Typed, TypeOK, Campaign
  <2>2. \A u \in Tasks \ {t} : tasks'[u] = tasks[u]
    BY <1>1 DEF Begin, Goto, Count, Finish, Abort, Typed, TypeOK
  <2>3. tasks'[t].step \notin Working
    BY <1>1 DEF Begin, Goto, Count, Finish, Abort, Typed, TypeOK, Task, Free, Working
  <2> QED
    BY <2>1, <2>2, <2>3, DeliveryTasks
<1>2. CASE \E t \in Tasks : \/ Seed(t) \/ Claim(t) \/ Mark(t) \/ Send(t)
                            \/ MarkSent(t) \/ MarkError(t) \/ DatabaseError(t)
  BY <1>2, SeedDelivery, ClaimDelivery, MarkDelivery, SendDelivery, MarkSentDelivery, ErrorDelivery
<1>3. CASE ResetFailures \/ \E c \in Customers : ClaimAges(c) \/ Retry(c)
  BY <1>3, RowsDelivery
<1>4. CASE RecoverStale \/ ResetRecover
  BY <1>4, DeliveryRecovered DEF RecoverStale, ResetRecover, history
<1>5. CASE ResetDraft \/ ConsentChanges \/ Crash \/ UNCHANGED vars
  <2>1. UNCHANGED <<ledger, audience, accepted>> /\ campaign'.seeded = campaign.seeded
    BY <1>5 DEF ResetDraft, ConsentChanges, Crash, vars, history, Typed, TypeOK, Campaign
  <2>2. \A t \in Tasks : tasks'[t] = tasks[t] \/ tasks'[t].step \notin Working
    BY <1>5 DEF ResetDraft, ConsentChanges, Crash, vars, Free, Working
  <2> QED
    BY <2>1, <2>2, DeliveryTasks
<1> QED
  BY <1>1, <1>2, <1>3, <1>4, <1>5 DEF Next, TaskStep

-----------------------------------------------------------------------------
(* What the campaign says of itself                                        *)

\* A step that neither begins nor counts leaves the counts true, if the rows
\* recorded as sent are the same.
LEMMA CountedKept ==
    ASSUME Counted, With("sent")' = With("sent"), overlap' = overlap,
           campaign'.status \in {"sent", "partial"} =>
              campaign'.status = campaign.status /\ campaign'.recipients = campaign.recipients,
           \A t \in Tasks : tasks'[t].step # "free" => tasks[t].step # "free",
           \A t \in Tasks : tasks'[t].step = "finish" =>
              tasks[t].step = "finish" /\ tasks'[t].sent = tasks[t].sent,
           reset' # "none" => reset # "none"
    PROVE  Counted'
<1>1. SentRows' = SentRows
  BY DEF SentRows
<1> QED
  BY <1>1 DEF Counted

\* The steps of one task that keep the rows recorded as sent.
LEMMA TaskCounted ==
    ASSUME Typed, Delivery, Counted, NEW t \in Tasks,
           Seed(t) \/ Claim(t) \/ Mark(t) \/ Send(t) \/ MarkError(t) \/ Abort(t) \/ DatabaseError(t)
    PROVE  Counted'
<1>1. overlap' = overlap /\ reset' = reset /\ tasks[t].step # "free"
  BY DEF Seed, Claim, Mark, Send, MarkError, Abort, DatabaseError, history
<1>2. \A u \in Tasks \ {t} : tasks'[u] = tasks[u]
  BY DEF Seed, Claim, Mark, Send, MarkError, Abort, DatabaseError, Goto, Raise, Typed, TypeOK
<1>3. tasks'[t].step # "finish"
  <2>1. CASE Seed(t) \/ Mark(t) \/ Send(t) \/ MarkError(t) \/ Abort(t)
    BY <2>1 DEF Seed, Mark, Send, MarkError, Abort, Goto, Raise, Free, Typed, TypeOK, Task
  <2>2. CASE Claim(t)
    <3>1. CASE UNCHANGED tasks
      BY <2>2, <3>1 DEF Claim
    <3>2. CASE Goto(t, "count") \/ \E c : tasks' = [tasks EXCEPT ![t].step = "mark", ![t].cust = c]
      BY <3>2 DEF Goto, Typed, TypeOK, Task
    <3> QED
      BY <2>2, <3>1, <3>2 DEF Claim
  <2>3. CASE Raise(t, "failed") \/ tasks' = [tasks EXCEPT ![t] = [Free EXCEPT !.step = "abort"]]
    BY <2>3 DEF Raise, Free, Typed, TypeOK, Task
  <2> QED
    BY <2>1, <2>2, <2>3 DEF DatabaseError
<1>4. campaign'.status \in {"sent", "partial"} =>
         campaign'.status = campaign.status /\ campaign'.recipients = campaign.recipients
  BY DEF Seed, Claim, Mark, Send, MarkError, Abort, DatabaseError, Typed, TypeOK, Campaign
<1>5. With("sent")' = With("sent")
  <2> SUFFICES ASSUME NEW c \in Customers
               PROVE  ledger'[c].st = "sent" <=> ledger[c].st = "sent"
    BY DEF With
  <2>1. CASE Seed(t)
    <3>1. CASE campaign.seeded
      BY <2>1, <3>1 DEF Seed
    <3>2. CASE ~campaign.seeded
      <4>1. ledger[c].st = "none"
        BY <3>2 DEF Delivery, RowTrue
      <4>2. ledger'[c] = ledger[c] \/ ledger'[c] = [NoRow EXCEPT !.st = "pending"]
        BY <2>1, <3>2 DEF Seed
      <4> QED
        BY <4>1, <4>2 DEF NoRow
    <3> QED
      BY <3>1, <3>2
  <2>2. CASE Claim(t)
    <3>1. CASE UNCHANGED ledger
      BY <3>1
    <3>2. ASSUME NEW x \in Customers, ledger[x].st = "pending",
                 \/ ledger' = [ledger EXCEPT ![x].st = "sending", ![x].stale = FALSE]
                 \/ ledger' = [ledger EXCEPT ![x].st = "failed"]
          PROVE  ledger'[c].st = "sent" <=> ledger[c].st = "sent"
      <4>1. CASE c = x
        BY <3>2, <4>1 DEF Typed, TypeOK, Row
      <4>2. CASE c # x
        BY <3>2, <4>2 DEF Typed, TypeOK
      <4> QED
        BY <4>1, <4>2
    <3> QED
      BY <2>2, <3>1, <3>2 DEF Claim, With
  <2>3. CASE Mark(t)
    BY <2>3 DEF Mark, Typed, TypeOK, Row
  <2>4. CASE MarkError(t)
    <3>1. tasks[t].result # "sent" /\ tasks[t].step \in Working
      BY <2>4 DEF MarkError, Typed, TaskOK, Working
    <3>2. ledger[tasks[t].cust].st = "sending"
      BY <3>1 DEF Delivery, HandTrue
    <3>3. ledger' = [ledger EXCEPT ![tasks[t].cust].st = tasks[t].result]
      BY <2>4, <3>2 DEF MarkError, RecordOutcome
    <3> QED
      BY <3>1, <3>2, <3>3 DEF Typed, TypeOK, Row
  <2>5. CASE Send(t) \/ Abort(t) \/ DatabaseError(t)
    BY <2>5 DEF Send, Abort, DatabaseError
  <2> QED
    BY <2>1, <2>2, <2>3, <2>4, <2>5
<1> QED
  BY <1>1, <1>2, <1>3, <1>4, <1>5, CountedKept

\* While a task is at work and nothing overlaps, the others are free and the
\* campaign is not finished.
LEMMA WorkingAlone ==
    ASSUME Counted, ~overlap, NEW t \in Tasks, tasks[t].step # "free"
    PROVE  /\ reset = "none" /\ \A u \in Tasks \ {t} : tasks[u].step = "free"
           /\ campaign.status \notin {"sent", "partial"}
BY DEF Counted

LEMMA CountCounted ==
    ASSUME Typed, Counted, NEW t \in Tasks, MarkSent(t) \/ Count(t) \/ Finish(t)
    PROVE  Counted'
<1> SUFFICES ASSUME ~overlap'
             PROVE  Counted'
  BY DEF Counted
<1>1. ~overlap /\ reset' = reset /\ tasks[t].step # "free"
  BY DEF MarkSent, Count, Finish, history
<1>2. /\ reset = "none" /\ \A u \in Tasks \ {t} : tasks[u].step = "free"
      /\ campaign.status \notin {"sent", "partial"}
  BY <1>1, WorkingAlone
<1>3. \A u \in Tasks \ {t} : tasks'[u] = tasks[u]
  BY DEF MarkSent, Count, Finish, Typed, TypeOK
<1>4. CASE MarkSent(t)
  <2>1. tasks'[t].step = "claim" /\ UNCHANGED campaign
    BY <1>4 DEF MarkSent, Typed, TypeOK, Task
  <2> QED
    BY <1>1, <1>2, <1>3, <2>1 DEF Counted
<1>5. CASE Count(t)
  <2>1. tasks'[t].sent = SentRows /\ tasks'[t].step = "finish" /\ UNCHANGED <<campaign, ledger>>
    BY <1>5 DEF Count, SentRows, Typed, TypeOK, Task
  <2>2. SentRows' = SentRows
    BY <2>1 DEF SentRows, With
  <2> QED
    BY <1>1, <1>2, <1>3, <2>1, <2>2 DEF Counted
<1>6. CASE Finish(t)
  <2>1. tasks'[t].step = "free" /\ UNCHANGED ledger /\ campaign'.recipients = tasks[t].sent
    BY <1>6 DEF Finish, Free, Typed, TypeOK, Campaign
  <2>2. SentRows' = SentRows /\ tasks[t].sent = SentRows
    BY <1>1, <1>6, <2>1 DEF SentRows, With, Finish, Counted
  <2> QED
    BY <1>1, <1>2, <1>3, <2>1, <2>2 DEF Counted
<1> QED
  BY <1>4, <1>5, <1>6

\* Executions and resets that begin see whether others are at work.
LEMMA BeginCounted ==
    ASSUME Typed, Counted, ResetRecover \/ \E t \in Tasks : Begin(t)
    PROVE  Counted'
<1> SUFFICES ASSUME ~overlap'
             PROVE  Counted'
  BY DEF Counted
<1>1. ~overlap /\ reset = "none" /\ \A u \in Tasks : tasks[u].step = "free"
  BY DEF ResetRecover, Begin, NoteOverlap
<1>2. CASE ResetRecover
  <2>1. UNCHANGED <<campaign, tasks>> /\ ledger' = Recovered
    BY <1>2 DEF ResetRecover
  <2>2. With("sent")' = With("sent")
    BY <2>1 DEF With, Recovered, Stale, Typed, TypeOK, Row
  <2>3. SentRows' = SentRows
    BY <2>2 DEF SentRows
  <2> QED
    BY <1>1, <2>1, <2>3 DEF Counted
<1>3. ASSUME NEW t \in Tasks, Begin(t)
      PROVE  Counted'
  <2>1. /\ \A u \in Tasks \ {t} : tasks'[u] = tasks[u] /\ tasks'[t].step = "seed"
        /\ campaign'.status = "sending" /\ reset' = reset
    BY <1>3 DEF Begin, Goto, Typed, TypeOK, Task, Campaign
  <2>2. tasks'[t].step = "seed"
    BY <1>3 DEF Begin, Goto, Typed, TypeOK, Task
  <2> QED
    BY <1>1, <2>1, <2>2 DEF Counted
<1> QED
  BY <1>2, <1>3

LEMMA RowsCounted ==
    ASSUME Typed, Counted,
           \/ \E c \in Customers : ClaimAges(c) \/ Retry(c)
           \/ RecoverStale \/ ResetFailures \/ ResetDraft \/ ConsentChanges \/ Crash \/ UNCHANGED vars
    PROVE  Counted'
<1>1. overlap' = overlap /\ (reset' # "none" => reset # "none")
  BY DEF ClaimAges, Retry, RecoverStale, ResetFailures, ResetDraft, ConsentChanges, Crash, vars, history
<1>2. \A t \in Tasks : tasks'[t] = tasks[t] \/ tasks'[t].step = "free"
  BY DEF ClaimAges, Retry, RecoverStale, ResetFailures, ResetDraft, ConsentChanges, Crash, vars, Free
<1>3. campaign'.status \in {"sent", "partial"} =>
         campaign'.status = campaign.status /\ campaign'.recipients = campaign.recipients
  BY DEF ClaimAges, Retry, RecoverStale, ResetFailures, ResetDraft, ConsentChanges, Crash, vars,
         Typed, TypeOK, Campaign
<1>4. With("sent")' = With("sent")
  <2> SUFFICES ASSUME NEW c \in Customers
               PROVE  ledger'[c].st = "sent" <=> ledger[c].st = "sent"
    BY DEF With
  <2>1. CASE UNCHANGED ledger
    BY <2>1
  <2>2. ASSUME NEW x \in Customers, ClaimAges(x) \/ Retry(x)
        PROVE  ledger'[c].st = "sent" <=> ledger[c].st = "sent"
    <3>1. CASE c # x
      BY <2>2, <3>1 DEF ClaimAges, Retry, Typed, TypeOK
    <3>2. CASE c = x /\ ClaimAges(x)
      BY <3>2 DEF ClaimAges, Typed, TypeOK, Row
    <3>3. CASE c = x /\ Retry(x)
      BY <3>3 DEF Retry, NoRow, Typed, TypeOK
    <3> QED
      BY <2>2, <3>1, <3>2, <3>3
  <2>3. CASE RecoverStale
    BY <2>3 DEF RecoverStale, Recovered, Stale, Typed, TypeOK, Row
  <2>4. CASE ResetFailures
    <3>1. ledger'[c] = IF ledger[c].st = "rejected" THEN [NoRow EXCEPT !.st = "pending"] ELSE ledger[c]
      BY <2>4 DEF ResetFailures
    <3> QED
      BY <3>1 DEF NoRow
  <2> QED
    BY <2>1, <2>2, <2>3, <2>4 DEF ResetDraft, ConsentChanges, Crash, vars
<1> QED
  BY <1>1, <1>2, <1>3, <1>4, CountedKept

-----------------------------------------------------------------------------
(* Theorems                                                                *)

\* The types of the schema, and what a task carries at each of its steps.
THEOREM CampaignTyped == Spec => []Typed
<1>1. Init => Typed
  BY InitTyped
<1>2. Typed /\ [Next]_vars => Typed'
  BY TypedStep
<1> QED
  BY <1>1, <1>2, PTL DEF Spec

\* Whatever crashes, recoveries, resets and retries there are, a row and the
\* task that holds it know what Meta has accepted, and the counts of a
\* campaign whose executions do not overlap are those of its rows.
THEOREM CampaignInvariant == ASSUME ~SlowTasks PROVE Spec => [](Typed /\ Delivery /\ Counted)
<1>1. Init => Typed /\ Delivery /\ Counted
  <2> SUFFICES ASSUME Init PROVE Typed /\ Delivery /\ Counted
    OBVIOUS
  <2>1. \A t \in Tasks : tasks[t] = Free
    BY DEF Init
  <2>2. \A c \in Customers : ledger[c].st = "none" /\ accepted[c] = 0
    BY DEF Init, NoRow
  <2>3. Delivery
    BY <2>1, <2>2 DEF Delivery, RowTrue, HandTrue, Apart, Free, Working
  <2>4. campaign.status \in {"draft", "scheduled"}
    BY DEF Init
  <2>5. Counted
    BY <2>1, <2>4 DEF Counted, Free
  <2> QED
    BY <2>3, <2>5, InitTyped
<1>2. Typed /\ Delivery /\ Counted /\ [Next]_vars => (Typed /\ Delivery /\ Counted)'
  <2> SUFFICES ASSUME Typed, Delivery, Counted, [Next]_vars
               PROVE  (Typed /\ Delivery /\ Counted)'
    OBVIOUS
  <2>1. Typed' /\ Delivery'
    BY TypedStep, DeliveryStep
  <2>2. Counted'
    BY TaskCounted, CountCounted, BeginCounted, RowsCounted DEF Next, TaskStep
  <2> QED
    BY <2>1, <2>2
<1> QED
  BY <1>1, <1>2, PTL DEF Spec

\* sender.py: no customer gets the template twice.
THEOREM TemplateNotRepeated == ASSUME ~SlowTasks PROVE Spec => []TemplateOnce
<1>1. Typed /\ Delivery => TemplateOnce
  BY DEF Delivery, RowTrue, TemplateOnce
<1> QED
  BY <1>1, CampaignInvariant, PTL

\* sender.py: who has a delivery row or is written to is one of the first snapshot.
THEOREM SnapshotKept == ASSUME ~SlowTasks PROVE Spec => []AudienceFixed
<1>1. Typed /\ Delivery => AudienceFixed
  <2> SUFFICES ASSUME Typed, Delivery, NEW c \in Customers,
                      ledger[c].st # "none" \/ accepted[c] > 0
               PROVE  c \in audience
    BY DEF AudienceFixed
  <2>1. RowTrue(c) /\ (ledger[c].st # "none" \/ accepted[c] # 0)
    BY DEF Delivery
  <2> QED
    BY <2>1 DEF RowTrue
<1> QED
  BY <1>1, CampaignInvariant, PTL

\* sender.py and broadcast/api.py: the ledger and the finished campaign's
\* counts are true.
THEOREM LedgerIsTrue == ASSUME ~SlowTasks PROVE Spec => []LedgerTruthful
<1>1. Typed /\ Delivery /\ Counted => LedgerTruthful
  <2> SUFFICES ASSUME Typed, Delivery, Counted
               PROVE  LedgerTruthful
    OBVIOUS
  <2>1. ASSUME NEW c \in Customers
        PROVE  /\ ledger[c].st = "sent" => accepted[c] = 1
               /\ accepted[c] > 0 => ledger[c].st \notin {"none", "pending", "rejected"}
    <3>1. RowTrue(c)
      BY DEF Delivery
    <3> QED
      BY <3>1 DEF RowTrue
  <2>2. AtRest /\ ~overlap => campaign.recipients = Cardinality(With("sent"))
    BY DEF AtRest, Counted, SentRows
  <2> QED
    BY <2>1, <2>2 DEF LedgerTruthful, Typed
<1> QED
  BY <1>1, CampaignInvariant, PTL
=============================================================================
