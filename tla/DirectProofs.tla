---------------------------- MODULE DirectProofs ----------------------------
(***************************************************************************)
(* Theorems about KommoDirect for any messages, tasks, bounds and faults:  *)
(* what a task may assume of its job and of the ledger of sends after      *)
(* every await, that a customer gets one message for a job at most, that   *)
(* the rows and the history tell the truth, and that the queue implements  *)
(* the promise of module Answers.                                          *)
(***************************************************************************)
EXTENDS KommoDirect, FiniteSetTheorems, SequenceTheorems, TLAPS

\* The steps before the decision to answer, and those of a turn and its send.
Preparing == {"mirror", "discard", "decide", "prepare"}
Asking == {"ready", "generate", "upload", "claim"}
AI == Asking \cup {"send", "accept", "wait", "error"}

Fates == {"accepted", "delivered", "error"}
Rows == [Kinds -> Row]

-----------------------------------------------------------------------------
(* What Kommo took for a job, and its rows of the ledger                   *)

Lost(msgs) == \A i \in DOMAIN msgs : msgs[i] = "error"
LostBut(msgs, id) == \A i \in DOMAIN msgs : i = id \/ msgs[i] = "error"
Reached(msgs) == \E i \in DOMAIN msgs : msgs[i] = "delivered"
OneLeft(msgs) == \A i, k \in DOMAIN msgs : msgs[i] # "error" /\ msgs[k] # "error" => i = k

Began(rows) == \E k \in Kinds : Begun(rows[k])
Known(rows, msgs) == \A k \in Kinds : /\ rows[k] # NoRow => rows[k].tried
                                      /\ rows[k].id \in DOMAIN msgs \cup {0}

\* The one failure after which something else may be sent: Kommo reported that
\* the image did not arrive, and the job is queued for its text.
Refused(job, x, row) ==
    x = "image" /\ job.rescue /\ row.st = "failed" /\ row.refused /\ row.id # 0

\* Nothing was sent, or what was sent is known to be lost.
Clear(job, rows, msgs) ==
    Lost(msgs) /\ \A x \in Kinds : rows[x] = NoRow \/ Refused(job, x, rows[x])

\* The send of kind k is the only one that may have reached the customer.
Alone(job, rows, k) ==
    \A x \in Kinds \ {k} : rows[x] = NoRow \/ (k = "retext" /\ Refused(job, x, rows[x]))

\* Message id is the one of kind k, and all others are lost.
Carries(job, rows, msgs, k, id) ==
    /\ id \in DOMAIN msgs /\ LostBut(msgs, id) /\ Alone(job, rows, k)
    /\ \A x \in Kinds \ {k} : rows[x].id # id

Awaited(job, rows, msgs) == \E k \in Kinds :
    /\ Carries(job, rows, msgs, k, job.awaits)
    /\ rows[k].id = job.awaits /\ rows[k].st \in {"accepted", "confirmed"}
    /\ rows[k].st = "confirmed" => msgs[job.awaits] = "delivered"

-----------------------------------------------------------------------------
(* The course of a job                                                     *)

\* No send of the job has begun, or its last one was refused.
Unsent(job) == \/ job.st \in {"absent", "pending", "waiting_for_context", "ready"}
               \/ job.st = "processing" /\ ~job.ai

Leased(job) == /\ job.lease \in {0, job.attempts}
               /\ job.lease # 0 <=> job.st = "processing"
               /\ job.st \in Active => job.attempts # 0
Told(job, msgs, n) == /\ job.st = "sent" => job.kept
                      /\ job.kept => n = 1 /\ Reached(msgs)
                      /\ ~job.kept => n = 0
Single(rows, msgs) == OneLeft(msgs) /\ (~Began(rows) => Lost(msgs)) /\ Known(rows, msgs)
Stands(job, rows, msgs) ==
    /\ Unsent(job) => Clear(job, rows, msgs)
    /\ job.st = "waiting_for_delivery" => Awaited(job, rows, msgs)
Silent(job, rows, out) == out => job.st = "discarded" /\ ~Began(rows)

JobOK(job, rows, msgs, n, out) ==
    /\ Leased(job) /\ Told(job, msgs, n) /\ Single(rows, msgs)
    /\ Stands(job, rows, msgs) /\ Silent(job, rows, out)

\* What a task may assume of its job.  From the claim of its turn on, the job is
\* its own or closed; a send that is under way is the only one of its job.
Holds(t, job) == job.lease = t.lease
Sends(t, job, rows, msgs) ==
    /\ t.step = "send" => /\ rows[t.kind].st = "sending" /\ rows[t.kind].id = 0
                          /\ Lost(msgs) /\ Alone(job, rows, t.kind)
    /\ t.step = "accept" => rows[t.kind].st = "sending" /\ rows[t.kind].id = 0
    /\ t.step = "wait" => rows[t.kind].st = "accepted" /\ rows[t.kind].id = t.id
    /\ t.step \in {"accept", "wait"} => Carries(job, rows, msgs, t.kind, t.id)
Fits(t, job, rows, msgs) ==
    /\ t.lease \in 1..job.attempts
    /\ t.step \in Preparing => (Holds(t, job) => ~job.ai)
    /\ t.step \in AI => (Holds(t, job) /\ job.ai) \/ job.st \in Terminal
    /\ t.step \in Asking => (Holds(t, job) => Clear(job, rows, msgs))
    /\ Sends(t, job, rows, msgs)

\* Two tasks of one job have different leases, and one at most is in a turn.
Apart(t, u) == t.step # "free" /\ u.step # "free" /\ t.job = u.job =>
                 t.lease # u.lease /\ ~(t.step \in AI /\ u.step \in AI)

\* The job that the reconciler has copied still waits.
Looks(r, job, msgs) ==
    /\ job.st = "waiting_for_delivery" /\ r.id = job.awaits /\ r.rescue = job.rescue
    /\ r.step \in {"keep", "final"} => msgs[r.id] = "delivered"
    /\ r.step = "final" => job.kept

-----------------------------------------------------------------------------
(* The invariant                                                           *)

World == /\ scope \in Scopes /\ storyOn \in BOOLEAN /\ cached \in BOOLEAN
         /\ comments \subseteq Jobs /\ faults \in 0..scope.faults
Reconcilers == [step : {"idle", "look", "keep", "final"}, job : Jobs \cup {0}, id : Nat,
                rescue : BOOLEAN]
Typed == /\ World
         /\ jobs \in [Jobs -> Job] /\ ledger \in [Jobs -> Rows]
         /\ sent \in [Jobs -> Seq(Fates)] /\ stored \in [Jobs -> Nat]
         /\ superseded \subseteq Jobs
         /\ workers \in [Workers -> Task] /\ reconciler \in Reconcilers

JobsOK == \A j \in Jobs : JobOK(jobs[j], ledger[j], sent[j], stored[j], j \in superseded)
TasksOK == \A w \in Workers : workers[w].step # "free" =>
    LET j == workers[w].job IN
    j \in Jobs /\ Fits(workers[w], jobs[j], ledger[j], sent[j])
TasksApart == \A v, w \in Workers : v # w => Apart(workers[v], workers[w])
ReconcilerOK == reconciler.step # "idle" =>
    LET j == reconciler.job IN
    j \in Jobs /\ Looks(reconciler, jobs[j], sent[j])

\* One job at most is active, and the jobs before one that was claimed are closed.
OneActive == \A i, j \in Jobs : jobs[i].st \in Active /\ jobs[j].st \in Active => i = j
Ordered == \A i, j \in Jobs : i < j =>
    /\ jobs[j].st # "absent" => jobs[i].st \notin {"absent", "pending"}
    /\ jobs[j].attempts # 0 => jobs[i].st \in Terminal

IInv == Typed /\ JobsOK /\ TasksOK /\ TasksApart /\ ReconcilerOK /\ OneActive /\ Ordered
-----------------------------------------------------------------------------
(* Initially                                                               *)

LEMMA InitInv == Init => IInv
<1> SUFFICES ASSUME Init PROVE IInv
  OBVIOUS
<1> USE DEF Init
<1>1. scope.faults \in Nat
  BY DirectAssumption
<1>2. NoJob \in Job /\ NoRow \in Row /\ Free \in Task /\ Idle \in Reconcilers
  BY DEF NoJob, Job, NoRow, Row, Free, Task, Idle, Reconcilers, Kinds, PreAnswer, Terminal
<1>3. <<>> \in Seq(Fates) /\ DOMAIN <<>> = {}
  OBVIOUS
<1>4. Typed
  <2>1. World
    <3>1. 0 \in 0..scope.faults
      BY <1>1
    <3> QED
      BY <3>1 DEF World
  <2>2. jobs \in [Jobs -> Job] /\ stored \in [Jobs -> Nat] /\ workers \in [Workers -> Task]
    BY <1>2
  <2>3. ledger \in [Jobs -> Rows]
    BY <1>2 DEF Rows
  <2>4. sent \in [Jobs -> Seq(Fates)]
    BY <1>3
  <2> QED
    BY <1>2, <2>1, <2>2, <2>3, <2>4 DEF Typed
<1>5. JobsOK
  <2> SUFFICES ASSUME NEW j \in Jobs
               PROVE  JobOK(jobs[j], ledger[j], sent[j], stored[j], j \in superseded)
    BY DEF JobsOK
  <2>1. /\ jobs[j] = NoJob /\ sent[j] = <<>> /\ stored[j] = 0
        /\ ledger[j] = [k \in Kinds |-> NoRow] /\ j \notin superseded
    OBVIOUS
  <2> HIDE DEF Init
  <2>2. Leased(NoJob) /\ Told(NoJob, <<>>, 0)
    BY DEF NoJob, Leased, Told, Active
  <2>3. \A k \in Kinds : ledger[j][k] = NoRow
    BY <2>1
  <2>4. Known(ledger[j], <<>>)
    BY <2>3 DEF Known, NoRow
  <2>5. Single(ledger[j], <<>>) /\ Clear(NoJob, ledger[j], <<>>)
    BY <1>3, <2>3, <2>4 DEF Single, OneLeft, Lost, Clear
  <2>6. Stands(NoJob, ledger[j], <<>>)
    BY <2>5 DEF Stands, NoJob
  <2> QED
    BY <2>1, <2>2, <2>5, <2>6 DEF JobOK, Silent
<1>6. TasksOK /\ TasksApart /\ ReconcilerOK
  BY DEF TasksOK, TasksApart, Apart, ReconcilerOK, Free, Idle
<1>7. OneActive /\ Ordered
  BY DEF OneActive, Ordered, NoJob, Active
<1> QED
  BY <1>4, <1>5, <1>6, <1>7 DEF IInv

-----------------------------------------------------------------------------
(* The frame of a step: it is about one job                                *)

LEMMA JobFields ==
  ASSUME NEW job \in Job
  PROVE  /\ job.st \in {"absent", "pending"} \cup Active \cup Terminal
         /\ job.lease \in Nat /\ job.attempts \in Nat /\ job.ai \in BOOLEAN
         /\ job.timed \in BOOLEAN /\ job.suppress \in BOOLEAN /\ job.rescue \in BOOLEAN
         /\ job.awaits \in Nat /\ job.final \in {"sent", "discarded"} /\ job.kept \in BOOLEAN
  BY DEF Job, PreAnswer, Active, Terminal

LEMMA Rewritten ==
  ASSUME NEW S, NEW T, NEW f \in [S -> T], NEW g, NEW x \in S, NEW y \in T,
         g = [f EXCEPT ![x] = y]
  PROVE  g \in [S -> T] /\ g[x] = y /\ \A z \in S : z # x => g[z] = f[z]
  OBVIOUS

\* What the step leaves behind at job j.
Writes(j, job, rows, msgs, n) ==
    /\ job \in Job /\ rows \in Rows /\ msgs \in Seq(Fates) /\ n \in Nat
    /\ jobs' = [jobs EXCEPT ![j] = job] /\ ledger' = [ledger EXCEPT ![j] = rows]
    /\ sent' = [sent EXCEPT ![j] = msgs] /\ stored' = [stored EXCEPT ![j] = n]

\* It claims no job while another one is active.
NoOther(j) == \A i \in Jobs : i # j => jobs[i].st \notin Active
Turn(j, job) ==
    /\ job.attempts # jobs[j].attempts =>
         \/ jobs[j].attempts # 0
         \/ jobs[j].st = "pending" /\ NoOther(j)
    /\ \/ job.st = jobs[j].st
       \/ jobs[j].st \in Active \cup {"pending"} /\ job.st \in Terminal
       \/ jobs[j].st \in Active /\ job.st \in Active
       \/ jobs[j].st = "pending" /\ job.st \in Active /\ NoOther(j)
       \/ /\ jobs[j].st = "absent" /\ job.st = "pending"
          /\ \A i \in Jobs : i < j => jobs[i].st \notin {"absent", "pending"}

\* What the tasks and the reconciler may assume afterwards.
TasksFit(j, job, rows, msgs) ==
    /\ workers' \in [Workers -> Task]
    /\ \A v \in Workers : workers'[v].step # "free" =>
         \/ workers'[v] = workers[v] /\ workers[v].job # j
         \/ workers'[v].job = j /\ Fits(workers'[v], job, rows, msgs)
    /\ TasksApart'
LooksFit(j, job, msgs) ==
    /\ reconciler' \in Reconcilers
    /\ reconciler'.step # "idle" =>
         \/ reconciler' = reconciler /\ reconciler.job # j
         \/ reconciler'.job = j /\ Looks(reconciler', job, msgs)

LEMMA Statement ==
  ASSUME Typed, NEW j \in Jobs, NEW job, NEW rows, NEW msgs, NEW n,
         Writes(j, job, rows, msgs, n)
  PROVE  /\ jobs' \in [Jobs -> Job] /\ ledger' \in [Jobs -> Rows]
         /\ sent' \in [Jobs -> Seq(Fates)] /\ stored' \in [Jobs -> Nat]
         /\ jobs'[j] = job /\ ledger'[j] = rows /\ sent'[j] = msgs /\ stored'[j] = n
         /\ \A i \in Jobs : i # j => /\ jobs'[i] = jobs[i] /\ ledger'[i] = ledger[i]
                                     /\ sent'[i] = sent[i] /\ stored'[i] = stored[i]
<1>1. jobs' \in [Jobs -> Job] /\ jobs'[j] = job /\ \A i \in Jobs : i # j => jobs'[i] = jobs[i]
  BY Rewritten DEF Typed, Writes
<1>2. /\ ledger' \in [Jobs -> Rows] /\ ledger'[j] = rows
      /\ \A i \in Jobs : i # j => ledger'[i] = ledger[i]
  BY Rewritten DEF Typed, Writes
<1>3. /\ sent' \in [Jobs -> Seq(Fates)] /\ sent'[j] = msgs
      /\ \A i \in Jobs : i # j => sent'[i] = sent[i]
  BY Rewritten DEF Typed, Writes
<1>4. stored' \in [Jobs -> Nat] /\ stored'[j] = n /\ \A i \in Jobs : i # j => stored'[i] = stored[i]
  BY Rewritten DEF Typed, Writes
<1> QED
  BY <1>1, <1>2, <1>3, <1>4

LEMMA OrderKept ==
  ASSUME IInv, NEW j \in Jobs, NEW job \in Job, Turn(j, job), jobs' \in [Jobs -> Job],
         jobs'[j] = job, \A i \in Jobs : i # j => jobs'[i] = jobs[i]
  PROVE  OneActive' /\ Ordered'
<1>0. /\ \A i \in Jobs : jobs[i] \in Job
      /\ Active \cap Terminal = {} /\ Active \cap {"absent", "pending"} = {}
      /\ Terminal \cap {"absent", "pending"} = {}
  BY DEF IInv, Typed, Active, Terminal
<1>1. OneActive'
  <2> SUFFICES ASSUME NEW i \in Jobs, NEW k \in Jobs, i # k,
                      jobs'[i].st \in Active, jobs'[k].st \in Active
               PROVE  FALSE
    BY DEF OneActive
  <2>1. \A x, y \in Jobs : jobs[x].st \in Active /\ jobs[y].st \in Active => x = y
    BY DEF IInv, OneActive
  <2>2. CASE i # j /\ k # j
    BY <2>1, <2>2
  <2>3. ASSUME NEW x \in Jobs, x # j, jobs'[x].st \in Active, job.st \in Active PROVE FALSE
    <3>1. jobs[x].st \in Active
      BY <2>3
    <3>2. ~NoOther(j) /\ jobs[j].st \notin Active
      BY <2>1, <2>3, <3>1 DEF NoOther
    <3> QED
      BY <1>0, <2>3, <3>2 DEF Turn
  <2> QED
    BY <2>2, <2>3
<1>2. Ordered'
  <2> SUFFICES ASSUME NEW i \in Jobs, NEW k \in Jobs, i < k
               PROVE  /\ jobs'[k].st # "absent" => jobs'[i].st \notin {"absent", "pending"}
                      /\ jobs'[k].attempts # 0 => jobs'[i].st \in Terminal
    BY DEF Ordered
  <2>1. /\ jobs[k].st # "absent" => jobs[i].st \notin {"absent", "pending"}
        /\ jobs[k].attempts # 0 => jobs[i].st \in Terminal
    BY DEF IInv, Ordered
  <2>2. i # k
    BY DEF Jobs
  <2>3. CASE i # j /\ k # j
    BY <2>1, <2>3
  <2>4. CASE i = j
    BY <1>0, <2>1, <2>2, <2>4 DEF Turn
  <2>5. CASE k = j
    <3>1. jobs'[i] = jobs[i] /\ jobs'[k] = job
      BY <2>2, <2>5
    <3>2. job.st # "absent" => jobs[i].st \notin {"absent", "pending"}
      BY <1>0, <2>1, <2>5 DEF Turn
    <3>3. ASSUME job.attempts # 0 PROVE jobs[i].st \in Terminal
      <4>1. CASE jobs[j].attempts # 0
        BY <2>1, <2>5, <4>1
      <4>2. CASE jobs[j].attempts = 0
        <5>1. jobs[j].st = "pending" /\ NoOther(j)
          BY <3>3, <4>2 DEF Turn
        <5>2. jobs[i].st \notin {"absent", "pending"} /\ jobs[i].st \notin Active
          BY <2>1, <2>2, <2>5, <5>1 DEF NoOther
        <5> QED
          BY <1>0, <5>2, JobFields
      <4> QED
        BY <4>1, <4>2
    <3> QED
      BY <3>1, <3>2, <3>3
  <2> QED
    BY <2>3, <2>4, <2>5
<1> QED
  BY <1>1, <1>2

LEMMA StepInv ==
  ASSUME IInv, NEW j \in Jobs, NEW job, NEW rows, NEW msgs, NEW n,
         Writes(j, job, rows, msgs, n), World',
         superseded' \subseteq Jobs,
         \A i \in Jobs : i # j => (i \in superseded' <=> i \in superseded),
         JobOK(job, rows, msgs, n, j \in superseded'), Turn(j, job),
         TasksFit(j, job, rows, msgs), LooksFit(j, job, msgs)
  PROVE  IInv'
<1>1. /\ jobs' \in [Jobs -> Job] /\ ledger' \in [Jobs -> Rows]
      /\ sent' \in [Jobs -> Seq(Fates)] /\ stored' \in [Jobs -> Nat]
      /\ jobs'[j] = job /\ ledger'[j] = rows /\ sent'[j] = msgs /\ stored'[j] = n
      /\ \A i \in Jobs : i # j => /\ jobs'[i] = jobs[i] /\ ledger'[i] = ledger[i]
                                  /\ sent'[i] = sent[i] /\ stored'[i] = stored[i]
  BY Statement DEF IInv
<1>2. Typed'
  BY <1>1 DEF Typed, TasksFit, LooksFit
<1>3. JobsOK'
  <2> SUFFICES ASSUME NEW i \in Jobs
               PROVE  JobOK(jobs'[i], ledger'[i], sent'[i], stored'[i], i \in superseded')
    BY DEF JobsOK
  <2>1. CASE i = j
    BY <1>1, <2>1
  <2>2. CASE i # j
    <3>1. JobOK(jobs[i], ledger[i], sent[i], stored[i], i \in superseded)
      BY DEF IInv, JobsOK
    <3>2. (i \in superseded') = (i \in superseded)
      BY <2>2
    <3>3. /\ jobs'[i] = jobs[i] /\ ledger'[i] = ledger[i]
          /\ sent'[i] = sent[i] /\ stored'[i] = stored[i]
      BY <1>1, <2>2
    <3> QED
      BY <3>1, <3>2, <3>3
  <2> QED
    BY <2>1, <2>2
<1>4. TasksOK'
  <2> SUFFICES ASSUME NEW v \in Workers, workers'[v].step # "free"
               PROVE  /\ workers'[v].job \in Jobs
                      /\ Fits(workers'[v], jobs'[workers'[v].job], ledger'[workers'[v].job],
                              sent'[workers'[v].job])
    BY DEF TasksOK
  <2>1. CASE workers'[v] = workers[v] /\ workers[v].job # j
    BY <1>1, <2>1 DEF IInv, TasksOK
  <2>2. CASE workers'[v].job = j /\ Fits(workers'[v], job, rows, msgs)
    BY <1>1, <2>2
  <2> QED
    BY <2>1, <2>2 DEF TasksFit
<1>5. ReconcilerOK'
  <2> SUFFICES ASSUME reconciler'.step # "idle"
               PROVE  /\ reconciler'.job \in Jobs
                      /\ Looks(reconciler', jobs'[reconciler'.job], sent'[reconciler'.job])
    BY DEF ReconcilerOK
  <2>1. CASE reconciler' = reconciler /\ reconciler.job # j
    BY <1>1, <2>1 DEF IInv, ReconcilerOK
  <2>2. CASE reconciler'.job = j /\ Looks(reconciler', job, msgs)
    BY <1>1, <2>2
  <2> QED
    BY <2>1, <2>2 DEF LooksFit
<1>6. OneActive' /\ Ordered'
  BY <1>1, OrderKept DEF Writes
<1> QED
  BY <1>2, <1>3, <1>4, <1>5, <1>6 DEF IInv, TasksFit
-----------------------------------------------------------------------------
(* What other tasks notice of a statement                                  *)

LEMMA Steps == Preparing \cap AI = {} /\ "free" \notin AI /\ "free" \notin Preparing
               /\ Asking \subseteq AI /\ {"send", "accept", "wait"} \subseteq AI
  BY DEF Preparing, AI, Asking

\* Alone and Carries see of the job its rescue alone.
LEMMA RescueOnly ==
  ASSUME NEW job, NEW job2, job2.rescue = job.rescue, NEW rows, NEW msgs, NEW k, NEW id
  PROVE  /\ Alone(job, rows, k) => Alone(job2, rows, k)
         /\ Clear(job, rows, msgs) => Clear(job2, rows, msgs)
         /\ Carries(job, rows, msgs, k, id) => Carries(job2, rows, msgs, k, id)
<1>1. \A x, row : Refused(job2, x, row) <=> Refused(job, x, row)
  BY DEF Refused
<1>2. Alone(job, rows, k) => Alone(job2, rows, k)
  BY <1>1 DEF Alone
<1> QED
  BY <1>1, <1>2 DEF Clear, Carries

\* A task outside of a turn sees whether it still has its lease.
LEMMA Aside ==
  ASSUME NEW t, NEW job, NEW rows, NEW msgs, Fits(t, job, rows, msgs), t.step \notin AI,
         NEW job2, NEW rows2, NEW msgs2, t.lease \in Nat,
         job.attempts \in Nat, job2.attempts \in Nat, job.attempts <= job2.attempts,
         job2.lease = t.lease => job.lease = t.lease /\ (job.ai => FALSE) = (job2.ai => FALSE)
  PROVE  Fits(t, job2, rows2, msgs2)
<1>1. t.lease \in 1..job2.attempts
  BY DEF Fits
<1>2. t.step \in Preparing => (Holds(t, job2) => ~job2.ai)
  BY DEF Fits, Holds
<1>3. Sends(t, job2, rows2, msgs2)
  BY Steps DEF Sends
<1> QED
  BY <1>1, <1>2, <1>3, Steps DEF Fits

LEMMA NotTurning ==
  ASSUME NEW t, NEW job, NEW rows, NEW msgs, Fits(t, job, rows, msgs),
         job.st \notin Terminal, job.lease # t.lease
  PROVE  t.step \notin AI
  BY DEF Fits, Holds

\* A task whose job is closed, or was, has lost its lease and keeps what it
\* knows of the ledger.
LEMMA SeesClosed ==
  ASSUME NEW t, NEW job, NEW rows, NEW msgs, Fits(t, job, rows, msgs), t.lease \in Nat,
         NEW job2, job2.st \in Terminal, job2.lease = 0, job2.rescue = job.rescue,
         job2.attempts = job.attempts
  PROVE  Fits(t, job2, rows, msgs)
<1>1. t.lease \in 1..job2.attempts /\ ~Holds(t, job2)
  BY DEF Fits, Holds
<1>2. Sends(t, job2, rows, msgs)
  BY RescueOnly DEF Fits, Sends
<1> QED
  BY <1>1, <1>2 DEF Fits

-----------------------------------------------------------------------------
(* A statement of task w about its job                                     *)

Onward(w, t) == /\ t.job = workers[w].job /\ t.lease = workers[w].lease /\ t.step # "free"
                /\ t.step \in AI => workers[w].step \in AI
Others(w, job, rows, msgs) == \A v \in Workers :
    v # w /\ workers[v].step # "free" /\ workers[v].job = workers[w].job
    => Fits(workers[v], job, rows, msgs)

LEMMA TaskFields ==
  ASSUME NEW t \in Task
  PROVE  t.lease \in Nat /\ t.id \in Nat /\ t.kind \in Kinds /\ t.job \in Jobs \cup {0}
  BY DEF Task

LEMMA OwnJob ==
  ASSUME IInv, NEW w \in Workers, workers[w].step # "free"
  PROVE  LET j == workers[w].job IN
         /\ workers[w] \in Task /\ j \in Jobs /\ jobs[j] \in Job /\ ledger[j] \in Rows
         /\ sent[j] \in Seq(Fates) /\ stored[j] \in Nat
         /\ JobOK(jobs[j], ledger[j], sent[j], stored[j], j \in superseded)
         /\ Fits(workers[w], jobs[j], ledger[j], sent[j])
         /\ Others(w, jobs[j], ledger[j], sent[j])
<1>1. workers[w].job \in Jobs
  BY DEF IInv, TasksOK
<1>2. Others(w, jobs[workers[w].job], ledger[workers[w].job], sent[workers[w].job])
  BY DEF IInv, TasksOK, Others
<1> QED
  BY <1>1, <1>2 DEF IInv, Typed, TasksOK, JobsOK

LEMMA TasksMove ==
  ASSUME IInv, NEW w \in Workers, workers[w].step # "free", NEW t \in Task,
         workers' = [workers EXCEPT ![w] = t],
         NEW job, NEW rows, NEW msgs,
         t = Free \/ (Onward(w, t) /\ Fits(t, job, rows, msgs)), Others(w, job, rows, msgs)
  PROVE  TasksFit(workers[w].job, job, rows, msgs)
<1>1. /\ workers' \in [Workers -> Task] /\ workers'[w] = t
      /\ \A v \in Workers : v # w => workers'[v] = workers[v]
  BY Rewritten DEF IInv, Typed
<1>2. Free.step = "free"
  BY DEF Free
<1>3. ASSUME NEW v \in Workers, workers'[v].step # "free"
      PROVE  \/ workers'[v] = workers[v] /\ workers[v].job # workers[w].job
             \/ workers'[v].job = workers[w].job /\ Fits(workers'[v], job, rows, msgs)
  <2>1. CASE v = w
    BY <1>1, <1>2, <1>3, <2>1 DEF Onward
  <2>2. CASE v # w
    BY <1>1, <1>3, <2>2 DEF Others
  <2> QED
    BY <2>1, <2>2
<1>4. ASSUME NEW u \in Workers, NEW v \in Workers, u # v PROVE Apart(workers'[u], workers'[v])
  <2>1. Apart(workers[u], workers[v])
    BY <1>4 DEF IInv, TasksApart
  <2>2. CASE t = Free
    BY <1>1, <1>2, <1>4, <2>1, <2>2 DEF Apart
  <2>3. CASE Onward(w, t)
    BY <1>1, <1>4, <2>1, <2>3 DEF Apart, Onward
  <2> QED
    BY <2>2, <2>3
<1> QED
  BY <1>1, <1>3, <1>4 DEF TasksFit, TasksApart

LEMMA LooksStay ==
  ASSUME IInv, NEW j \in Jobs, NEW job, NEW msgs, reconciler' = reconciler,
         \/ jobs[j].st # "waiting_for_delivery"
         \/ job = jobs[j] /\ \A i : sent[j][i] = "delivered" => msgs[i] = "delivered"
  PROVE  LooksFit(j, job, msgs)
<1>1. reconciler \in Reconcilers
  BY DEF IInv, Typed
<1>2. reconciler.step # "idle" /\ reconciler.job = j => Looks(reconciler, job, msgs)
  BY DEF IInv, ReconcilerOK, Looks
<1> QED
  BY <1>1, <1>2 DEF LooksFit

LEMMA WorldKept ==
  ASSUME IInv, UNCHANGED <<scope, storyOn>>, cached' \in BOOLEAN, comments' \subseteq Jobs,
         UNCHANGED faults \/ Fault
  PROVE  World'
<1>1. faults \in 0..scope.faults /\ scope.faults \in Nat
  BY DirectAssumption DEF IInv, Typed, World
<1>2. faults' \in 0..scope.faults
  BY <1>1 DEF Fault
<1> QED
  BY <1>2 DEF IInv, Typed, World

LEMMA TaskStatement ==
  ASSUME IInv, NEW w \in Workers, workers[w].step # "free",
         UNCHANGED outside, cached' \in BOOLEAN,
         NEW job, NEW rows, NEW msgs, NEW n, Writes(workers[w].job, job, rows, msgs, n),
         JobOK(job, rows, msgs, n, workers[w].job \in superseded),
         Turn(workers[w].job, job),
         \/ jobs[workers[w].job].st # "waiting_for_delivery"
         \/ job = jobs[workers[w].job] /\ msgs = sent[workers[w].job],
         NEW t \in Task, workers' = [workers EXCEPT ![w] = t],
         t = Free \/ (Onward(w, t) /\ Fits(t, job, rows, msgs)), Others(w, job, rows, msgs)
  PROVE  IInv'
<1> DEFINE j == workers[w].job
<1>1. j \in Jobs
  BY OwnJob
<1>2. World' /\ superseded' = superseded /\ superseded \subseteq Jobs /\ reconciler' = reconciler
  BY WorldKept DEF outside, IInv, Typed, World
<1>3. TasksFit(j, job, rows, msgs)
  BY TasksMove
<1>4. LooksFit(j, job, msgs)
  BY <1>1, <1>2, LooksStay
<1> QED
  BY <1>1, <1>2, <1>3, <1>4, StepInv
\* A step of a task that writes no row.
LEMMA Unwritten ==
  ASSUME IInv, NEW j \in Jobs, UNCHANGED <<jobs, ledger, sent, stored>>
  PROVE  Writes(j, jobs[j], ledger[j], sent[j], stored[j])
<1>1. /\ jobs \in [Jobs -> Job] /\ ledger \in [Jobs -> Rows]
      /\ sent \in [Jobs -> Seq(Fates)] /\ stored \in [Jobs -> Nat]
  BY DEF IInv, Typed
<1> QED
  BY <1>1 DEF Writes

LEMMA Thinks ==
  ASSUME IInv, NEW w \in Workers, workers[w].step # "free",
         UNCHANGED <<jobs, ledger, sent, stored, outside>>, cached' \in BOOLEAN,
         NEW t \in Task, workers' = [workers EXCEPT ![w] = t],
         \/ t = Free
         \/ /\ Onward(w, t)
            /\ Fits(t, jobs[workers[w].job], ledger[workers[w].job], sent[workers[w].job])
  PROVE  IInv'
<1> DEFINE j == workers[w].job
<1>1. /\ j \in Jobs /\ JobOK(jobs[j], ledger[j], sent[j], stored[j], j \in superseded)
      /\ Others(w, jobs[j], ledger[j], sent[j])
  BY OwnJob
<1>2. Writes(j, jobs[j], ledger[j], sent[j], stored[j])
  BY <1>1, Unwritten
<1>3. Turn(j, jobs[j])
  BY DEF Turn
<1> QED
  BY <1>1, <1>2, <1>3, TaskStatement

LEMMA FreeTask == Free \in Task /\ Free.step = "free"
  BY DEF Free, Task, Kinds

LEMMA TaskIs ==
  \E Ss, Js, Es, Ns :
    /\ Task = [step : Ss, job : Js, lease : Nat, kind : Kinds, id : Nat, error : Es, next : Ns]
    /\ AI \cup Preparing \subseteq Ss
    /\ {"none", "aborted", "unknown", "state", "api", "after"} \subseteq Es
    /\ {"free", "decide", "prepare"} \subseteq Ns
<1>1. AI \cup Preparing \subseteq {"free", "mirror", "discard", "decide", "prepare", "ready",
        "generate", "upload", "claim", "send", "accept", "wait", "error"}
  BY DEF AI, Asking, Preparing
<1> QED
  BY <1>1 DEF Task

LEMMA GotoIs ==
  ASSUME IInv, NEW w \in Workers, NEW s \in AI \cup Preparing, Goto(w, s)
  PROVE  \E t \in Task : /\ workers' = [workers EXCEPT ![w] = t] /\ t.step = s
                         /\ t.job = workers[w].job /\ t.lease = workers[w].lease
                         /\ t.kind = workers[w].kind /\ t.id = workers[w].id
<1> PICK task \in Task : task = workers[w]
  BY DEF IInv, Typed
<1> DEFINE t == [task EXCEPT !.step = s]
<1>1. s \in {"free", "mirror", "discard", "decide", "prepare", "ready", "generate", "upload",
             "claim", "send", "accept", "wait", "error"}
  BY DEF AI, Asking, Preparing
<1>2. t \in Task /\ t.step = s /\ t.job = task.job /\ t.lease = task.lease
      /\ t.kind = task.kind /\ t.id = task.id
  BY <1>1 DEF Task
<1>3. workers' = [workers EXCEPT ![w] = t]
  BY DEF Goto
<1> HIDE DEF t
<1> QED
  BY <1>2, <1>3

Delivers(w, s, k) == workers' = [workers EXCEPT ![w].step = s, ![w].kind = k]

LEMMA DeliverIs ==
  ASSUME IInv, NEW w \in Workers, NEW k \in Kinds, NEW s \in Asking, Delivers(w, s, k)
  PROVE  \E t \in Task : /\ workers' = [workers EXCEPT ![w] = t] /\ t.step = s
                         /\ t.job = workers[w].job /\ t.lease = workers[w].lease
<1> PICK task \in Task : task = workers[w]
  BY DEF IInv, Typed
<1> DEFINE t == [task EXCEPT !.step = s, !.kind = k]
<1>1. s \in AI \cup Preparing
  BY DEF AI
<1> PICK Ss, Js, Es, Ns :
      /\ Task = [step : Ss, job : Js, lease : Nat, kind : Kinds, id : Nat, error : Es, next : Ns]
      /\ AI \cup Preparing \subseteq Ss
      /\ {"none", "aborted", "unknown", "state", "api", "after"} \subseteq Es
      /\ {"free", "decide", "prepare"} \subseteq Ns
  BY TaskIs
<1>2. t \in Task /\ t.step = s /\ t.job = task.job /\ t.lease = task.lease
  BY <1>1
<1>3. workers' = [workers EXCEPT ![w] = t]
  BY DEF Delivers, IInv, Typed
<1> HIDE DEF t
<1> QED
  BY <1>2, <1>3

LEMMA ErrsIs ==
  ASSUME IInv, NEW w \in Workers, NEW e \in {"none", "aborted", "unknown", "state", "api", "after"},
         Errs(w, e)
  PROVE  \E t \in Task : /\ workers' = [workers EXCEPT ![w] = t] /\ t.step = "error"
                         /\ t.job = workers[w].job /\ t.lease = workers[w].lease
<1> PICK task \in Task : task = workers[w]
  BY DEF IInv, Typed
<1> DEFINE t == [task EXCEPT !.step = "error", !.error = e]
<1>1. "error" \in AI \cup Preparing
  BY DEF AI
<1> PICK Ss, Js, Es, Ns :
      /\ Task = [step : Ss, job : Js, lease : Nat, kind : Kinds, id : Nat, error : Es, next : Ns]
      /\ AI \cup Preparing \subseteq Ss
      /\ {"none", "aborted", "unknown", "state", "api", "after"} \subseteq Es
      /\ {"free", "decide", "prepare"} \subseteq Ns
  BY TaskIs
<1>e. e \in Es
  OBVIOUS
<1>2. t \in Task /\ t.step = "error" /\ t.job = task.job /\ t.lease = task.lease
  BY <1>1, <1>e
<1>3. workers' = [workers EXCEPT ![w] = t]
  BY DEF Errs, IInv, Typed
<1> HIDE DEF t
<1> QED
  BY <1>2, <1>3

\* A task that goes on with the id of its message.
Numbers(w, s, i) == workers' = [workers EXCEPT ![w].step = s, ![w].id = i]

LEMMA IdIs ==
  ASSUME IInv, NEW w \in Workers, NEW s \in {"accept", "wait"}, NEW i \in Nat, Numbers(w, s, i)
  PROVE  \E t \in Task : /\ workers' = [workers EXCEPT ![w] = t] /\ t.step = s /\ t.id = i
                         /\ t.job = workers[w].job /\ t.lease = workers[w].lease
                         /\ t.kind = workers[w].kind
<1> PICK task \in Task : task = workers[w]
  BY DEF IInv, Typed
<1> DEFINE t == [task EXCEPT !.step = s, !.id = i]
<1>1. s \in AI \cup Preparing
  BY DEF AI
<1> PICK Ss, Js, Es, Ns :
      /\ Task = [step : Ss, job : Js, lease : Nat, kind : Kinds, id : Nat, error : Es, next : Ns]
      /\ AI \cup Preparing \subseteq Ss
      /\ {"none", "aborted", "unknown", "state", "api", "after"} \subseteq Es
      /\ {"free", "decide", "prepare"} \subseteq Ns
  BY TaskIs
<1>2. t \in Task /\ t.step = s /\ t.id = i /\ t.job = task.job /\ t.lease = task.lease
      /\ t.kind = task.kind
  BY <1>1
<1>3. workers' = [workers EXCEPT ![w] = t]
  BY DEF Numbers, IInv, Typed
<1> HIDE DEF t
<1> QED
  BY <1>2, <1>3

\* A task that looks for a mirror, and what follows.
LEMMA MirrorIs ==
  ASSUME IInv, NEW w \in Workers, NEW n \in {"free", "decide", "prepare"},
         workers' = [workers EXCEPT ![w].step = "mirror", ![w].next = n]
  PROVE  \E t \in Task : /\ workers' = [workers EXCEPT ![w] = t] /\ t.step = "mirror"
                         /\ t.job = workers[w].job /\ t.lease = workers[w].lease
<1> PICK task \in Task : task = workers[w]
  BY DEF IInv, Typed
<1> DEFINE t == [task EXCEPT !.step = "mirror", !.next = n]
<1>1. "mirror" \in AI \cup Preparing
  BY DEF Preparing
<1> PICK Ss, Js, Es, Ns :
      /\ Task = [step : Ss, job : Js, lease : Nat, kind : Kinds, id : Nat, error : Es, next : Ns]
      /\ AI \cup Preparing \subseteq Ss
      /\ {"none", "aborted", "unknown", "state", "api", "after"} \subseteq Es
      /\ {"free", "decide", "prepare"} \subseteq Ns
  BY TaskIs
<1>e. n \in Ns
  OBVIOUS
<1>2. t \in Task /\ t.step = "mirror" /\ t.job = task.job /\ t.lease = task.lease
  BY <1>1, <1>e
<1>3. workers' = [workers EXCEPT ![w] = t]
  BY DEF IInv, Typed
<1> HIDE DEF t
<1> QED
  BY <1>2, <1>3

\* What a task knew still holds at its next step.
LEMMA OnwardFits ==
  ASSUME NEW w \in Workers, NEW t, Onward(w, t), NEW job, NEW rows, NEW msgs,
         Fits(workers[w], job, rows, msgs),
         \/ t.step \in Preparing /\ workers[w].step \in Preparing
         \/ t.step \in Asking /\ workers[w].step \in Asking
         \/ t.step = "error" /\ workers[w].step \in AI
  PROVE  Fits(t, job, rows, msgs)
<1>1. t.lease = workers[w].lease
  BY DEF Onward
<1>2. (Holds(t, job) <=> Holds(workers[w], job)) /\ (workers[w].step \in Asking => workers[w].step \in AI)
  BY <1>1, Steps DEF Holds
<1>3. t.step \notin {"send", "accept", "wait"}
  BY DEF Preparing, Asking
<1>4. t.step = "error" => t.step \notin Preparing /\ t.step \notin Asking
  BY DEF Preparing, Asking
<1> QED
  BY <1>1, <1>2, <1>3, <1>4, Steps DEF Fits, Sends

\* A turn of a job that is not the task's any more: the job is closed.
LEMMA TurnIs ==
  ASSUME IInv, NEW w \in Workers, workers[w].step \in AI
  PROVE  LET job == jobs[workers[w].job] IN
         /\ workers[w].step # "free"
         /\ job.st # "waiting_for_delivery"
         /\ HasLease(w) => job.st = "processing" /\ job.ai
         /\ ~HasLease(w) => job.st \in Terminal
         /\ \A v \in Workers : v # w /\ workers[v].step # "free" /\ workers[v].job = workers[w].job
                               => workers[v].step \notin AI /\ workers[v].lease # workers[w].lease
<1> DEFINE job == jobs[workers[w].job]
<1>1. workers[w].step # "free"
  BY Steps
<1>2. Fits(workers[w], job, ledger[workers[w].job], sent[workers[w].job])
      /\ Leased(job) /\ workers[w].lease # 0
  BY <1>1, OwnJob, TaskFields DEF JobOK, Fits
<1>3. Terminal \cap {"processing", "waiting_for_delivery"} = {}
  BY DEF Terminal
<1>4. HasLease(w) => job.st = "processing"
  BY <1>2 DEF HasLease, Leased
<1>5. ~HasLease(w) => job.st \in Terminal
  BY <1>2 DEF Fits, Holds, HasLease
<1>6. HasLease(w) => job.ai
  BY <1>2, <1>3, <1>4 DEF Fits
<1>7. \A v \in Workers : v # w /\ workers[v].step # "free" /\ workers[v].job = workers[w].job
                         => workers[v].step \notin AI /\ workers[v].lease # workers[w].lease
  BY <1>1 DEF IInv, TasksApart, Apart
<1> QED
  BY <1>1, <1>3, <1>4, <1>5, <1>6, <1>7

-----------------------------------------------------------------------------
(* Closing a job                                                           *)

LEMMA FinishIs ==
  ASSUME IInv, NEW j \in Jobs, NEW s \in Terminal, jobs' = Finish(j, s)
  PROVE  \E job \in Job : /\ jobs' = [jobs EXCEPT ![j] = job]
                          /\ job.st = s /\ job.lease = 0 /\ job.attempts = jobs[j].attempts
                          /\ job.rescue = jobs[j].rescue /\ job.kept = jobs[j].kept
<1> PICK old \in Job : old = jobs[j]
  BY DEF IInv, Typed
<1> DEFINE job == [old EXCEPT !.st = s, !.lease = 0, !.timed = FALSE]
<1>1. job \in Job /\ job.st = s /\ job.lease = 0 /\ job.attempts = old.attempts
      /\ job.rescue = old.rescue /\ job.kept = old.kept
  BY DEF Job
<1>2. jobs' = [jobs EXCEPT ![j] = job]
  BY DEF Finish, IInv, Typed
<1> HIDE DEF job
<1> QED
  BY <1>1, <1>2

LEMMA ClosedOK ==
  ASSUME NEW old \in Job, NEW rows, NEW msgs, NEW n, NEW out, NEW out2,
         JobOK(old, rows, msgs, n, out), old.st \notin Terminal,
         NEW job, job.st \in Terminal, job.lease = 0, job.kept = old.kept,
         job.st = "sent" => old.kept,
         out2 => job.st = "discarded" /\ (out \/ ~Began(rows))
  PROVE  JobOK(job, rows, msgs, n, out2)
<1>1. Leased(job)
  BY DEF Leased, Terminal, Active
<1>2. Told(job, msgs, n) /\ Single(rows, msgs)
  BY DEF JobOK, Told
<1>3. Stands(job, rows, msgs)
  BY DEF Stands, Unsent, Terminal
<1>4. Silent(job, rows, out2)
  BY DEF JobOK, Silent
<1> QED
  BY <1>1, <1>2, <1>3, <1>4 DEF JobOK

LEMMA OthersSeeClosed ==
  ASSUME IInv, NEW j \in Jobs, NEW job, job.st \in Terminal, job.lease = 0,
         job.rescue = jobs[j].rescue, job.attempts = jobs[j].attempts,
         NEW v \in Workers, workers[v].step # "free", workers[v].job = j
  PROVE  Fits(workers[v], job, ledger[j], sent[j])
<1>1. workers[v].lease \in Nat /\ Fits(workers[v], jobs[j], ledger[j], sent[j])
  BY OwnJob, TaskFields
<1> QED
  BY <1>1, SeesClosed

\* A task closes its job, with its lease or, after a mirror check, without.
LEMMA CloseStep ==
  ASSUME IInv, NEW w \in Workers, workers[w].step # "free",
         NEW s \in {"discarded", "failed", "delivery_unknown"},
         jobs' = Finish(workers[w].job, s), jobs[workers[w].job].st \in PreAnswer, Done(w),
         UNCHANGED <<ledger, cached, sent, stored, outside>>
  PROVE  IInv'
<1> DEFINE j == workers[w].job
<1>0. cached' \in BOOLEAN /\ workers' = [workers EXCEPT ![w] = Free]
  BY DEF IInv, Typed, World, Done
<1>1. /\ j \in Jobs /\ jobs[j] \in Job /\ ledger[j] \in Rows
      /\ sent[j] \in Seq(Fates) /\ stored[j] \in Nat
      /\ JobOK(jobs[j], ledger[j], sent[j], stored[j], j \in superseded)
  BY OwnJob
<1>2. jobs[j].st \notin Terminal /\ jobs[j].st # "waiting_for_delivery"
      /\ jobs[j].st \in Active \cup {"pending"}
  BY DEF PreAnswer, Terminal, Active
<1> s \in Terminal
  BY DEF Terminal
<1>3. PICK job \in Job : /\ jobs' = [jobs EXCEPT ![j] = job]
                         /\ job.st = s /\ job.lease = 0 /\ job.attempts = jobs[j].attempts
                         /\ job.rescue = jobs[j].rescue /\ job.kept = jobs[j].kept
  BY <1>1, FinishIs
<1>4. Writes(j, job, ledger[j], sent[j], stored[j])
  BY <1>1, <1>3 DEF Writes, IInv, Typed
<1>5. j \notin superseded
  BY <1>1, <1>2 DEF JobOK, Silent, Terminal
<1>6. job.st \in Terminal /\ job.st # "sent"
  BY <1>3
<1>7. JobOK(job, ledger[j], sent[j], stored[j], j \in superseded)
  <2>1. j \in superseded =>
          job.st = "discarded" /\ (j \in superseded \/ ~Began(ledger[j]))
    BY <1>5
  <2> HIDE DEF j
  <2> QED
    BY <1>1, <1>2, <1>3, <1>6, <2>1, ClosedOK
<1>8. Turn(j, job)
  BY <1>2, <1>3, <1>6 DEF Turn
<1>9. Others(w, job, ledger[j], sent[j])
  BY <1>1, <1>3, <1>6, OthersSeeClosed DEF Others
<1> QED
  BY <1>0, <1>2, <1>4, <1>7, <1>8, <1>9, FreeTask, TaskStatement

\* _mark_job: without the lease it closes nothing.
LEMMA MarkJobStep ==
  ASSUME IInv, NEW w \in Workers, workers[w].step # "free",
         NEW s \in {"discarded", "failed", "delivery_unknown"}, MarkJob(w, s), Done(w),
         UNCHANGED <<ledger, cached, sent, stored, outside>>
  PROVE  IInv'
<1>1. cached' \in BOOLEAN /\ workers' = [workers EXCEPT ![w] = Free]
  BY DEF IInv, Typed, World, Done
<1>2. CASE ~HasLease(w)
  BY <1>1, <1>2, FreeTask, Thinks DEF MarkJob
<1>3. CASE HasLease(w)
  <2>1. jobs' = Finish(workers[w].job, s)
    BY <1>3 DEF MarkJob
  <2>2. /\ Leased(jobs[workers[w].job]) /\ workers[w].lease \in Nat
        /\ workers[w].lease # 0
    BY OwnJob, TaskFields DEF JobOK, Fits
  <2>3. jobs[workers[w].job].st \in PreAnswer
    BY <1>3, <2>2 DEF Leased, HasLease, PreAnswer
  <2> QED
    BY <2>1, <2>3, CloseStep
<1> QED
  BY <1>2, <1>3

-----------------------------------------------------------------------------
(* Steps that write no row                                                 *)

Quiet == UNCHANGED <<jobs, ledger, sent, stored, outside>> /\ cached' \in BOOLEAN

LEMMA QuietIs ==
  ASSUME IInv, UNCHANGED <<jobs, records, outside>>
  PROVE  Quiet
  BY DEF Quiet, records, IInv, Typed, World

LEMMA DoneStep ==
  ASSUME IInv, NEW w \in Workers, workers[w].step # "free", Quiet, Done(w)
  PROVE  IInv'
  BY FreeTask, Thinks DEF Quiet, Done

LEMMA Continues ==
  ASSUME IInv, NEW w \in Workers, workers[w].step # "free", Quiet, NEW t \in Task,
         workers' = [workers EXCEPT ![w] = t],
         t.job = workers[w].job, t.lease = workers[w].lease,
         \/ t.step \in Preparing /\ workers[w].step \in Preparing
         \/ t.step \in Asking /\ workers[w].step \in Asking
         \/ t.step = "error" /\ workers[w].step \in AI
  PROVE  IInv'
<1>1. "error" \in AI
  BY DEF AI
<1>2. Onward(w, t)
  BY <1>1, Steps DEF Onward
<1>3. Fits(t, jobs[workers[w].job], ledger[workers[w].job], sent[workers[w].job])
  BY <1>2, OwnJob, OnwardFits
<1> QED
  BY <1>2, <1>3, Thinks DEF Quiet

LEMMA GotoStep ==
  ASSUME IInv, NEW w \in Workers, workers[w].step # "free", Quiet, NEW s, Goto(w, s),
         \/ s \in Preparing /\ workers[w].step \in Preparing
         \/ s \in Asking /\ workers[w].step \in Asking
  PROVE  IInv'
<1>1. s \in AI \cup Preparing
  BY Steps
<1> QED
  BY <1>1, GotoIs, Continues

LEMMA ErrsStep ==
  ASSUME IInv, NEW w \in Workers, workers[w].step \in AI, Quiet,
         NEW e \in {"none", "aborted", "unknown", "state", "api", "after"}, Errs(w, e)
  PROVE  IInv'
<1>1. workers[w].step # "free"
  BY Steps
<1>2. PICK t \in Task : /\ workers' = [workers EXCEPT ![w] = t] /\ t.step = "error"
                        /\ t.job = workers[w].job /\ t.lease = workers[w].lease
  BY ErrsIs
<1> QED
  BY <1>1, <1>2, Continues

LEMMA DeliverStep ==
  ASSUME IInv, NEW w \in Workers, workers[w].step \in Asking, Quiet, NEW k \in Kinds,
         NEW s \in Asking, Delivers(w, s, k)
  PROVE  IInv'
<1>1. workers[w].step # "free"
  BY DEF Asking
<1>2. PICK t \in Task : /\ workers' = [workers EXCEPT ![w] = t] /\ t.step = s
                        /\ t.job = workers[w].job /\ t.lease = workers[w].lease
  BY DeliverIs
<1> QED
  BY <1>1, <1>2, Continues

-----------------------------------------------------------------------------
(* Claims                                                                  *)

LEMMA ClaimIs ==
  ASSUME IInv, NEW j \in Jobs, NEW w \in Workers, NEW s \in {"mirror", "ready"},
         NEW n \in {"free", "decide", "prepare"}, NEW b \in BOOLEAN, Claim(w, j, s, n, b)
  PROVE  /\ \E job \in Job : /\ jobs' = [jobs EXCEPT ![j] = job]
                             /\ job.st = "processing" /\ job.ai = b
                             /\ job.lease = jobs[j].attempts + 1
                             /\ job.attempts = jobs[j].attempts + 1
                             /\ job.rescue = jobs[j].rescue /\ job.kept = jobs[j].kept
         /\ \E t \in Task : /\ workers' = [workers EXCEPT ![w] = t]
                            /\ t.step = s /\ t.job = j /\ t.lease = jobs[j].attempts + 1
<1> PICK old \in Job : old = jobs[j]
  BY DEF IInv, Typed
<1> PICK a \in Nat : a = old.attempts + 1
  BY JobFields
<1>1. \E job \in Job : /\ jobs' = [jobs EXCEPT ![j] = job]
                       /\ job.st = "processing" /\ job.ai = b /\ job.lease = a
                       /\ job.attempts = a /\ job.rescue = old.rescue /\ job.kept = old.kept
  <2> DEFINE job == [old EXCEPT !.st = "processing", !.timed = FALSE, !.lease = a,
                                !.attempts = a, !.ai = b]
  <2>1. job \in Job /\ job.st = "processing" /\ job.ai = b /\ job.lease = a
        /\ job.attempts = a /\ job.rescue = old.rescue /\ job.kept = old.kept
    BY DEF Job, PreAnswer
  <2>2. jobs' = [jobs EXCEPT ![j] = job]
    BY DEF Claim, IInv, Typed
  <2> HIDE DEF job
  <2> QED
    BY <2>1, <2>2
<1>2. \E t \in Task : workers' = [workers EXCEPT ![w] = t] /\ t.step = s /\ t.job = j /\ t.lease = a
  <2> DEFINE t == [Free EXCEPT !.step = s, !.next = n, !.job = j, !.lease = a]
  <2> PICK Ss, Js, Es, Ns :
        /\ Task = [step : Ss, job : Js, lease : Nat, kind : Kinds, id : Nat, error : Es, next : Ns]
        /\ AI \cup Preparing \subseteq Ss
        /\ {"none", "aborted", "unknown", "state", "api", "after"} \subseteq Es
        /\ {"free", "decide", "prepare"} \subseteq Ns
    BY TaskIs
  <2>1. s \in Ss /\ n \in Ns /\ "none" \in Es
    BY DEF AI, Asking, Preparing
  <2>2. j \in Js
    <3>1. Task = [step : {"free", "mirror", "discard", "decide", "prepare", "ready", "generate",
                          "upload", "claim", "send", "accept", "wait", "error"},
                  job : Jobs \cup {0}, lease : Nat, kind : Kinds, id : Nat,
                  error : {"none", "aborted", "unknown", "state", "api", "after"},
                  next : {"free", "decide", "prepare"}]
      BY DEF Task
    <3>2. [Free EXCEPT !.job = j] \in Task
      BY <3>1 DEF Free, Kinds
    <3>3. [Free EXCEPT !.job = j].job = j
      BY DEF Free
    <3> QED
      BY <3>2, <3>3
  <2>3. t \in Task /\ t.step = s /\ t.job = j /\ t.lease = a
    BY <2>1, <2>2 DEF Free, Kinds
  <2>4. workers' = [workers EXCEPT ![w] = t]
    BY DEF Claim
  <2> HIDE DEF t
  <2> QED
    BY <2>3, <2>4
<1> QED
  BY <1>1, <1>2

LEMMA ClaimStep ==
  ASSUME IInv, NEW j \in Jobs, NEW w \in Workers, NEW s \in {"mirror", "ready"},
         NEW n \in {"free", "decide", "prepare"}, NEW b \in BOOLEAN, Claim(w, j, s, n, b),
         workers[w].step = "free",
         \/ s = "mirror" /\ ~b /\ jobs[j].st = "pending" /\ NoOther(j)
         \/ s = "ready" /\ b /\ jobs[j].st = "ready"
  PROVE  IInv'
<1>1. PICK job \in Job : /\ jobs' = [jobs EXCEPT ![j] = job]
                         /\ job.st = "processing" /\ job.ai = b
                         /\ job.lease = jobs[j].attempts + 1
                         /\ job.attempts = jobs[j].attempts + 1
                         /\ job.rescue = jobs[j].rescue /\ job.kept = jobs[j].kept
  BY ClaimIs
<1>2. PICK t \in Task : /\ workers' = [workers EXCEPT ![w] = t]
                        /\ t.step = s /\ t.job = j /\ t.lease = jobs[j].attempts + 1
  BY ClaimIs
<1>3. /\ jobs[j] \in Job /\ ledger[j] \in Rows /\ sent[j] \in Seq(Fates) /\ stored[j] \in Nat
      /\ JobOK(jobs[j], ledger[j], sent[j], stored[j], j \in superseded)
      /\ jobs[j].attempts \in Nat
  BY JobFields DEF IInv, Typed, JobsOK
<1>4. UNCHANGED <<records, outside>>
  BY DEF Claim
<1>5. Writes(j, job, ledger[j], sent[j], stored[j])
  BY <1>1, <1>3, <1>4 DEF Writes, records, IInv, Typed
<1>6. World' /\ superseded' = superseded /\ superseded \subseteq Jobs /\ reconciler' = reconciler
  BY <1>4, WorldKept DEF outside, records, IInv, Typed, World
<1>7. Clear(job, ledger[j], sent[j])
  BY <1>1, <1>3, RescueOnly DEF JobOK, Stands, Unsent
<1>8. JobOK(job, ledger[j], sent[j], stored[j], j \in superseded')
  <2>1. Leased(job) /\ Told(job, sent[j], stored[j]) /\ Single(ledger[j], sent[j])
    BY <1>1, <1>3 DEF JobOK, Leased, Told
  <2>2. Stands(job, ledger[j], sent[j])
    BY <1>1, <1>7 DEF Stands
  <2>3. j \notin superseded
    BY <1>3 DEF JobOK, Silent
  <2> QED
    BY <1>6, <2>1, <2>2, <2>3 DEF JobOK, Silent
<1>9. Turn(j, job)
  BY <1>1, <1>3 DEF Turn, Active, JobOK, Leased
<1>10. ASSUME NEW v \in Workers, v # w, workers[v].step # "free", workers[v].job = j
       PROVE  /\ workers[v].step \notin AI /\ workers[v].lease < t.lease
              /\ Fits(workers[v], job, ledger[j], sent[j])
  <2>1. Fits(workers[v], jobs[j], ledger[j], sent[j]) /\ workers[v].lease \in Nat
    BY <1>10, OwnJob, TaskFields
  <2>2. workers[v].lease \in 1..jobs[j].attempts
    BY <2>1 DEF Fits
  <2>3. jobs[j].lease = 0 /\ jobs[j].st \notin Terminal
    BY <1>3 DEF JobOK, Leased, Terminal
  <2>4. workers[v].step \notin AI
    BY <2>1, <2>2, <2>3, NotTurning
  <2> QED
    BY <1>1, <1>2, <1>3, <2>1, <2>2, <2>4, Aside
<1>11. Fits(t, job, ledger[j], sent[j])
  <2>1. t.lease \in 1..job.attempts /\ Holds(t, job)
    BY <1>1, <1>2, <1>3 DEF Holds
  <2>2. t.step \notin {"send", "accept", "wait"}
    BY <1>2
  <2>3. t.step \in Preparing => ~job.ai
    BY <1>1, <1>2 DEF Preparing
  <2>4. t.step \in AI => job.ai
    BY <1>1, <1>2 DEF AI, Asking
  <2> QED
    BY <1>7, <2>1, <2>2, <2>3, <2>4 DEF Fits, Sends
<1>12. TasksFit(j, job, ledger[j], sent[j])
  <2>1. /\ workers' \in [Workers -> Task] /\ workers'[w] = t
        /\ \A v \in Workers : v # w => workers'[v] = workers[v]
    BY <1>2, Rewritten DEF IInv, Typed
  <2>2. ASSUME NEW v \in Workers, workers'[v].step # "free"
        PROVE  \/ workers'[v] = workers[v] /\ workers[v].job # j
               \/ workers'[v].job = j /\ Fits(workers'[v], job, ledger[j], sent[j])
    BY <1>2, <1>10, <1>11, <2>1, <2>2
  <2>3. ASSUME NEW u \in Workers, NEW v \in Workers, u # v
        PROVE  Apart(workers'[u], workers'[v])
    <3>1. Apart(workers[u], workers[v])
      BY <2>3 DEF IInv, TasksApart
    <3>2. t.lease \in Nat /\ \A x \in Workers : workers[x].lease \in Nat
      BY TaskFields DEF IInv, Typed
    <3>3. ASSUME NEW x \in Workers, x # w PROVE Apart(t, workers[x]) /\ Apart(workers[x], t)
      BY <1>2, <1>10, <3>2, <3>3 DEF Apart
    <3> QED
      BY <2>1, <2>3, <3>1, <3>3
  <2> QED
    BY <2>1, <2>2, <2>3 DEF TasksFit, TasksApart
<1>13. LooksFit(j, job, sent[j])
  BY <1>6, LooksStay
<1> QED
  BY <1>5, <1>6, <1>8, <1>9, <1>12, <1>13, StepInv

LEMMA ClaimPendingInv ==
  ASSUME IInv, NEW w \in Workers, ClaimPending(w)
  PROVE  IInv'
<1> PICK j \in Jobs : /\ jobs[j].st = "pending" /\ \A i \in Jobs : ~HoldsBack(i, j)
                      /\ Claim(w, j, "mirror", "decide", FALSE)
  BY DEF ClaimPending
<1>1. NoOther(j)
  BY DEF NoOther, HoldsBack
<1> QED
  BY <1>1, ClaimStep DEF ClaimPending

LEMMA ClaimReadyInv ==
  ASSUME IInv, NEW w \in Workers, ClaimReady(w)
  PROVE  IInv'
  BY ClaimStep DEF ClaimReady
-----------------------------------------------------------------------------
(* Giving a job back                                                       *)

\* Another task of a job that a task owns: it is not in a turn, and its lease
\* is another one.
LEMMA OthersOfOwner ==
  ASSUME IInv, NEW w \in Workers, workers[w].step # "free", Owns(w),
         NEW v \in Workers, v # w, workers[v].step # "free", workers[v].job = workers[w].job
  PROVE  workers[v].step \notin AI /\ workers[v].lease # jobs[workers[w].job].lease
<1> DEFINE j == workers[w].job
<1>1. workers[v].lease # workers[w].lease
  BY DEF IInv, TasksApart, Apart
<1>2. workers[v].lease # jobs[j].lease /\ jobs[j].st \notin Terminal
  BY <1>1 DEF Owns, HasLease, Terminal
<1>3. Fits(workers[v], jobs[j], ledger[j], sent[j])
  BY OwnJob
<1> QED
  BY <1>2, <1>3, NotTurning

LEMMA ReleaseStep ==
  ASSUME IInv, NEW w \in Workers, workers[w].step # "free", Owns(w),
         Clear(jobs[workers[w].job], ledger[workers[w].job], sent[workers[w].job]),
         NEW job \in Job, jobs' = [jobs EXCEPT ![workers[w].job] = job],
         job.st \in {"ready", "waiting_for_context"}, job.lease = 0,
         job.attempts = jobs[workers[w].job].attempts,
         job.rescue = jobs[workers[w].job].rescue, job.kept = jobs[workers[w].job].kept,
         UNCHANGED <<records, outside>>,
         NEW t \in Task, workers' = [workers EXCEPT ![w] = t],
         t = Free \/ (Onward(w, t) /\ t.step \in Preparing /\ workers[w].step \in Preparing)
  PROVE  IInv'
<1> DEFINE j == workers[w].job
<1>1. /\ j \in Jobs /\ jobs[j] \in Job /\ ledger[j] \in Rows
      /\ sent[j] \in Seq(Fates) /\ stored[j] \in Nat
      /\ JobOK(jobs[j], ledger[j], sent[j], stored[j], j \in superseded)
      /\ Fits(workers[w], jobs[j], ledger[j], sent[j]) /\ jobs[j].attempts \in Nat
      /\ workers[w].lease \in Nat /\ workers[w].lease # 0
  BY OwnJob, TaskFields, JobFields DEF Fits
<1>2. jobs[j].st = "processing" /\ jobs[j].lease # 0
  BY <1>1 DEF Owns, HasLease
<1>3. Writes(j, job, ledger[j], sent[j], stored[j])
  BY <1>1 DEF Writes, records, IInv, Typed
<1>4. cached' \in BOOLEAN /\ UNCHANGED outside
  BY DEF records, IInv, Typed, World
<1>5. Clear(job, ledger[j], sent[j])
  BY RescueOnly
<1>6. JobOK(job, ledger[j], sent[j], stored[j], j \in superseded)
  <2>1. Leased(job)
    BY <1>1, <1>2 DEF JobOK, Leased, Active
  <2>2. Told(job, sent[j], stored[j]) /\ Single(ledger[j], sent[j])
    BY <1>1 DEF JobOK, Told
  <2>3. Stands(job, ledger[j], sent[j]) /\ j \notin superseded
    BY <1>1, <1>2, <1>5 DEF Stands, JobOK, Silent
  <2> QED
    BY <2>1, <2>2, <2>3 DEF JobOK, Silent
<1>7. Turn(j, job)
  BY <1>2 DEF Turn, Active
<1>8. Others(w, job, ledger[j], sent[j])
  <2> SUFFICES ASSUME NEW v \in Workers, v # w, workers[v].step # "free", workers[v].job = j
               PROVE  Fits(workers[v], job, ledger[j], sent[j])
    BY DEF Others
  <2>1. workers[v].step \notin AI
    BY OthersOfOwner
  <2>2. Fits(workers[v], jobs[j], ledger[j], sent[j]) /\ workers[v].lease \in Nat
    BY OwnJob, TaskFields
  <2>3. workers[v].lease # 0
    BY <1>1, <2>2 DEF Fits
  <2> QED
    BY <1>1, <2>1, <2>2, <2>3, Aside
<1>9. t = Free \/ (Onward(w, t) /\ Fits(t, job, ledger[j], sent[j]))
  <2> SUFFICES ASSUME t # Free PROVE Fits(t, job, ledger[j], sent[j])
    OBVIOUS
  <2>1. Fits(workers[w], job, ledger[j], sent[j])
    BY <1>1, Steps, Aside
  <2> QED
    BY <2>1, OnwardFits
<1> QED
  BY <1>2, <1>3, <1>4, <1>6, <1>7, <1>8, <1>9, TaskStatement

\* _retry_ready_job
LEMMA RetryStep ==
  ASSUME IInv, NEW w \in Workers, workers[w].step = "ready", RetryReady(w),
         UNCHANGED <<records, outside>>
  PROVE  IInv'
<1> DEFINE j == workers[w].job
<1>0. workers[w].step \in Asking /\ workers[w].step # "free"
  BY DEF Asking
<1>1. CASE ~Owns(w)
  <2>1. UNCHANGED jobs /\ Done(w)
    BY <1>1 DEF RetryReady
  <2> QED
    BY <1>0, <2>1, QuietIs, DoneStep
<1>2. CASE Owns(w)
  <2> j \in Jobs
    BY <1>0, OwnJob
  <2> PICK old \in Job : old = jobs[j]
    BY DEF IInv, Typed
  <2> DEFINE job == [old EXCEPT !.st = "ready", !.lease = 0, !.ai = FALSE, !.timed = FALSE]
  <2>1. job \in Job /\ job.st = "ready" /\ job.lease = 0 /\ job.attempts = old.attempts
        /\ job.rescue = old.rescue /\ job.kept = old.kept
    BY DEF Job, PreAnswer
  <2>2. jobs' = [jobs EXCEPT ![j] = job]
    BY <1>2 DEF RetryReady, IInv, Typed
  <2> HIDE DEF job
  <2>3. Clear(jobs[j], ledger[j], sent[j])
    BY <1>0, <1>2, OwnJob DEF Fits, Holds, Owns, HasLease
  <2>4. workers' = [workers EXCEPT ![w] = Free]
    BY DEF RetryReady, Done
  <2> QED
    BY <1>0, <1>2, <2>1, <2>2, <2>3, <2>4, FreeTask, ReleaseStep
<1> QED
  BY <1>1, <1>2

-----------------------------------------------------------------------------
(* Preparation                                                             *)

LEMMA ProceedStep ==
  ASSUME IInv, NEW w \in Workers, workers[w].step \in {"mirror", "discard"}, Proceed(w), Quiet
  PROVE  IInv'
<1>1. workers[w].step # "free" /\ workers[w].step \in Preparing
  BY DEF Preparing
<1>2. workers[w] \in Task
  BY DEF IInv, Typed
<1>3. workers[w].next \in {"free", "decide", "prepare"}
  BY <1>2 DEF Task
<1>4. CASE workers[w].next = "free"
  BY <1>1, <1>4, DoneStep DEF Proceed
<1>5. CASE workers[w].next # "free"
  <2>1. Goto(w, workers[w].next) /\ workers[w].next \in Preparing
    BY <1>3, <1>5 DEF Proceed, Preparing
  <2> QED
    BY <1>1, <2>1, GotoStep
<1> QED
  BY <1>4, <1>5

LEMMA MirrorLooksInv ==
  ASSUME IInv, NEW w \in Workers, MirrorLooks(w)
  PROVE  IInv'
<1>1. workers[w].step = "mirror" /\ Quiet
  BY QuietIs DEF MirrorLooks
<1>2. CASE Goto(w, "discard")
  <2>1. "discard" \in Preparing /\ "mirror" \in Preparing
    BY DEF Preparing
  <2> QED
    BY <1>1, <1>2, <2>1, GotoStep
<1>3. CASE Proceed(w)
  BY <1>1, <1>3, ProceedStep
<1> QED
  BY <1>2, <1>3 DEF MirrorLooks

LEMMA MirrorDiscardsInv ==
  ASSUME IInv, NEW w \in Workers, MirrorDiscards(w)
  PROVE  IInv'
<1> DEFINE j == workers[w].job
<1>1. workers[w].step = "discard" /\ UNCHANGED <<records, outside>>
  BY DEF MirrorDiscards
<1>2. CASE ~MayDiscard(j)
  <2>1. UNCHANGED jobs /\ Proceed(w)
    BY <1>2 DEF MirrorDiscards
  <2> QED
    BY <1>1, <2>1, QuietIs, ProceedStep
<1>3. CASE MayDiscard(j)
  <2>1. jobs[j].st \in PreAnswer /\ jobs' = Finish(j, "discarded") /\ Done(w)
    BY <1>3 DEF MirrorDiscards, MayDiscard
  <2>2. UNCHANGED <<ledger, cached, sent, stored, outside>>
    BY <1>1 DEF records
  <2> QED
    BY <1>1, <2>1, <2>2, CloseStep
<1> QED
  BY <1>2, <1>3

LEMMA DecideInv ==
  ASSUME IInv, NEW w \in Workers, Decide(w)
  PROVE  IInv'
<1>1. workers[w].step = "decide" /\ UNCHANGED <<ledger, cached, sent, stored, outside>>
  BY DEF Decide, records
<1>2. CASE \E s \in {"failed", "discarded"} : MarkJob(w, s) /\ Done(w)
  BY <1>1, <1>2, MarkJobStep
<1>3. CASE /\ workers' = [workers EXCEPT ![w].step = "mirror", ![w].next = "prepare"]
           /\ UNCHANGED jobs
  <2>1. PICK t \in Task : /\ workers' = [workers EXCEPT ![w] = t] /\ t.step = "mirror"
                          /\ t.job = workers[w].job /\ t.lease = workers[w].lease
    BY <1>3, MirrorIs
  <2>2. "mirror" \in Preparing /\ "decide" \in Preparing
    BY DEF Preparing
  <2>3. Quiet
    BY <1>1, <1>3, QuietIs DEF records
  <2> QED
    BY <1>1, <2>1, <2>2, <2>3, Continues
<1> QED
  BY <1>2, <1>3 DEF Decide

Prepared(j, s, b) == jobs' = [jobs EXCEPT ![j].st = s, ![j].suppress = b, ![j].lease = 0,
                                          ![j].ai = FALSE, ![j].timed = FALSE]

LEMMA PreparedIs ==
  ASSUME IInv, NEW j \in Jobs, NEW b \in BOOLEAN,
         NEW s \in {"absent"} \cup PreAnswer \cup {"waiting_for_delivery"} \cup Terminal,
         Prepared(j, s, b)
  PROVE  \E job \in Job : /\ jobs' = [jobs EXCEPT ![j] = job]
                          /\ job.st = s /\ job.lease = 0 /\ job.attempts = jobs[j].attempts
                          /\ job.rescue = jobs[j].rescue /\ job.kept = jobs[j].kept
<1> PICK old \in Job : old = jobs[j]
  BY DEF IInv, Typed
<1> DEFINE job == [old EXCEPT !.st = s, !.suppress = b, !.lease = 0, !.ai = FALSE,
                              !.timed = FALSE]
<1>1. job \in Job /\ job.st = s /\ job.lease = 0 /\ job.attempts = old.attempts
      /\ job.rescue = old.rescue /\ job.kept = old.kept
  BY DEF Job
<1>2. jobs' = [jobs EXCEPT ![j] = job]
  BY DEF Prepared, IInv, Typed
<1> HIDE DEF job
<1> QED
  BY <1>1, <1>2

LEMMA MarkPreparedInv ==
  ASSUME IInv, NEW w \in Workers, MarkPrepared(w)
  PROVE  IInv'
<1> DEFINE j == workers[w].job
<1>1. workers[w].step = "prepare" /\ UNCHANGED <<records, outside>>
  BY DEF MarkPrepared
<1>2. CASE ~Owns(w)
  <2>1. UNCHANGED jobs /\ Done(w)
    BY <1>2 DEF MarkPrepared
  <2> QED
    BY <1>1, <2>1, QuietIs, DoneStep
<1>3. CASE Owns(w)
  <2>0. j \in Jobs /\ storyOn \in BOOLEAN
    BY <1>1, OwnJob DEF IInv, Typed, World
  <2>1. PICK s \in {"ready", "waiting_for_context"}, b \in BOOLEAN : Prepared(j, s, b)
    BY <1>3, <2>0 DEF MarkPrepared, Prepared
  <2>a. s \in {"absent"} \cup PreAnswer \cup {"waiting_for_delivery"} \cup Terminal
    BY DEF PreAnswer
  <2>2. PICK job \in Job : /\ jobs' = [jobs EXCEPT ![j] = job]
                           /\ job.st = s /\ job.lease = 0 /\ job.attempts = jobs[j].attempts
                           /\ job.rescue = jobs[j].rescue /\ job.kept = jobs[j].kept
    BY <2>0, <2>1, <2>a, PreparedIs
  <2>3. Clear(jobs[j], ledger[j], sent[j])
    <3>1. workers[w].step \in Preparing
      BY <1>1 DEF Preparing
    <3>2. ~jobs[j].ai /\ jobs[j].st = "processing"
      BY <1>1, <1>3, <3>1, OwnJob DEF Fits, Holds, Owns, HasLease
    <3> QED
      BY <1>1, <3>2, OwnJob DEF JobOK, Stands, Unsent
  <2>4. workers' = [workers EXCEPT ![w].step = "mirror", ![w].next = "free"]
    BY <1>3 DEF MarkPrepared
  <2>5. PICK t \in Task : /\ workers' = [workers EXCEPT ![w] = t] /\ t.step = "mirror"
                          /\ t.job = workers[w].job /\ t.lease = workers[w].lease
    BY <2>4, MirrorIs
  <2>6. "mirror" \in Preparing /\ "prepare" \in Preparing
    BY DEF Preparing
  <2>7. Onward(w, t) /\ workers[w].step # "free"
    BY <1>1, <2>5, <2>6, Steps DEF Onward
  <2> QED
    BY <1>1, <1>3, <2>2, <2>3, <2>5, <2>6, <2>7, ReleaseStep
<1> QED
  BY <1>2, <1>3
-----------------------------------------------------------------------------
(* A turn up to its send                                                   *)

LEMMA DiscardStep ==
  ASSUME IInv, NEW w \in Workers, workers[w].step # "free", Discard(w), UNCHANGED <<records, outside>>
  PROVE  IInv'
  BY MarkJobStep DEF Discard, records

LEMMA DeliverTextStep ==
  ASSUME IInv, NEW w \in Workers, workers[w].step \in Asking, Quiet, NEW k \in Kinds,
         DeliverText(w, k)
  PROVE  IInv'
<1>1. Delivers(w, "claim", k) /\ "claim" \in Asking
  BY DEF DeliverText, Delivers, Asking
<1> QED
  BY <1>1, DeliverStep

LEMMA ReadyInv ==
  ASSUME IInv, NEW w \in Workers, Ready(w)
  PROVE  IInv'
<1>1. /\ workers[w].step = "ready" /\ workers[w].step \in Asking /\ workers[w].step # "free"
      /\ workers[w].step \in AI /\ UNCHANGED <<records, outside>>
  BY DEF Ready, Asking, AI
<1>2. {"retext", "fallback"} \subseteq Kinds /\ "generate" \in Asking
  BY DEF Kinds, Asking
<1>3. CASE UNCHANGED jobs /\ (DeliverText(w, "retext") \/ DeliverText(w, "fallback"))
  BY <1>1, <1>2, <1>3, QuietIs, DeliverTextStep
<1>4. CASE UNCHANGED jobs /\ (Errs(w, "api") \/ Goto(w, "generate"))
  BY <1>1, <1>2, <1>4, QuietIs, ErrsStep, GotoStep
<1>5. CASE RetryReady(w)
  BY <1>1, <1>5, RetryStep
<1>6. CASE Discard(w)
  BY <1>1, <1>6, DiscardStep
<1> QED
  BY <1>3, <1>4, <1>5, <1>6 DEF Ready, Apologise, Transcribe

LEMMA GenerateInv ==
  ASSUME IInv, NEW w \in Workers, Generate(w)
  PROVE  IInv'
<1>1. /\ workers[w].step = "generate" /\ workers[w].step \in Asking /\ workers[w].step # "free"
      /\ workers[w].step \in AI /\ UNCHANGED <<records, outside>>
  BY DEF Generate, Asking, AI
<1>2. CASE Discard(w)
  BY <1>1, <1>2, DiscardStep
<1>3. CASE UNCHANGED jobs /\ Errs(w, "api")
  BY <1>1, <1>3, QuietIs, ErrsStep
<1>4. CASE UNCHANGED jobs /\ DeliverText(w, "text")
  <2>1. "text" \in Kinds
    BY DEF Kinds
  <2> QED
    BY <1>1, <1>4, <2>1, QuietIs, DeliverTextStep
<1>5. CASE UNCHANGED jobs /\ DeliverImage(w)
  <2>1. Delivers(w, "upload", "image") /\ "upload" \in Asking /\ "image" \in Kinds
    BY <1>5 DEF DeliverImage, Delivers, Asking, Kinds
  <2> QED
    BY <1>1, <1>5, <2>1, QuietIs, DeliverStep
<1> QED
  BY <1>2, <1>3, <1>4, <1>5 DEF Generate

LEMMA UploadInv ==
  ASSUME IInv, NEW w \in Workers, Upload(w)
  PROVE  IInv'
<1>1. /\ workers[w].step = "upload" /\ workers[w].step \in Asking /\ workers[w].step # "free"
      /\ workers[w].step \in AI /\ UNCHANGED <<jobs, ledger, sent, stored, outside>>
  BY DEF Upload, Asking, AI
<1>2. cached' \in BOOLEAN
  BY DEF Upload, DownloadFails, CachedUpload, NewUpload, UploadFails, IInv, Typed, World
<1>3. Quiet
  BY <1>1, <1>2 DEF Quiet
<1>4. Goto(w, "claim") \/ Errs(w, "api") \/ Errs(w, "state")
  BY DEF Upload, DownloadFails, CachedUpload, NewUpload, UploadFails
<1>5. "claim" \in Asking
  BY DEF Asking
<1> QED
  BY <1>1, <1>3, <1>4, <1>5, GotoStep, ErrsStep

\* An error: the apology is sent only if nothing else was begun.
LEMMA HandleErrorInv ==
  ASSUME IInv, NEW w \in Workers, HandleError(w)
  PROVE  IInv'
<1> DEFINE j == workers[w].job
<1>1. /\ workers[w].step = "error" /\ workers[w].step # "free"
      /\ workers[w].step \in AI /\ UNCHANGED <<records, outside>>
  BY DEF HandleError, AI
<1>2. CASE \E s \in {"failed", "delivery_unknown"} : MarkJob(w, s) /\ Done(w)
  BY <1>1, <1>2, MarkJobStep DEF records
<1>3. CASE FallsBack(w)
  <2>1. Delivers(w, "claim", "fallback") /\ "claim" \in Asking /\ "fallback" \in Kinds
        /\ UNCHANGED jobs /\ Safe(j)
    BY <1>3 DEF FallsBack, Apologise, DeliverText, Delivers, Asking, Kinds
  <2>2. PICK t \in Task : /\ workers' = [workers EXCEPT ![w] = t] /\ t.step = "claim"
                          /\ t.job = workers[w].job /\ t.lease = workers[w].lease
    BY <2>1, DeliverIs
  <2>3. /\ JobOK(jobs[j], ledger[j], sent[j], stored[j], j \in superseded)
        /\ Fits(workers[w], jobs[j], ledger[j], sent[j])
    BY <1>1, OwnJob
  <2>4. Clear(jobs[j], ledger[j], sent[j])
    <3>1. ~Began(ledger[j])
      BY <2>1 DEF Safe, Began
    <3>2. \A x \in Kinds : ledger[j][x] = NoRow
      BY <2>1, <2>3 DEF Safe, JobOK, Single, Known
    <3> QED
      BY <2>3, <3>1, <3>2 DEF JobOK, Single, Clear
  <2>5. Onward(w, t)
    BY <1>1, <2>2 DEF Onward
  <2>6. Fits(t, jobs[j], ledger[j], sent[j])
    <3>1. t.lease \in 1..jobs[j].attempts
      BY <2>2, <2>3 DEF Fits
    <3>2. (Holds(t, jobs[j]) /\ jobs[j].ai) \/ jobs[j].st \in Terminal
      BY <1>1, <2>2, <2>3 DEF Fits, Holds
    <3>3. t.step \notin Preparing /\ t.step \notin {"send", "accept", "wait"}
      BY <2>2 DEF Preparing
    <3> QED
      BY <2>4, <3>1, <3>2, <3>3 DEF Fits, Sends
  <2>7. Quiet
    BY <1>1, <2>1, QuietIs
  <2> QED
    BY <1>1, <2>2, <2>5, <2>6, <2>7, Thinks DEF Quiet
<1>4. \A s \in TurnEnds(w) \cup ApologyEnds(w) \cup RetextEnds(w) : s \in {"failed", "delivery_unknown"}
  BY DEF TurnEnds, ApologyEnds, RetextEnds
<1>5. FallsBack(w) \/ \E s \in {"failed", "delivery_unknown"} : MarkJob(w, s) /\ Done(w)
  <2>1. (\E s \in CASE workers[w].kind = "fallback" -> ApologyEnds(w)
                    [] workers[w].kind = "retext" -> RetextEnds(w)
                    [] OTHER -> TurnEnds(w) : MarkJob(w, s) /\ Done(w))
        => \E s \in TurnEnds(w) \cup ApologyEnds(w) \cup RetextEnds(w) : MarkJob(w, s) /\ Done(w)
    OBVIOUS
  <2> QED
    BY <1>4, <2>1 DEF HandleError
<1> QED
  BY <1>2, <1>3, <1>5

-----------------------------------------------------------------------------
(* The send                                                                *)

\* The statement leaves row at kind k of job j.
Puts(j, k, row) == ledger' = [ledger EXCEPT ![j] = [ledger[j] EXCEPT ![k] = row]]

LEMMA RowPut ==
  ASSUME NEW rows \in Rows, NEW k \in Kinds, NEW row \in Row
  PROVE  LET new == [rows EXCEPT ![k] = row] IN
         new \in Rows /\ new[k] = row /\ \A x \in Kinds : x # k => new[x] = rows[x]
  BY Rewritten DEF Rows

LEMMA RowFields ==
  ASSUME NEW row \in Row
  PROVE  /\ row.st \in {"none", "sending", "accepted", "confirmed", "failed", "delivery_unknown"}
         /\ row.id \in Nat /\ row.tried \in BOOLEAN /\ row.refused \in BOOLEAN
  BY DEF Row

Marks(j, k, s) == ledger' = [ledger EXCEPT ![j][k].st = s]

LEMMA StatusIs ==
  ASSUME IInv, NEW j \in Jobs, NEW k \in Kinds,
         NEW s \in {"none", "sending", "accepted", "confirmed", "failed", "delivery_unknown"},
         Marks(j, k, s)
  PROVE  \E row \in Row : Puts(j, k, row) /\ row.st = s /\ row.id = ledger[j][k].id
                          /\ row.tried = ledger[j][k].tried /\ row.refused = ledger[j][k].refused
<1>1. ledger[j] \in Rows /\ ledger[j][k] \in Row
  BY DEF IInv, Typed, Rows
<1> PICK old \in Row : old = ledger[j][k]
  BY <1>1
<1> DEFINE row == [old EXCEPT !.st = s]
<1>2. row \in Row /\ row.st = s /\ row.id = old.id /\ row.tried = old.tried
      /\ row.refused = old.refused
  BY DEF Row
<1>3. Puts(j, k, row)
  BY DEF Marks, Puts, IInv, Typed
<1> HIDE DEF row
<1> QED
  BY <1>2, <1>3

LEMMA UnchangedIs ==
  ASSUME IInv, NEW j \in Jobs, NEW k \in Kinds, UNCHANGED ledger
  PROVE  ledger[j][k] \in Row /\ Puts(j, k, ledger[j][k])
<1>1. ledger \in [Jobs -> Rows] /\ ledger[j] \in [Kinds -> Row]
  BY DEF IInv, Typed, Rows
<1>2. [ledger[j] EXCEPT ![k] = ledger[j][k]] = ledger[j]
  BY <1>1
<1> QED
  BY <1>1, <1>2 DEF Puts
\* A statement of a turn that leaves the job's row alone: nobody else is in a
\* turn of the job, and the others do not look at the ledger.
LEMMA TurnStatement ==
  ASSUME IInv, NEW w \in Workers, workers[w].step \in AI,
         UNCHANGED <<jobs, cached, stored, outside>>,
         NEW rows \in Rows, ledger' = [ledger EXCEPT ![workers[w].job] = rows],
         NEW msgs \in Seq(Fates), sent' = [sent EXCEPT ![workers[w].job] = msgs],
         Single(rows, msgs), jobs[workers[w].job].kept => Reached(msgs),
         workers[w].job \in superseded => ~Began(rows),
         NEW t \in Task, workers' = [workers EXCEPT ![w] = t],
         t = Free \/ (Onward(w, t) /\ Fits(t, jobs[workers[w].job], rows, msgs))
  PROVE  IInv'
<1> DEFINE j == workers[w].job
<1>1. /\ workers[w].step # "free" /\ j \in Jobs /\ jobs[j] \in Job /\ stored[j] \in Nat
      /\ JobOK(jobs[j], ledger[j], sent[j], stored[j], j \in superseded)
      /\ jobs[j].attempts \in Nat
  BY Steps, OwnJob, JobFields
<1>2. /\ jobs[j].st # "waiting_for_delivery" /\ ~Unsent(jobs[j])
      /\ \A v \in Workers : v # w /\ workers[v].step # "free" /\ workers[v].job = j
                            => workers[v].step \notin AI
  BY TurnIs DEF Unsent, Terminal
<1>3. Writes(j, jobs[j], rows, msgs, stored[j])
  BY <1>1 DEF Writes, IInv, Typed
<1>4. cached' \in BOOLEAN /\ UNCHANGED outside
  BY DEF IInv, Typed, World
<1>5. JobOK(jobs[j], rows, msgs, stored[j], j \in superseded)
  <2>1. Leased(jobs[j]) /\ Told(jobs[j], msgs, stored[j])
    BY <1>1 DEF JobOK, Told
  <2>2. Stands(jobs[j], rows, msgs)
    BY <1>2 DEF Stands
  <2>3. Silent(jobs[j], rows, j \in superseded)
    BY <1>1 DEF JobOK, Silent
  <2> QED
    BY <2>1, <2>2, <2>3 DEF JobOK
<1>6. Turn(j, jobs[j])
  BY DEF Turn
<1>7. Others(w, jobs[j], rows, msgs)
  <2> SUFFICES ASSUME NEW v \in Workers, v # w, workers[v].step # "free", workers[v].job = j
               PROVE  Fits(workers[v], jobs[j], rows, msgs)
    BY DEF Others
  <2>1. Fits(workers[v], jobs[j], ledger[j], sent[j]) /\ workers[v].lease \in Nat
        /\ workers[v].step \notin AI
    BY <1>2, OwnJob, TaskFields
  <2> QED
    BY <1>1, <2>1, Aside
<1> QED
  BY <1>1, <1>2, <1>3, <1>4, <1>5, <1>6, <1>7, TaskStatement
LEMMA ClaimDeliveryInv ==
  ASSUME IInv, NEW w \in Workers, ClaimDelivery(w)
  PROVE  IInv'
<1> DEFINE j == workers[w].job
           k == workers[w].kind
           row == [NoRow EXCEPT !.st = "sending", !.tried = TRUE]
<1>1. /\ workers[w].step = "claim" /\ workers[w].step # "free" /\ workers[w].step \in Asking
      /\ workers[w].step \in AI /\ UNCHANGED <<jobs, cached, sent, stored, outside>>
  BY DEF ClaimDelivery, Asking, AI
<1>2. /\ j \in Jobs /\ jobs[j] \in Job /\ ledger[j] \in Rows /\ sent[j] \in Seq(Fates)
      /\ JobOK(jobs[j], ledger[j], sent[j], stored[j], j \in superseded)
      /\ Fits(workers[w], jobs[j], ledger[j], sent[j]) /\ k \in Kinds
  BY <1>1, OwnJob, TaskFields
<1>3. ASSUME Owns(w) PROVE /\ jobs[j].ai /\ j \notin superseded /\ Holds(workers[w], jobs[j])
                           /\ Clear(jobs[j], ledger[j], sent[j])
  <2>1. jobs[j].st = "processing" /\ HasLease(w)
    BY <1>3 DEF Owns
  <2>2. jobs[j].ai /\ j \notin superseded
    BY <1>1, <1>2, <2>1, TurnIs DEF JobOK, Silent
  <2> QED
    BY <1>1, <1>2, <2>1, <2>2 DEF Fits, Holds, HasLease
<1>4. CASE UNCHANGED ledger /\ \E e \in {"aborted", "state", "api"} : Errs(w, e)
  <2>1. Quiet
    BY <1>1, <1>4 DEF Quiet, IInv, Typed, World
  <2> QED
    BY <1>1, <1>4, <2>1, ErrsStep
<1>5. CASE /\ Owns(w) /\ \A x \in Kinds \ {k} : ~Conflicts(w, ledger[j][x])
           /\ ledger[j][k].st = "none" \/ (ledger[j][k].st = "failed" /\ ledger[j][k].id = 0)
           /\ ledger' = [ledger EXCEPT ![j][k] = row] /\ Goto(w, "send")
  <2>1. Clear(jobs[j], ledger[j], sent[j])
    BY <1>3, <1>5
  <2>2. row \in Row /\ row.st = "sending" /\ row.id = 0 /\ row.tried
    BY DEF NoRow, Row
  <2> HIDE DEF row
  <2> DEFINE rows == [ledger[j] EXCEPT ![k] = row]
  <2>3. rows \in Rows /\ rows[k] = row /\ \A x \in Kinds : x # k => rows[x] = ledger[j][x]
    BY <1>2, <2>2, RowPut
  <2>4. ledger' = [ledger EXCEPT ![j] = rows]
    BY <1>5
  <2> HIDE DEF rows
  <2>5. Alone(jobs[j], rows, k)
    <3> SUFFICES ASSUME NEW x \in Kinds \ {k}, rows[x] # NoRow
                 PROVE  k = "retext" /\ Refused(jobs[j], x, rows[x])
      BY DEF Alone
    <3>1. Refused(jobs[j], x, ledger[j][x]) /\ rows[x] = ledger[j][x]
      BY <2>1, <2>3 DEF Clear
    <3>2. ledger[j][x].tried
      BY <1>2, <2>3, <3>1 DEF JobOK, Single, Known
    <3>3. Rescues(w, ledger[j][x])
      BY <1>5, <3>2 DEF Conflicts
    <3> QED
      BY <3>1, <3>3 DEF Rescues
  <2>6. Lost(sent[j])
    BY <2>1 DEF Clear
  <2>7. Single(rows, sent[j])
    <3>1. Known(rows, sent[j])
      BY <1>2, <2>2, <2>3 DEF JobOK, Single, Known
    <3> QED
      BY <1>2, <2>6, <3>1 DEF JobOK, Single
  <2>8. PICK t \in Task : /\ workers' = [workers EXCEPT ![w] = t] /\ t.step = "send"
                          /\ t.job = workers[w].job /\ t.lease = workers[w].lease
                          /\ t.kind = k
    <3>1. "send" \in AI
      BY DEF AI
    <3> QED
      BY <1>5, <3>1, GotoIs
  <2>9. Onward(w, t)
    BY <1>1, <2>8 DEF Onward
  <2>10. Fits(t, jobs[j], rows, sent[j])
    <3>1. t.lease \in 1..jobs[j].attempts
      BY <1>2, <2>8 DEF Fits
    <3>2. Holds(t, jobs[j]) /\ jobs[j].ai
      BY <1>3, <1>5, <2>8 DEF Holds
    <3>3. t.step \notin Preparing /\ t.step \notin Asking
      BY <2>8 DEF Preparing, Asking
    <3>4. Sends(t, jobs[j], rows, sent[j])
      BY <2>2, <2>3, <2>5, <2>6, <2>8 DEF Sends
    <3> QED
      BY <3>1, <3>2, <3>3, <3>4 DEF Fits
  <2>11. sent' = [sent EXCEPT ![j] = sent[j]]
    BY <1>1 DEF IInv, Typed
  <2>12. jobs[j].kept => Reached(sent[j])
    BY <1>2 DEF JobOK, Told
  <2>13. j \notin superseded
    BY <1>3, <1>5
  <2> QED
    BY <1>1, <1>2, <2>3, <2>4, <2>7, <2>8, <2>9, <2>10, <2>11, <2>12, <2>13, TurnStatement
<1>6. ASSUME Owns(w), ledger[j][k].st \in {"accepted", "confirmed"} PROVE FALSE
  <2>1. ledger[j][k] = NoRow \/ Refused(jobs[j], k, ledger[j][k])
    BY <1>2, <1>3, <1>6 DEF Clear
  <2> QED
    BY <1>6, <2>1 DEF NoRow, Refused
<1>7. \/ UNCHANGED ledger /\ \E e \in {"aborted", "state", "api"} : Errs(w, e)
      \/ /\ Owns(w) /\ \A x \in Kinds \ {k} : ~Conflicts(w, ledger[j][x])
         /\ ledger[j][k].st = "none" \/ (ledger[j][k].st = "failed" /\ ledger[j][k].id = 0)
         /\ ledger' = [ledger EXCEPT ![j][k] = row] /\ Goto(w, "send")
  <2> HIDE DEF row
  <2>1. CASE UNCHANGED ledger /\ (Errs(w, "aborted") \/ Errs(w, "api"))
    BY <2>1
  <2>2. CASE /\ Owns(w) /\ \A x \in Kinds \ {k} : ~Conflicts(w, ledger[j][x])
             /\ IF ledger[j][k].st = "none" \/ (ledger[j][k].st = "failed" /\ ledger[j][k].id = 0)
                  THEN ledger' = [ledger EXCEPT ![j][k] = row] /\ Goto(w, "send")
                  ELSE UNCHANGED ledger
                       /\ (ledger[j][k].st \in {"accepted", "confirmed"} \/ Errs(w, "state"))
    BY <1>6, <2>2
  <2> QED
    BY <2>1, <2>2 DEF ClaimDelivery, row
<1> QED
  BY <1>4, <1>5, <1>7

-----------------------------------------------------------------------------
(* What Kommo answers                                                      *)

\* The row of a send under way is written again, and Kommo may have taken the
\* message: then the row remains begun.
LEMMA SendWrites ==
  ASSUME IInv, NEW w \in Workers, workers[w].step = "send",
         UNCHANGED <<jobs, cached, stored, outside>>,
         NEW row \in Row, Puts(workers[w].job, workers[w].kind, row),
         row.tried, row.id = 0, NEW msgs,
         \/ msgs = sent[workers[w].job]
         \/ msgs = Append(sent[workers[w].job], "accepted") /\ Begun(row),
         sent' = [sent EXCEPT ![workers[w].job] = msgs],
         NEW t \in Task, workers' = [workers EXCEPT ![w] = t],
         t.job = workers[w].job, t.lease = workers[w].lease,
         \/ t.step = "error"
         \/ /\ t.step = "accept" /\ t.kind = workers[w].kind /\ row.st = "sending"
            /\ msgs # sent[workers[w].job] /\ t.id = Len(sent[workers[w].job]) + 1
  PROVE  IInv'
<1> DEFINE j == workers[w].job
           k == workers[w].kind
           rows == [ledger[j] EXCEPT ![k] = row]
<1>1. workers[w].step # "free" /\ workers[w].step \in AI
  BY DEF AI
<1>2. /\ j \in Jobs /\ ledger[j] \in Rows /\ sent[j] \in Seq(Fates)
      /\ JobOK(jobs[j], ledger[j], sent[j], stored[j], j \in superseded)
      /\ Fits(workers[w], jobs[j], ledger[j], sent[j]) /\ k \in Kinds
  BY <1>1, OwnJob, TaskFields
<1>3. /\ ledger[j][k].st = "sending" /\ ledger[j][k].id = 0
      /\ Lost(sent[j]) /\ Alone(jobs[j], ledger[j], k)
  BY <1>2 DEF Fits, Sends
<1>4. rows \in Rows /\ rows[k] = row /\ \A x \in Kinds : x # k => rows[x] = ledger[j][x]
  BY <1>2, RowPut
<1>5. ledger' = [ledger EXCEPT ![j] = rows]
  BY DEF Puts
<1> HIDE DEF rows
<1>6. /\ msgs \in Seq(Fates) /\ DOMAIN sent[j] \subseteq DOMAIN msgs
      /\ LostBut(msgs, Len(sent[j]) + 1)
      /\ msgs # sent[j] => Len(sent[j]) + 1 \in DOMAIN msgs
      /\ msgs = sent[j] \/ Begun(row)
  <2>1. CASE msgs = sent[j]
    BY <1>2, <1>3, <2>1 DEF Lost, LostBut
  <2>2. CASE msgs = Append(sent[j], "accepted") /\ Begun(row)
    <3>1. "accepted" \in Fates
      BY DEF Fates
    <3>2. /\ msgs \in Seq(Fates) /\ Len(msgs) = Len(sent[j]) + 1
          /\ DOMAIN msgs = 1..(Len(sent[j]) + 1) /\ DOMAIN sent[j] = 1..Len(sent[j])
          /\ \A i \in 1..Len(sent[j]) : msgs[i] = sent[j][i]
      BY <1>2, <2>2, <3>1
    <3> PICK n \in Nat : n = Len(sent[j])
      BY <1>2
    <3>3. /\ DOMAIN msgs = 1..(n + 1) /\ DOMAIN sent[j] = 1..n
          /\ \A i \in 1..n : msgs[i] = sent[j][i]
      BY <3>2
    <3>4. DOMAIN sent[j] \subseteq DOMAIN msgs /\ n + 1 \in DOMAIN msgs
      BY <3>3
    <3>5. LostBut(msgs, n + 1)
      <4>1. \A i \in 1..(n + 1) : i = n + 1 \/ i \in 1..n
        OBVIOUS
      <4>2. \A i \in 1..n : msgs[i] = "error"
        BY <1>3, <3>3 DEF Lost
      <4> QED
        BY <3>3, <4>1, <4>2 DEF LostBut
    <3> QED
      BY <2>2, <3>2, <3>4, <3>5
  <2> QED
    BY <2>1, <2>2
<1>7. j \notin superseded /\ ~jobs[j].kept
  <2>1. Began(ledger[j])
    BY <1>2, <1>3 DEF Began, Begun
  <2>2. ~Reached(sent[j])
    BY <1>3 DEF Lost, Reached
  <2> QED
    BY <1>2, <2>1, <2>2 DEF JobOK, Silent, Told
<1>8. Alone(jobs[j], rows, k)
  BY <1>3, <1>4 DEF Alone
<1>9. Single(rows, msgs)
  <2>1. OneLeft(msgs)
    BY <1>6 DEF OneLeft, LostBut
  <2>2. Known(rows, msgs)
    BY <1>2, <1>4, <1>6 DEF JobOK, Single, Known
  <2>3. ~Began(rows) => Lost(msgs)
    BY <1>2, <1>3, <1>4, <1>6 DEF Began
  <2> QED
    BY <2>1, <2>2, <2>3 DEF Single
<1>10. Onward(w, t)
  BY <1>1 DEF Onward
<1>11. Fits(t, jobs[j], rows, msgs)
  <2>1. t.lease \in 1..jobs[j].attempts
    BY <1>2 DEF Fits
  <2>2. (Holds(t, jobs[j]) /\ jobs[j].ai) \/ jobs[j].st \in Terminal
    BY <1>1, <1>2 DEF Fits, Holds
  <2>3. t.step \notin Preparing /\ t.step \notin Asking
    BY DEF Preparing, Asking
  <2>4. Sends(t, jobs[j], rows, msgs)
    <3>1. CASE t.step = "error"
      BY <3>1 DEF Sends
    <3>2. CASE /\ t.step = "accept" /\ t.kind = k /\ row.st = "sending"
               /\ msgs # sent[j] /\ t.id = Len(sent[j]) + 1
      <4>1. \A x \in Kinds \ {k} : rows[x].id # t.id
        <5>1. \A x \in Kinds \ {k} : rows[x].id \in DOMAIN sent[j] \cup {0}
          BY <1>2, <1>4 DEF JobOK, Single, Known
        <5>2. DOMAIN sent[j] = 1..Len(sent[j]) /\ Len(sent[j]) \in Nat
          BY <1>2
        <5> QED
          BY <3>2, <5>1, <5>2
      <4>2. Carries(jobs[j], rows, msgs, t.kind, t.id)
        BY <1>6, <1>8, <3>2, <4>1 DEF Carries
      <4> QED
        BY <1>4, <3>2, <4>2 DEF Sends
    <3> QED
      BY <3>1, <3>2
  <2> QED
    BY <2>1, <2>2, <2>3, <2>4 DEF Fits
<1> QED
  BY <1>1, <1>4, <1>5, <1>6, <1>7, <1>9, <1>10, <1>11, TurnStatement

\* While a task sends, the row of its send says so.
LEMMA Sending ==
  ASSUME IInv, NEW w \in Workers, workers[w].step \in {"send", "accept"}
  PROVE  LET row == ledger[workers[w].job][workers[w].kind] IN
         row \in Row /\ row.st = "sending" /\ row.id = 0 /\ row.tried
<1> DEFINE row == ledger[workers[w].job][workers[w].kind]
<1>1. /\ workers[w].kind \in Kinds /\ ledger[workers[w].job] \in Rows
      /\ Known(ledger[workers[w].job], sent[workers[w].job])
      /\ Sends(workers[w], jobs[workers[w].job], ledger[workers[w].job], sent[workers[w].job])
  BY OwnJob, TaskFields DEF JobOK, Single, Fits
<1>2. row \in Row /\ row.st = "sending" /\ row.id = 0
  BY <1>1 DEF Rows, Sends
<1>3. row # NoRow
  BY <1>2 DEF NoRow
<1>4. row.tried
  BY <1>1, <1>3 DEF Known
<1> QED
  BY <1>2, <1>4

LEMMA MarkErrorIs ==
  ASSUME IInv, NEW w \in Workers, workers[w].step = "send",
         NEW s \in {"failed", "delivery_unknown"}, MarkError(w, s) \/ UNCHANGED ledger
  PROVE  \E row \in Row : /\ Puts(workers[w].job, workers[w].kind, row)
                          /\ row.tried /\ row.id = 0 /\ row.st \in {"sending", s}
<1> DEFINE j == workers[w].job
           k == workers[w].kind
<1>1. /\ j \in Jobs /\ k \in Kinds /\ ledger[j] \in Rows
      /\ JobOK(jobs[j], ledger[j], sent[j], stored[j], j \in superseded)
      /\ Fits(workers[w], jobs[j], ledger[j], sent[j])
  BY OwnJob, TaskFields
<1>2. ledger[j][k].st = "sending" /\ ledger[j][k].id = 0 /\ ledger[j][k].tried
  BY Sending
<1>3. CASE UNCHANGED ledger
  BY <1>1, <1>2, <1>3, UnchangedIs
<1>4. CASE ledger' = [ledger EXCEPT ![j][k].st = s]
  <2>1. s \in {"none", "sending", "accepted", "confirmed", "failed", "delivery_unknown"}
    OBVIOUS
  <2>2. PICK row \in Row : Puts(j, k, row) /\ row.st = s /\ row.id = ledger[j][k].id
                           /\ row.tried = ledger[j][k].tried /\ row.refused = ledger[j][k].refused
    <3>1. Marks(j, k, s)
      BY <1>4 DEF Marks
    <3> HIDE DEF j, k
    <3> QED
      BY <1>1, <2>1, <3>1, StatusIs
  <2> QED
    BY <1>2, <2>2
<1> QED
  BY <1>2, <1>3, <1>4 DEF MarkError

LEMMA SendInv ==
  ASSUME IInv, NEW w \in Workers, Send(w)
  PROVE  IInv'
<1> DEFINE j == workers[w].job
           k == workers[w].kind
<1>1. /\ workers[w].step = "send" /\ UNCHANGED <<jobs, cached, stored, outside>>
      /\ workers[w].step # "free" /\ workers[w].step \in AI
  BY DEF Send, AI
<1>2. /\ j \in Jobs /\ k \in Kinds /\ ledger[j] \in Rows /\ sent[j] \in Seq(Fates)
      /\ JobOK(jobs[j], ledger[j], sent[j], stored[j], j \in superseded)
      /\ Fits(workers[w], jobs[j], ledger[j], sent[j])
  BY <1>1, OwnJob, TaskFields
<1>3. ledger[j][k].st = "sending" /\ ledger[j][k].id = 0 /\ ledger[j][k].tried
  BY <1>1, Sending
<1>4. /\ Takes(j) => sent' = [sent EXCEPT ![j] = Append(sent[j], "accepted")]
      /\ UNCHANGED sent => sent' = [sent EXCEPT ![j] = sent[j]]
      /\ Append(sent[j], "accepted") # sent[j]
  <2>1. sent \in [Jobs -> Seq(Fates)]
    BY DEF IInv, Typed
  <2>2. "accepted" \in Fates
    BY DEF Fates
  <2>3. Append(sent[j], "accepted") # sent[j]
    <3>1. Len(Append(sent[j], "accepted")) = Len(sent[j]) + 1 /\ Len(sent[j]) \in Nat
      BY <1>2, <2>2
    <3> QED
      BY <3>1
  <2> QED
    BY <1>2, <2>1, <2>3 DEF Takes
<1>5. CASE SendTaken(w)
  <2>1. PICK t \in Task : /\ workers' = [workers EXCEPT ![w] = t] /\ t.step = "accept"
                          /\ t.id = Len(sent[j]) + 1 /\ t.job = j
                          /\ t.lease = workers[w].lease /\ t.kind = k
    <3>1. Len(sent[j]) + 1 \in Nat
      BY <1>2
    <3>2. Numbers(w, "accept", Len(sent[j]) + 1)
      BY <1>5 DEF SendTaken, Numbers
    <3> QED
      BY <3>1, <3>2, IdIs
  <2>2. ledger[j][k] \in Row /\ Puts(j, k, ledger[j][k])
    BY <1>2, <1>5, UnchangedIs DEF SendTaken
  <2>3. Begun(ledger[j][k]) /\ sent' = [sent EXCEPT ![j] = Append(sent[j], "accepted")]
    BY <1>3, <1>4, <1>5 DEF Begun, SendTaken
  <2> PICK row \in Row : row = ledger[j][k]
    BY <2>2
  <2> PICK msgs : msgs = Append(sent[j], "accepted")
    OBVIOUS
  <2>4. /\ Puts(j, k, row) /\ row.tried /\ row.id = 0 /\ Begun(row) /\ row.st = "sending"
        /\ sent' = [sent EXCEPT ![j] = msgs] /\ msgs # sent[j]
    BY <1>3, <1>4, <2>2, <2>3
  <2> QED
    BY <1>1, <2>1, <2>4, SendWrites
<1>6. ASSUME NEW e \in {"unknown", "api"}, Errs(w, e)
      PROVE  \E t \in Task : /\ workers' = [workers EXCEPT ![w] = t] /\ t.step = "error"
                             /\ t.job = j /\ t.lease = workers[w].lease
  BY <1>6, ErrsIs
<1>7. CASE SendUnknown(w)
  <2>1. PICK t \in Task : /\ workers' = [workers EXCEPT ![w] = t] /\ t.step = "error"
                          /\ t.job = j /\ t.lease = workers[w].lease
    BY <1>6, <1>7 DEF SendUnknown
  <2>2. PICK row \in Row : /\ Puts(j, k, row) /\ row.tried /\ row.id = 0
                           /\ row.st \in {"sending", "delivery_unknown"}
    BY <1>1, <1>7, MarkErrorIs DEF SendUnknown
  <2>3. Begun(row)
    BY <2>2 DEF Begun
  <2>4. \/ sent' = [sent EXCEPT ![j] = sent[j]]
        \/ sent' = [sent EXCEPT ![j] = Append(sent[j], "accepted")]
    BY <1>4, <1>7 DEF SendUnknown
  <2> QED
    BY <1>1, <2>1, <2>2, <2>3, <2>4, SendWrites
<1>8. CASE SendRefused(w)
  <2>1. PICK t \in Task : /\ workers' = [workers EXCEPT ![w] = t] /\ t.step = "error"
                          /\ t.job = j /\ t.lease = workers[w].lease
    BY <1>6, <1>8 DEF SendRefused
  <2>2. PICK row \in Row : Puts(j, k, row) /\ row.tried /\ row.id = 0
    BY <1>1, <1>8, MarkErrorIs DEF SendRefused
  <2>3. sent' = [sent EXCEPT ![j] = sent[j]]
    BY <1>4, <1>8 DEF SendRefused
  <2> QED
    BY <1>1, <2>1, <2>2, <2>3, SendWrites
<1> QED
  BY <1>5, <1>7, <1>8 DEF Send

LEMMA AcceptInv ==
  ASSUME IInv, NEW w \in Workers, Accept(w)
  PROVE  IInv'
<1> DEFINE j == workers[w].job
           k == workers[w].kind
<1>1. /\ workers[w].step = "accept" /\ UNCHANGED <<jobs, cached, sent, stored, outside>>
      /\ workers[w].step # "free" /\ workers[w].step \in AI
  BY DEF Accept, AI
<1>2. /\ j \in Jobs /\ k \in Kinds /\ ledger[j] \in Rows /\ sent[j] \in Seq(Fates)
      /\ JobOK(jobs[j], ledger[j], sent[j], stored[j], j \in superseded)
      /\ Fits(workers[w], jobs[j], ledger[j], sent[j]) /\ workers[w].id \in Nat
  BY <1>1, OwnJob, TaskFields
<1>3. ledger[j][k].st = "sending" /\ ledger[j][k].tried
      /\ Carries(jobs[j], ledger[j], sent[j], k, workers[w].id)
  BY <1>1, <1>2, Sending DEF Fits, Sends
<1>4. CASE Errs(w, "unknown") /\ UNCHANGED ledger
  <2>1. Quiet
    BY <1>1, <1>4 DEF Quiet, IInv, Typed, World
  <2> QED
    BY <1>1, <1>4, <2>1, ErrsStep
<1>5. CASE /\ ledger' = [ledger EXCEPT ![j][k].st = "accepted", ![j][k].id = workers[w].id]
           /\ Goto(w, "wait")
  <2>1. PICK row \in Row : Puts(j, k, row) /\ row.st = "accepted" /\ row.id = workers[w].id
                           /\ row.tried = ledger[j][k].tried
    <3> PICK old \in Row : old = ledger[j][k]
      BY <1>2 DEF Rows
    <3> PICK i \in Nat : i = workers[w].id
      BY <1>2
    <3> DEFINE row == [old EXCEPT !.st = "accepted", !.id = i]
    <3>1. row \in Row /\ row.st = "accepted" /\ row.id = i /\ row.tried = old.tried
      BY DEF Row
    <3>2. [ledger[j] EXCEPT ![k].st = "accepted", ![k].id = i] = [ledger[j] EXCEPT ![k] = row]
      BY <1>2 DEF Rows
    <3>3. ledger' = [ledger EXCEPT ![j] = [ledger[j] EXCEPT ![k].st = "accepted", ![k].id = i]]
      <4> HIDE DEF row
      <4> QED
        BY <1>2, <1>5 DEF IInv, Typed, Rows
    <3>4. Puts(j, k, row)
      BY <3>2, <3>3 DEF Puts
    <3> HIDE DEF row
    <3> QED
      BY <3>1, <3>4
  <2> DEFINE rows == [ledger[j] EXCEPT ![k] = row]
  <2>2. rows \in Rows /\ rows[k] = row /\ \A x \in Kinds : x # k => rows[x] = ledger[j][x]
    BY <1>2, RowPut
  <2>3. ledger' = [ledger EXCEPT ![j] = rows]
    BY <2>1 DEF Puts
  <2> HIDE DEF rows
  <2>4. Carries(jobs[j], rows, sent[j], k, workers[w].id)
    BY <1>3, <2>2 DEF Carries, Alone
  <2>5. Single(rows, sent[j])
    <3>1. Began(rows)
      BY <1>2, <2>1, <2>2 DEF Began, Begun
    <3>2. Known(rows, sent[j])
      BY <1>2, <1>3, <2>1, <2>2 DEF JobOK, Single, Known, Carries
    <3> QED
      BY <1>2, <3>1, <3>2 DEF JobOK, Single
  <2>6. j \notin superseded /\ (jobs[j].kept => Reached(sent[j]))
    <3>1. Began(ledger[j])
      BY <1>2, <1>3 DEF Began, Begun
    <3> QED
      BY <1>2, <3>1 DEF JobOK, Silent, Told
  <2>7. PICK t \in Task : /\ workers' = [workers EXCEPT ![w] = t] /\ t.step = "wait"
                          /\ t.job = workers[w].job /\ t.lease = workers[w].lease
                          /\ t.kind = k /\ t.id = workers[w].id
    <3>1. Goto(w, "wait") /\ "wait" \in AI \cup Preparing
      BY <1>5 DEF AI
    <3> HIDE DEF k
    <3>2. PICK t \in Task : /\ workers' = [workers EXCEPT ![w] = t] /\ t.step = "wait"
                            /\ t.job = workers[w].job /\ t.lease = workers[w].lease
                            /\ t.kind = workers[w].kind /\ t.id = workers[w].id
      BY <3>1, GotoIs
    <3> QED
      BY <3>2 DEF k
  <2>8. Onward(w, t)
    BY <1>1, <2>7 DEF Onward
  <2>9. Fits(t, jobs[j], rows, sent[j])
    <3>1. t.lease \in 1..jobs[j].attempts
      BY <1>2, <2>7 DEF Fits
    <3>2. (Holds(t, jobs[j]) /\ jobs[j].ai) \/ jobs[j].st \in Terminal
      BY <1>1, <1>2, <2>7 DEF Fits, Holds
    <3>3. t.step \notin Preparing /\ t.step \notin Asking
      BY <2>7 DEF Preparing, Asking
    <3>4. Sends(t, jobs[j], rows, sent[j])
      BY <2>1, <2>2, <2>4, <2>7 DEF Sends
    <3> QED
      BY <3>1, <3>2, <3>3, <3>4 DEF Fits
  <2>10. sent' = [sent EXCEPT ![j] = sent[j]]
    BY <1>1 DEF IInv, Typed
  <2> QED
    BY <1>1, <1>2, <2>2, <2>3, <2>5, <2>6, <2>7, <2>8, <2>9, <2>10, TurnStatement
<1> QED
  BY <1>4, <1>5 DEF Accept

\* The job waits for the message that this task has sent.
LEMMA WaitInv ==
  ASSUME IInv, NEW w \in Workers, Wait(w)
  PROVE  IInv'
<1> DEFINE j == workers[w].job
           k == workers[w].kind
<1>1. /\ workers[w].step = "wait" /\ UNCHANGED <<records, outside>>
      /\ workers[w].step # "free" /\ workers[w].step \in AI
  BY DEF Wait, AI
<1>2. /\ j \in Jobs /\ k \in Kinds /\ jobs[j] \in Job /\ ledger[j] \in Rows
      /\ sent[j] \in Seq(Fates) /\ stored[j] \in Nat
      /\ JobOK(jobs[j], ledger[j], sent[j], stored[j], j \in superseded)
      /\ Fits(workers[w], jobs[j], ledger[j], sent[j]) /\ workers[w].id \in Nat
  BY <1>1, OwnJob, TaskFields
<1>3. CASE UNCHANGED jobs /\ Errs(w, "after")
  BY <1>1, <1>3, QuietIs, ErrsStep
<1>4. CASE /\ Owns(w)
           /\ jobs' = [jobs EXCEPT ![j].st = "waiting_for_delivery", ![j].lease = 0,
                                   ![j].timed = FALSE, ![j].awaits = workers[w].id,
                                   ![j].final = IF k = "fallback" THEN "discarded" ELSE "sent"]
           /\ Done(w)
  <2>1. PICK job \in Job : /\ jobs' = [jobs EXCEPT ![j] = job]
                           /\ job.st = "waiting_for_delivery" /\ job.lease = 0
                           /\ job.attempts = jobs[j].attempts /\ job.rescue = jobs[j].rescue
                           /\ job.kept = jobs[j].kept /\ job.awaits = workers[w].id
    <3> PICK old \in Job : old = jobs[j]
      BY <1>2
    <3> PICK i \in Nat : i = workers[w].id
      BY <1>2
    <3> PICK f \in {"sent", "discarded"} : f = IF k = "fallback" THEN "discarded" ELSE "sent"
      OBVIOUS
    <3> DEFINE job == [old EXCEPT !.st = "waiting_for_delivery", !.lease = 0, !.timed = FALSE,
                                  !.awaits = i, !.final = f]
    <3>1. /\ job.st = "waiting_for_delivery" /\ job.lease = 0
          /\ job.attempts = old.attempts /\ job.rescue = old.rescue
          /\ job.kept = old.kept /\ job.awaits = i
      BY DEF Job
    <3>2. job \in Job
      <4> DEFINE F == {"sent", "discarded"}
      <4>1. f \in F
        OBVIOUS
      <4>2. Job = [st : {"absent"} \cup PreAnswer \cup {"waiting_for_delivery"} \cup Terminal,
                   lease : Nat, attempts : Nat, ai : BOOLEAN, timed : BOOLEAN,
                   suppress : BOOLEAN, rescue : BOOLEAN, awaits : Nat, final : F,
                   kept : BOOLEAN]
        BY DEF Job
      <4> HIDE DEF F
      <4> QED
        BY <4>1, <4>2
    <3>3. jobs' = [jobs EXCEPT ![j] = job]
      BY <1>4 DEF IInv, Typed
    <3> HIDE DEF job
    <3> QED
      BY <3>1, <3>2, <3>3
  <2>2. /\ jobs[j].st = "processing" /\ j \notin superseded
    BY <1>2, <1>4 DEF Owns, JobOK, Silent
  <2>3. Writes(j, job, ledger[j], sent[j], stored[j])
    BY <1>1, <1>2, <2>1 DEF Writes, records, IInv, Typed
  <2>4. JobOK(job, ledger[j], sent[j], stored[j], j \in superseded)
    <3>1. Leased(job)
      BY <1>2, <2>1, <2>2 DEF JobOK, Leased, Active
    <3>2. Told(job, sent[j], stored[j]) /\ Single(ledger[j], sent[j])
      BY <1>2, <2>1 DEF JobOK, Told
    <3>3. Carries(job, ledger[j], sent[j], k, job.awaits)
      BY <1>1, <1>2, <2>1, RescueOnly DEF Fits, Sends
    <3>4. ledger[j][k].id = job.awaits /\ ledger[j][k].st = "accepted"
      BY <1>1, <1>2, <2>1 DEF Fits, Sends
    <3>5. Stands(job, ledger[j], sent[j])
      BY <1>2, <2>1, <3>3, <3>4 DEF Stands, Unsent, Awaited
    <3> QED
      BY <2>2, <3>1, <3>2, <3>5 DEF JobOK, Silent
  <2>5. Turn(j, job)
    BY <2>1, <2>2 DEF Turn, Active
  <2>6. Others(w, job, ledger[j], sent[j])
    <3> SUFFICES ASSUME NEW v \in Workers, v # w, workers[v].step # "free", workers[v].job = j
                 PROVE  Fits(workers[v], job, ledger[j], sent[j])
      BY DEF Others
    <3>1. workers[v].step \notin AI
      BY <1>1, <1>4, OthersOfOwner
    <3>2. Fits(workers[v], jobs[j], ledger[j], sent[j]) /\ workers[v].lease \in Nat
      BY OwnJob, TaskFields
    <3>3. workers[v].lease # 0 /\ jobs[j].attempts \in Nat
      BY <1>2, <3>2, JobFields DEF Fits
    <3> QED
      BY <2>1, <3>1, <3>2, <3>3, Aside
  <2>7. cached' \in BOOLEAN /\ UNCHANGED outside /\ workers' = [workers EXCEPT ![w] = Free]
    BY <1>1, <1>4 DEF records, IInv, Typed, World, Done
  <2> QED
    BY <1>1, <2>2, <2>3, <2>4, <2>5, <2>6, <2>7, FreeTask, TaskStatement
<1> QED
  BY <1>3, <1>4 DEF Wait

-----------------------------------------------------------------------------
(* Steps of nobody's task                                                  *)

LEMMA TasksStay ==
  ASSUME IInv, NEW j \in Jobs, workers' = workers, NEW job, NEW rows, NEW msgs,
         \A v \in Workers : workers[v].step # "free" /\ workers[v].job = j
                            => Fits(workers[v], job, rows, msgs)
  PROVE  TasksFit(j, job, rows, msgs)
<1>1. workers' \in [Workers -> Task]
  BY DEF IInv, Typed
<1>2. TasksApart'
  BY DEF IInv, TasksApart
<1> QED
  BY <1>1, <1>2 DEF TasksFit

\* No task is in a turn of a job that is open and nobody's, or being prepared.
LEMMA TasksAside ==
  ASSUME IInv, NEW j \in Jobs, workers' = workers,
         jobs[j].st \notin Terminal, jobs[j].lease = 0 \/ ~jobs[j].ai,
         NEW job, NEW rows, NEW msgs, job.attempts = jobs[j].attempts,
         job.lease = 0 \/ (job.lease = jobs[j].lease /\ job.ai = jobs[j].ai)
  PROVE  TasksFit(j, job, rows, msgs)
<1> SUFFICES ASSUME NEW v \in Workers, workers[v].step # "free", workers[v].job = j
             PROVE  Fits(workers[v], job, rows, msgs)
  BY TasksStay
<1>1. /\ Fits(workers[v], jobs[j], ledger[j], sent[j]) /\ workers[v].lease \in Nat
      /\ jobs[j].attempts \in Nat
  BY OwnJob, TaskFields, JobFields
<1>2. workers[v].lease # 0
  BY <1>1 DEF Fits
<1>3. workers[v].step \notin AI
  BY <1>1, <1>2 DEF Fits, Holds
<1> QED
  BY <1>1, <1>2, <1>3, Aside

\* The facts about any job.
LEMMA AnyJob ==
  ASSUME IInv, NEW j \in Jobs
  PROVE  /\ jobs[j] \in Job /\ ledger[j] \in Rows /\ sent[j] \in Seq(Fates) /\ stored[j] \in Nat
         /\ JobOK(jobs[j], ledger[j], sent[j], stored[j], j \in superseded)
         /\ jobs = [jobs EXCEPT ![j] = jobs[j]] /\ ledger = [ledger EXCEPT ![j] = ledger[j]]
         /\ sent = [sent EXCEPT ![j] = sent[j]] /\ stored = [stored EXCEPT ![j] = stored[j]]
  BY DEF IInv, Typed, JobsOK

\* A job that is not in anybody's hands moves on before its turn.
LEMMA AdvanceStep ==
  ASSUME IInv, NEW j \in Jobs, UNCHANGED <<workers, records, outside>>,
         jobs[j].st \in {"absent", "waiting_for_context"},
         NEW s \in {"pending", "ready"}, jobs' = [jobs EXCEPT ![j].st = s],
         s = "ready" => jobs[j].st = "waiting_for_context",
         s = "pending" =>
           /\ jobs[j].st = "absent"
           /\ \A i \in Jobs : i < j => jobs[i].st \notin {"absent", "pending"}
  PROVE  IInv'
<1>1. /\ jobs[j] \in Job /\ ledger[j] \in Rows /\ sent[j] \in Seq(Fates) /\ stored[j] \in Nat
      /\ JobOK(jobs[j], ledger[j], sent[j], stored[j], j \in superseded)
  BY AnyJob
<1>2. PICK job \in Job : /\ jobs' = [jobs EXCEPT ![j] = job] /\ job.st = s
                         /\ job.lease = jobs[j].lease /\ job.attempts = jobs[j].attempts
                         /\ job.ai = jobs[j].ai /\ job.rescue = jobs[j].rescue
                         /\ job.kept = jobs[j].kept
  <2> PICK old \in Job : old = jobs[j]
    BY <1>1
  <2> DEFINE job == [old EXCEPT !.st = s]
  <2>1. /\ job \in Job /\ job.st = s /\ job.lease = old.lease /\ job.attempts = old.attempts
        /\ job.ai = old.ai /\ job.rescue = old.rescue /\ job.kept = old.kept
    BY DEF Job, PreAnswer
  <2>2. jobs' = [jobs EXCEPT ![j] = job]
    BY DEF IInv, Typed
  <2> HIDE DEF job
  <2> QED
    BY <2>1, <2>2
<1>3. jobs[j].lease = 0 /\ jobs[j].st \notin Terminal /\ jobs[j].st # "waiting_for_delivery"
      /\ j \notin superseded
  BY <1>1 DEF JobOK, Leased, Silent, Terminal
<1>4. Writes(j, job, ledger[j], sent[j], stored[j])
  BY <1>1, <1>2 DEF Writes, records, IInv, Typed
<1>5. JobOK(job, ledger[j], sent[j], stored[j], j \in superseded)
  <2>1. Leased(job)
    BY <1>1, <1>2, <1>3 DEF JobOK, Leased, Active
  <2>2. Told(job, sent[j], stored[j]) /\ Single(ledger[j], sent[j])
    BY <1>1, <1>2 DEF JobOK, Told
  <2>3. Clear(jobs[j], ledger[j], sent[j])
    BY <1>1 DEF JobOK, Stands, Unsent
  <2>4. Stands(job, ledger[j], sent[j])
    BY <1>2, <2>3, RescueOnly DEF Stands
  <2> QED
    BY <1>3, <2>1, <2>2, <2>4 DEF JobOK, Silent
<1>6. Turn(j, job)
  BY <1>2 DEF Turn, Active
<1>7. TasksFit(j, job, ledger[j], sent[j])
  BY <1>2, <1>3, TasksAside
<1>8. LooksFit(j, job, sent[j]) /\ World' /\ superseded' = superseded
      /\ superseded \subseteq Jobs
  BY <1>3, LooksStay, WorldKept DEF outside, records, IInv, Typed, World
<1> QED
  BY <1>4, <1>5, <1>6, <1>7, <1>8, StepInv

LEMMA RecordIncomingInv ==
  ASSUME IInv, NEW j \in Jobs, RecordIncoming(j)
  PROVE  IInv'
<1>1. \A i \in Jobs : i < j => jobs[i].st \notin {"absent", "pending"}
  <2> SUFFICES ASSUME NEW i \in Jobs, i < j PROVE i \in 1..(j - 1)
    BY DEF RecordIncoming
  <2> QED
    BY DEF Jobs
<1> QED
  BY <1>1, AdvanceStep DEF RecordIncoming

LEMMA ContextReleasedInv ==
  ASSUME IInv, NEW j \in Jobs, ContextReleased(j)
  PROVE  IInv'
  BY AdvanceStep DEF ContextReleased

-----------------------------------------------------------------------------
(* The callback of the comment                                             *)

LEMMA CommentCallbackInv ==
  ASSUME IInv, NEW j \in Jobs, CommentCallback(j)
  PROVE  IInv'
<1>1. /\ jobs[j] \in Job /\ ledger[j] \in Rows /\ sent[j] \in Seq(Fates) /\ stored[j] \in Nat
      /\ JobOK(jobs[j], ledger[j], sent[j], stored[j], j \in superseded)
  BY AnyJob
<1>2. /\ workers' = workers /\ reconciler' = reconciler
      /\ UNCHANGED <<ledger, cached, sent, stored>>
  BY DEF CommentCallback, records
<1>3. World'
  <2>1. comments' \subseteq Jobs
    BY DEF CommentCallback, InsertComment, IInv, Typed, World
  <2> QED
    BY <2>1, WorldKept DEF CommentCallback, records, IInv, Typed, World
<1>4. PICK best \in BestCandidate(j) :
        LET gone == {i \in best : ~SendBegan(i)} IN
        /\ jobs' = IF j \in gone THEN Finish(j, "discarded") ELSE jobs
        /\ superseded' = superseded \cup gone
  BY DEF CommentCallback, DiscardMirrored
<1>5. CASE j \in best /\ ~SendBegan(j)
  <2>1. /\ jobs' = Finish(j, "discarded") /\ superseded' = superseded \cup {j}
        /\ MayDiscard(j)
    BY <1>4, <1>5 DEF BestCandidate, Candidates
  <2>2. /\ jobs[j].st \in Active \cup {"pending"} /\ jobs[j].st \notin Terminal
        /\ jobs[j].st # "waiting_for_delivery"
    BY <2>1 DEF MayDiscard, PreAnswer, Active, Terminal
  <2>3. PICK job \in Job : /\ jobs' = [jobs EXCEPT ![j] = job]
                           /\ job.st = "discarded" /\ job.lease = 0
                           /\ job.attempts = jobs[j].attempts
                           /\ job.rescue = jobs[j].rescue /\ job.kept = jobs[j].kept
    BY <2>1, FinishIs DEF Terminal
  <2>4. Writes(j, job, ledger[j], sent[j], stored[j])
    BY <1>1, <1>2, <2>3 DEF Writes, IInv, Typed
  <2>5. ~Began(ledger[j]) /\ job.st \in Terminal /\ job.st # "sent"
    BY <1>5, <2>3 DEF SendBegan, Began, Terminal
  <2>6. JobOK(job, ledger[j], sent[j], stored[j], j \in superseded')
    BY <1>1, <2>2, <2>3, <2>5, ClosedOK
  <2>7. Turn(j, job)
    BY <2>2, <2>3, <2>5 DEF Turn
  <2>8. TasksFit(j, job, ledger[j], sent[j])
    <3>1. \A v \in Workers : workers[v].step # "free" /\ workers[v].job = j
                             => Fits(workers[v], job, ledger[j], sent[j])
      BY <2>3, <2>5, OthersSeeClosed
    <3> QED
      BY <1>2, <3>1, TasksStay
  <2>9. LooksFit(j, job, sent[j])
    BY <1>2, <2>2, LooksStay
  <2>10. superseded' \subseteq Jobs /\ \A i \in Jobs : i # j => (i \in superseded' <=> i \in superseded)
    BY <2>1 DEF IInv, Typed
  <2> QED
    BY <1>3, <2>4, <2>6, <2>7, <2>8, <2>9, <2>10, StepInv
<1>6. CASE ~(j \in best /\ ~SendBegan(j))
  <2>1. jobs' = jobs /\ superseded' = superseded
    <3>1. \A i \in best : i = j
      BY DEF BestCandidate, Candidates
    <3> QED
      BY <1>4, <1>6, <3>1
  <2>2. Writes(j, jobs[j], ledger[j], sent[j], stored[j])
    BY <1>2, <2>1, Unwritten
  <2>3. Turn(j, jobs[j])
    BY DEF Turn
  <2>4. TasksFit(j, jobs[j], ledger[j], sent[j]) /\ LooksFit(j, jobs[j], sent[j])
    BY <1>2, OwnJob, TasksStay, LooksStay
  <2>5. superseded \subseteq Jobs
    BY DEF IInv, Typed
  <2> QED
    BY <1>1, <1>3, <2>1, <2>2, <2>3, <2>4, <2>5, StepInv
<1> QED
  BY <1>5, <1>6

-----------------------------------------------------------------------------
(* Time and recovery                                                       *)

LEMMA TimePassesInv ==
  ASSUME IInv, NEW j \in Jobs, TimePasses(j)
  PROVE  IInv'
<1>1. /\ jobs[j] \in Job /\ ledger[j] \in Rows /\ sent[j] \in Seq(Fates) /\ stored[j] \in Nat
      /\ JobOK(jobs[j], ledger[j], sent[j], stored[j], j \in superseded)
  BY AnyJob
<1>2. /\ workers' = workers /\ reconciler' = reconciler /\ superseded' = superseded
      /\ UNCHANGED <<ledger, sent, stored>> /\ jobs[j].st = "processing"
  BY DEF TimePasses, records
<1>3. World'
  BY WorldKept DEF TimePasses, records, IInv, Typed, World
<1>4. PICK job \in Job :
        /\ jobs' = [jobs EXCEPT ![j] = job] /\ job.st = "processing"
        /\ job.lease = jobs[j].lease /\ job.attempts = jobs[j].attempts
        /\ job.ai = jobs[j].ai /\ job.rescue = jobs[j].rescue /\ job.kept = jobs[j].kept
  <2> PICK old \in Job : old = jobs[j]
    BY <1>1
  <2> DEFINE job == [old EXCEPT !.timed = TRUE]
  <2>1. /\ job \in Job /\ job.st = old.st /\ job.lease = old.lease
        /\ job.attempts = old.attempts /\ job.ai = old.ai /\ job.rescue = old.rescue
        /\ job.kept = old.kept
    BY DEF Job
  <2>2. jobs' = [jobs EXCEPT ![j] = job]
    BY DEF TimePasses, IInv, Typed
  <2> HIDE DEF job
  <2> QED
    BY <1>2, <2>1, <2>2
<1>5. Writes(j, job, ledger[j], sent[j], stored[j])
  BY <1>1, <1>2, <1>4 DEF Writes, IInv, Typed
<1>6. JobOK(job, ledger[j], sent[j], stored[j], j \in superseded)
  <2>1. Leased(job) /\ Told(job, sent[j], stored[j]) /\ Single(ledger[j], sent[j])
    BY <1>1, <1>2, <1>4 DEF JobOK, Leased, Told
  <2>2. Stands(job, ledger[j], sent[j])
    BY <1>1, <1>2, <1>4, RescueOnly DEF JobOK, Stands, Unsent
  <2>3. j \notin superseded
    BY <1>1, <1>2 DEF JobOK, Silent
  <2> QED
    BY <2>1, <2>2, <2>3 DEF JobOK, Silent
<1>7. Turn(j, job)
  BY <1>2, <1>4 DEF Turn
<1>8. TasksFit(j, job, ledger[j], sent[j])
  <2> SUFFICES ASSUME NEW v \in Workers, workers[v].step # "free", workers[v].job = j
               PROVE  Fits(workers[v], job, ledger[j], sent[j])
    BY <1>2, TasksStay
  <2>1. Fits(workers[v], jobs[j], ledger[j], sent[j])
    BY OwnJob
  <2>2. jobs[j].st \notin Terminal
    BY <1>2 DEF Terminal
  <2>3. Holds(workers[v], job) <=> Holds(workers[v], jobs[j])
    BY <1>4 DEF Holds
  <2>4. Sends(workers[v], job, ledger[j], sent[j])
    BY <1>4, <2>1, RescueOnly DEF Fits, Sends
  <2>5. workers[v].step \in Asking => (Holds(workers[v], job) => Clear(job, ledger[j], sent[j]))
    BY <1>4, <2>1, <2>3, RescueOnly DEF Fits
  <2>6. /\ workers[v].step \in Preparing => (Holds(workers[v], job) => ~job.ai)
        /\ workers[v].step \in AI => Holds(workers[v], job) /\ job.ai
    BY <1>4, <2>1, <2>2, <2>3 DEF Fits
  <2> QED
    BY <1>4, <2>1, <2>4, <2>5, <2>6 DEF Fits
<1>9. LooksFit(j, job, sent[j])
  BY <1>2, LooksStay
<1>10. superseded \subseteq Jobs
  BY DEF IInv, Typed
<1> QED
  BY <1>2, <1>3, <1>5, <1>6, <1>7, <1>8, <1>9, <1>10, StepInv

LEMMA RecoverStaleInv ==
  ASSUME IInv, NEW j \in Jobs, RecoverStale(j)
  PROVE  IInv'
<1>1. /\ jobs[j] \in Job /\ ledger[j] \in Rows /\ sent[j] \in Seq(Fates) /\ stored[j] \in Nat
      /\ JobOK(jobs[j], ledger[j], sent[j], stored[j], j \in superseded)
  BY AnyJob
<1>2. /\ workers' = workers /\ reconciler' = reconciler /\ superseded' = superseded
      /\ UNCHANGED <<ledger, sent, stored>> /\ jobs[j].st = "processing"
      /\ World' /\ superseded \subseteq Jobs
  BY WorldKept DEF RecoverStale, records, outside, IInv, Typed, World
<1>3. jobs[j].st \notin Terminal /\ jobs[j].st # "waiting_for_delivery" /\ jobs[j].st \in Active
      /\ j \notin superseded
  BY <1>1, <1>2 DEF Terminal, Active, JobOK, Silent
<1>4. CASE jobs[j].ai
  <2>1. PICK job \in Job : /\ jobs' = [jobs EXCEPT ![j] = job]
                           /\ job.st = "delivery_unknown" /\ job.lease = 0
                           /\ job.attempts = jobs[j].attempts
                           /\ job.rescue = jobs[j].rescue /\ job.kept = jobs[j].kept
    <3>1. jobs' = Finish(j, "delivery_unknown") /\ "delivery_unknown" \in Terminal
      BY <1>4 DEF RecoverStale, Terminal
    <3> QED
      BY <3>1, FinishIs
  <2>2. Writes(j, job, ledger[j], sent[j], stored[j])
    BY <1>1, <1>2, <2>1 DEF Writes, IInv, Typed
  <2>3. job.st \in Terminal /\ job.st # "sent"
    BY <2>1 DEF Terminal
  <2>4. JobOK(job, ledger[j], sent[j], stored[j], j \in superseded)
    BY <1>1, <1>3, <2>1, <2>3, ClosedOK
  <2>5. Turn(j, job)
    BY <1>3, <2>1, <2>3 DEF Turn
  <2>6. TasksFit(j, job, ledger[j], sent[j])
    <3>1. \A v \in Workers : workers[v].step # "free" /\ workers[v].job = j
                             => Fits(workers[v], job, ledger[j], sent[j])
      BY <2>1, <2>3, OthersSeeClosed
    <3> QED
      BY <1>2, <3>1, TasksStay
  <2>7. LooksFit(j, job, sent[j])
    BY <1>2, <1>3, LooksStay
  <2> QED
    BY <1>2, <2>2, <2>4, <2>5, <2>6, <2>7, StepInv
<1>5. CASE ~jobs[j].ai
  <2>1. PICK job \in Job : /\ jobs' = [jobs EXCEPT ![j] = job]
                           /\ job.st = "ready" /\ job.lease = 0
                           /\ job.attempts = jobs[j].attempts
                           /\ job.rescue = jobs[j].rescue /\ job.kept = jobs[j].kept
    <3> PICK old \in Job : old = jobs[j]
      BY <1>1
    <3> DEFINE job == [old EXCEPT !.st = "ready", !.lease = 0, !.timed = FALSE]
    <3>1. /\ job \in Job /\ job.st = "ready" /\ job.lease = 0 /\ job.attempts = old.attempts
          /\ job.rescue = old.rescue /\ job.kept = old.kept
      BY DEF Job, PreAnswer
    <3>2. jobs' = [jobs EXCEPT ![j] = job]
      BY <1>5 DEF RecoverStale, Finish, IInv, Typed
    <3> HIDE DEF job
    <3> QED
      BY <3>1, <3>2
  <2>2. Writes(j, job, ledger[j], sent[j], stored[j])
    BY <1>1, <1>2, <2>1 DEF Writes, IInv, Typed
  <2>3. JobOK(job, ledger[j], sent[j], stored[j], j \in superseded)
    <3>1. Leased(job) /\ Told(job, sent[j], stored[j]) /\ Single(ledger[j], sent[j])
      BY <1>1, <1>3, <2>1 DEF JobOK, Leased, Told, Active
    <3>2. Clear(job, ledger[j], sent[j])
      BY <1>1, <1>2, <1>5, <2>1, RescueOnly DEF JobOK, Stands, Unsent
    <3>3. Stands(job, ledger[j], sent[j])
      BY <2>1, <3>2 DEF Stands
    <3> QED
      BY <1>3, <3>1, <3>3 DEF JobOK, Silent
  <2>4. Turn(j, job)
    BY <1>3, <2>1 DEF Turn, Active
  <2>5. TasksFit(j, job, ledger[j], sent[j])
    BY <1>2, <1>3, <1>5, <2>1, TasksAside
  <2>6. LooksFit(j, job, sent[j])
    BY <1>2, <1>3, LooksStay
  <2> QED
    BY <1>2, <2>2, <2>3, <2>4, <2>5, <2>6, StepInv
<1> QED
  BY <1>4, <1>5

LEMMA CrashInv ==
  ASSUME IInv, Crash
  PROVE  IInv'
<1>1. /\ UNCHANGED <<jobs, ledger, cached, sent, stored, comments, superseded>>
      /\ workers' = [v \in Workers |-> Free] /\ reconciler' = Idle
  BY DEF Crash, records
<1>2. World'
  BY <1>1, WorldKept DEF Crash, IInv, Typed, World
<1>3. Idle \in Reconcilers /\ Idle.step = "idle"
  BY DEF Idle, Reconcilers
<1>4. Typed'
  BY <1>1, <1>2, <1>3, FreeTask DEF IInv, Typed
<1>5. JobsOK'
  BY <1>1 DEF IInv, JobsOK
<1>6. OneActive' /\ Ordered'
  BY <1>1 DEF IInv, OneActive, Ordered
<1>7. TasksOK' /\ TasksApart' /\ ReconcilerOK'
  BY <1>1, <1>3, FreeTask DEF TasksOK, TasksApart, Apart, ReconcilerOK
<1> QED
  BY <1>4, <1>5, <1>6, <1>7 DEF IInv

-----------------------------------------------------------------------------
(* Kommo's report                                                          *)

\* What a report changes: one message that was on its way.
LEMMA Reported ==
  ASSUME NEW msgs \in Seq(Fates), NEW i \in DOMAIN msgs, msgs[i] = "accepted",
         NEW fate \in {"delivered", "error"}, NEW new, new = [msgs EXCEPT ![i] = fate]
  PROVE  /\ new \in Seq(Fates) /\ DOMAIN new = DOMAIN msgs
         /\ \A x \in DOMAIN msgs : msgs[x] \in {"delivered", "error"} => new[x] = msgs[x]
         /\ ~Lost(msgs) /\ (Reached(msgs) => Reached(new)) /\ (OneLeft(msgs) => OneLeft(new))
         /\ \A id : LostBut(msgs, id) => LostBut(new, id)
<1>1. fate \in Fates
  BY DEF Fates
<1>2. new \in Seq(Fates) /\ DOMAIN new = DOMAIN msgs
  <2> PICK n \in Nat : msgs \in [1..n -> Fates]
    BY SeqDef
  <2>1. new \in [1..n -> Fates]
    BY <1>1
  <2> QED
    BY <2>1, SeqDef
<1>3. \A x \in DOMAIN msgs : msgs[x] \in {"delivered", "error"} => new[x] = msgs[x]
  OBVIOUS
<1>4. ~Lost(msgs)
  BY DEF Lost
<1>5. Reached(msgs) => Reached(new)
  BY <1>2, <1>3 DEF Reached
<1>6. OneLeft(msgs) => OneLeft(new)
  BY <1>2, <1>3 DEF OneLeft
<1>7. \A id : LostBut(msgs, id) => LostBut(new, id)
  BY <1>2, <1>3 DEF LostBut
<1> QED
  BY <1>2, <1>3, <1>4, <1>5, <1>6, <1>7

LEMMA ReportInv ==
  ASSUME IInv, NEW j \in Jobs, Report(j)
  PROVE  IInv'
<1>1. /\ jobs[j] \in Job /\ ledger[j] \in Rows /\ sent[j] \in Seq(Fates) /\ stored[j] \in Nat
      /\ JobOK(jobs[j], ledger[j], sent[j], stored[j], j \in superseded)
      /\ jobs = [jobs EXCEPT ![j] = jobs[j]] /\ ledger = [ledger EXCEPT ![j] = ledger[j]]
      /\ stored = [stored EXCEPT ![j] = stored[j]]
  BY AnyJob
<1>2. /\ UNCHANGED <<jobs, ledger, stored, workers, reconciler, superseded>>
      /\ World' /\ superseded \subseteq Jobs
  BY WorldKept DEF Report, outside, IInv, Typed, World
<1>3. PICK i \in DOMAIN sent[j], fate \in {"delivered", "error"} :
        sent[j][i] = "accepted" /\ sent' = [sent EXCEPT ![j][i] = fate]
  BY DEF Report
<1>4. PICK msgs : msgs = [sent[j] EXCEPT ![i] = fate] /\ sent' = [sent EXCEPT ![j] = msgs]
  BY <1>3 DEF IInv, Typed
<1>5. /\ msgs \in Seq(Fates) /\ DOMAIN msgs = DOMAIN sent[j]
      /\ \A x \in DOMAIN sent[j] : sent[j][x] \in {"delivered", "error"} => msgs[x] = sent[j][x]
      /\ ~Lost(sent[j]) /\ (Reached(sent[j]) => Reached(msgs))
      /\ (OneLeft(sent[j]) => OneLeft(msgs))
      /\ \A id : LostBut(sent[j], id) => LostBut(msgs, id)
  BY <1>1, <1>3, <1>4, Reported
<1>6. \A k, id : Carries(jobs[j], ledger[j], sent[j], k, id) => Carries(jobs[j], ledger[j], msgs, k, id)
  BY <1>5 DEF Carries
<1>7. Writes(j, jobs[j], ledger[j], msgs, stored[j])
  BY <1>1, <1>2, <1>4, <1>5 DEF Writes
<1>8. JobOK(jobs[j], ledger[j], msgs, stored[j], j \in superseded)
  <2>1. Told(jobs[j], msgs, stored[j])
    BY <1>1, <1>5 DEF JobOK, Told
  <2>2. Single(ledger[j], msgs)
    BY <1>1, <1>5 DEF JobOK, Single, Known
  <2>3. ~Unsent(jobs[j])
    BY <1>1, <1>5 DEF JobOK, Stands, Clear
  <2>4. Awaited(jobs[j], ledger[j], sent[j]) => Awaited(jobs[j], ledger[j], msgs)
    <3> SUFFICES ASSUME NEW k \in Kinds,
                        Carries(jobs[j], ledger[j], sent[j], k, jobs[j].awaits),
                        ledger[j][k].id = jobs[j].awaits,
                        ledger[j][k].st \in {"accepted", "confirmed"},
                        ledger[j][k].st = "confirmed" => sent[j][jobs[j].awaits] = "delivered"
                 PROVE  Awaited(jobs[j], ledger[j], msgs)
      BY DEF Awaited
    <3>1. jobs[j].awaits \in DOMAIN sent[j] /\ Carries(jobs[j], ledger[j], msgs, k, jobs[j].awaits)
      BY <1>6 DEF Carries
    <3> QED
      BY <1>5, <3>1 DEF Awaited
  <2> QED
    BY <1>1, <2>1, <2>2, <2>3, <2>4 DEF JobOK, Stands
<1>9. Turn(j, jobs[j])
  BY DEF Turn
<1>10. TasksFit(j, jobs[j], ledger[j], msgs)
  <2> SUFFICES ASSUME NEW v \in Workers, workers[v].step # "free", workers[v].job = j
               PROVE  Fits(workers[v], jobs[j], ledger[j], msgs)
    BY <1>2, TasksStay
  <2>1. Fits(workers[v], jobs[j], ledger[j], sent[j])
    BY OwnJob
  <2>2. ~Clear(jobs[j], ledger[j], sent[j])
    BY <1>5 DEF Clear
  <2>3. Sends(workers[v], jobs[j], ledger[j], msgs)
    BY <1>5, <1>6, <2>1 DEF Fits, Sends
  <2> QED
    BY <2>1, <2>2, <2>3 DEF Fits
<1>11. LooksFit(j, jobs[j], msgs)
  <2>1. reconciler \in Reconcilers
    BY DEF IInv, Typed
  <2>2. ASSUME reconciler.step # "idle", reconciler.job = j
        PROVE  Looks(reconciler, jobs[j], msgs)
    <3>1. Looks(reconciler, jobs[j], sent[j])
      BY <2>2 DEF IInv, ReconcilerOK
    <3>2. reconciler.id \in DOMAIN sent[j]
      BY <1>1, <3>1 DEF Looks, JobOK, Stands, Awaited, Carries
    <3> QED
      BY <1>5, <3>1, <3>2 DEF Looks
  <2> QED
    BY <1>2, <2>1, <2>2 DEF LooksFit
<1> QED
  BY <1>2, <1>7, <1>8, <1>9, <1>10, <1>11, StepInv

-----------------------------------------------------------------------------
(* The reconciler                                                          *)

LEMMA IdleIs == Idle \in Reconcilers /\ Idle.step = "idle"
  BY DEF Idle, Reconcilers

\* A step of the reconciler that writes no row.
LEMMA LooksStep ==
  ASSUME IInv, NEW j \in Jobs, UNCHANGED <<jobs, ledger, sent, stored, notRecon>>,
         reconciler' \in Reconcilers,
         \/ reconciler' = Idle
         \/ reconciler'.job = j /\ Looks(reconciler', jobs[j], sent[j])
  PROVE  IInv'
<1>1. /\ JobOK(jobs[j], ledger[j], sent[j], stored[j], j \in superseded)
      /\ Writes(j, jobs[j], ledger[j], sent[j], stored[j])
  BY AnyJob, Unwritten
<1>2. /\ workers' = workers /\ superseded' = superseded /\ superseded \subseteq Jobs /\ World'
  BY WorldKept DEF notRecon, IInv, Typed, World
<1>3. Turn(j, jobs[j])
  BY DEF Turn
<1>4. TasksFit(j, jobs[j], ledger[j], sent[j])
  BY <1>2, OwnJob, TasksStay
<1>5. LooksFit(j, jobs[j], sent[j])
  BY IdleIs DEF LooksFit
<1> QED
  BY <1>1, <1>2, <1>3, <1>4, <1>5, StepInv

\* A statement of the reconciler about the job that it has copied, which waits:
\* no task is in a turn of it.
LEMMA ReconcilerStatement ==
  ASSUME IInv, reconciler.step # "idle", UNCHANGED <<sent, notRecon>>,
         NEW job, NEW rows, NEW n,
         Writes(reconciler.job, job, rows, sent[reconciler.job], n),
         JobOK(job, rows, sent[reconciler.job], n, reconciler.job \in superseded),
         job.st \in Active \cup Terminal, job.lease = 0,
         job.attempts = jobs[reconciler.job].attempts,
         reconciler' \in Reconcilers,
         \/ reconciler' = Idle
         \/ reconciler'.job = reconciler.job /\ Looks(reconciler', job, sent[reconciler.job])
  PROVE  IInv'
<1> DEFINE j == reconciler.job
<1>1. j \in Jobs /\ jobs[j].st = "waiting_for_delivery"
  BY DEF IInv, ReconcilerOK, Looks
<1>2. /\ workers' = workers /\ superseded' = superseded /\ superseded \subseteq Jobs /\ World'
  BY WorldKept DEF notRecon, IInv, Typed, World
<1>3. jobs[j].lease = 0 /\ jobs[j].st \in Active /\ jobs[j].st \notin Terminal
  BY <1>1, AnyJob DEF JobOK, Leased, Active, Terminal
<1>4. Turn(j, job)
  BY <1>3 DEF Turn
<1>5. TasksFit(j, job, rows, sent[j])
  BY <1>1, <1>2, <1>3, TasksAside
<1>6. LooksFit(j, job, sent[j])
  BY IdleIs DEF LooksFit
<1> QED
  BY <1>1, <1>2, <1>4, <1>5, <1>6, StepInv

LEMMA ReconcileClaimsInv ==
  ASSUME IInv, NEW j \in Jobs, ReconcileClaims(j)
  PROVE  IInv'
<1> DEFINE r == [step |-> "look", job |-> j, id |-> jobs[j].awaits, rescue |-> jobs[j].rescue]
<1>1. jobs[j].awaits \in Nat /\ jobs[j].rescue \in BOOLEAN
  BY AnyJob, JobFields
<1>2. r \in Reconcilers
  BY <1>1 DEF Reconcilers
<1>3. Looks(r, jobs[j], sent[j])
  BY DEF Looks, ReconcileClaims
<1>4. reconciler' = r /\ r.job = j /\ UNCHANGED <<jobs, ledger, sent, stored, notRecon>>
  BY DEF ReconcileClaims
<1> HIDE DEF r
<1> QED
  BY <1>2, <1>3, <1>4, LooksStep

\* What the reconciler knows of its job.
LEMMA CopiedJob ==
  ASSUME IInv, reconciler.step # "idle"
  PROVE  LET j == reconciler.job IN
         /\ j \in Jobs /\ jobs[j] \in Job /\ ledger[j] \in Rows /\ sent[j] \in Seq(Fates)
         /\ stored[j] \in Nat
         /\ JobOK(jobs[j], ledger[j], sent[j], stored[j], j \in superseded)
         /\ Looks(reconciler, jobs[j], sent[j])
         /\ jobs[j].st = "waiting_for_delivery" /\ jobs[j].lease = 0 /\ j \notin superseded
         /\ Awaited(jobs[j], ledger[j], sent[j]) /\ reconciler.id \in DOMAIN sent[j]
<1> DEFINE j == reconciler.job
<1>1. j \in Jobs /\ Looks(reconciler, jobs[j], sent[j])
  BY DEF IInv, ReconcilerOK
<1>2. /\ jobs[j] \in Job /\ ledger[j] \in Rows /\ sent[j] \in Seq(Fates) /\ stored[j] \in Nat
      /\ JobOK(jobs[j], ledger[j], sent[j], stored[j], j \in superseded)
  BY <1>1, AnyJob
<1>3. jobs[j].st = "waiting_for_delivery" /\ reconciler.id = jobs[j].awaits
  BY <1>1 DEF Looks
<1>4. jobs[j].lease = 0 /\ j \notin superseded /\ Awaited(jobs[j], ledger[j], sent[j])
  BY <1>2, <1>3 DEF JobOK, Leased, Silent, Stands
<1>5. reconciler.id \in DOMAIN sent[j]
  BY <1>3, <1>4 DEF Awaited, Carries
<1> QED
  BY <1>1, <1>2, <1>3, <1>4, <1>5

\* The row that has the id of the copy is the one that the job waits for.
LEMMA LookedAt ==
  ASSUME IInv, reconciler.step # "idle", NEW k \in Kinds,
         ledger[reconciler.job][k].id = reconciler.id
  PROVE  LET j == reconciler.job IN
         /\ Carries(jobs[j], ledger[j], sent[j], k, reconciler.id)
         /\ ledger[j][k].st \in {"accepted", "confirmed"} /\ ledger[j][k].tried
         /\ ledger[j][k].st = "confirmed" => sent[j][reconciler.id] = "delivered"
<1> DEFINE j == reconciler.job
<1>1. /\ JobOK(jobs[j], ledger[j], sent[j], stored[j], j \in superseded)
      /\ Awaited(jobs[j], ledger[j], sent[j]) /\ reconciler.id = jobs[j].awaits
  BY CopiedJob DEF Looks
<1>2. PICK x \in Kinds :
        /\ Carries(jobs[j], ledger[j], sent[j], x, reconciler.id)
        /\ ledger[j][x].st \in {"accepted", "confirmed"}
        /\ ledger[j][x].st = "confirmed" => sent[j][reconciler.id] = "delivered"
  BY <1>1 DEF Awaited
<1>3. x = k
  BY <1>2 DEF Carries
<1>4. ledger[j][k] # NoRow
  BY <1>2, <1>3 DEF NoRow
<1>5. ledger[j][k].tried
  BY <1>1, <1>4 DEF JobOK, Single, Known
<1> QED
  BY <1>2, <1>3, <1>5

LEMMA ConfirmStep ==
  ASSUME IInv, reconciler.step = "look", NEW k \in Kinds,
         ledger[reconciler.job][k].id = reconciler.id,
         sent[reconciler.job][reconciler.id] = "delivered",
         Marks(reconciler.job, k, "confirmed"),
         reconciler' = [reconciler EXCEPT !.step = "keep"],
         UNCHANGED <<jobs, sent, stored, notRecon>>
  PROVE  IInv'
<1> DEFINE j == reconciler.job
<1>1. /\ j \in Jobs /\ jobs[j] \in Job /\ ledger[j] \in Rows /\ sent[j] \in Seq(Fates)
      /\ stored[j] \in Nat /\ JobOK(jobs[j], ledger[j], sent[j], stored[j], j \in superseded)
      /\ Looks(reconciler, jobs[j], sent[j])
      /\ jobs[j].st = "waiting_for_delivery" /\ jobs[j].lease = 0 /\ j \notin superseded
  BY CopiedJob
<1>2. /\ Carries(jobs[j], ledger[j], sent[j], k, reconciler.id) /\ ledger[j][k].tried
      /\ reconciler.id = jobs[j].awaits
  BY <1>1, LookedAt DEF Looks
<1>3. PICK row \in Row : /\ Puts(j, k, row) /\ row.st = "confirmed" /\ row.id = reconciler.id
                         /\ row.tried
  <2>1. PICK row \in Row : Puts(j, k, row) /\ row.st = "confirmed" /\ row.id = ledger[j][k].id
                           /\ row.tried = ledger[j][k].tried
    <3> HIDE DEF j
    <3>1. Marks(j, k, "confirmed")
      BY DEF j
    <3> QED
      BY <1>1, <3>1, StatusIs
  <2> QED
    BY <1>2, <2>1
<1> PICK rows : rows = [ledger[j] EXCEPT ![k] = row]
  OBVIOUS
<1>4. rows \in Rows /\ rows[k] = row /\ \A x \in Kinds : x # k => rows[x] = ledger[j][x]
  BY <1>1, RowPut
<1>5. ledger' = [ledger EXCEPT ![j] = rows]
  BY <1>3 DEF Puts
<1>6. Writes(j, jobs[j], rows, sent[j], stored[j])
  BY <1>1, <1>4, <1>5, AnyJob DEF Writes
<1>7. JobOK(jobs[j], rows, sent[j], stored[j], j \in superseded)
  <2>1. Carries(jobs[j], rows, sent[j], k, jobs[j].awaits)
    BY <1>2, <1>4 DEF Carries, Alone
  <2>2. Awaited(jobs[j], rows, sent[j])
    BY <1>2, <1>3, <1>4, <2>1 DEF Awaited
  <2>3. Stands(jobs[j], rows, sent[j])
    BY <1>1, <2>2 DEF Stands, Unsent
  <2>4. Known(rows, sent[j])
    BY <1>1, <1>2, <1>3, <1>4 DEF JobOK, Single, Known, Carries
  <2>5. Began(rows)
    BY <1>3, <1>4 DEF Began, Begun
  <2>6. Single(rows, sent[j])
    BY <1>1, <2>4, <2>5 DEF JobOK, Single
  <2> QED
    BY <1>1, <2>3, <2>6 DEF JobOK, Silent
<1>8. /\ reconciler' \in Reconcilers /\ reconciler'.job = j
      /\ Looks(reconciler', jobs[j], sent[j])
  <2> PICK r \in Reconcilers : r = reconciler
    BY DEF IInv, Typed
  <2> DEFINE new == [r EXCEPT !.step = "keep"]
  <2>1. /\ new \in Reconcilers /\ new.step = "keep" /\ new.job = r.job /\ new.id = r.id
        /\ new.rescue = r.rescue
    BY DEF Reconcilers
  <2>2. reconciler' = new
    OBVIOUS
  <2> HIDE DEF new
  <2> QED
    BY <1>1, <2>1, <2>2 DEF Looks
<1> QED
  BY <1>1, <1>6, <1>7, <1>8, ReconcilerStatement DEF Active

\* Another round, if any, finds nothing in its way.
LEMMA RefusedStep ==
  ASSUME IInv, reconciler.step = "look", NEW k \in Kinds,
         ledger[reconciler.job][k].id = reconciler.id,
         sent[reconciler.job][reconciler.id] = "error",
         FailWaiting(reconciler.job, k), UNCHANGED <<sent, stored, notRecon>>
  PROVE  IInv'
<1> DEFINE j == reconciler.job
<1>1. /\ j \in Jobs /\ jobs[j] \in Job /\ ledger[j] \in Rows /\ sent[j] \in Seq(Fates)
      /\ stored[j] \in Nat /\ JobOK(jobs[j], ledger[j], sent[j], stored[j], j \in superseded)
      /\ Looks(reconciler, jobs[j], sent[j])
      /\ jobs[j].st = "waiting_for_delivery" /\ jobs[j].lease = 0 /\ j \notin superseded
      /\ reconciler.id \in DOMAIN sent[j]
  BY CopiedJob
<1>2. Carries(jobs[j], ledger[j], sent[j], k, reconciler.id) /\ ledger[j][k].tried
  BY LookedAt
<1>3. Lost(sent[j])
  BY <1>2 DEF Carries, LostBut, Lost
<1>4. PICK row \in Row : /\ Puts(j, k, row) /\ row.st = "failed" /\ row.refused /\ row.tried
                         /\ row.id = reconciler.id
  <2> PICK old \in Row : old = ledger[j][k]
    BY <1>1 DEF Rows
  <2> DEFINE row == [old EXCEPT !.st = "failed", !.refused = TRUE]
  <2>1. row \in Row /\ row.st = "failed" /\ row.refused /\ row.tried = old.tried
        /\ row.id = old.id
    BY DEF Row
  <2>2. [ledger[j] EXCEPT ![k].st = "failed", ![k].refused = TRUE] = [ledger[j] EXCEPT ![k] = row]
    BY <1>1 DEF Rows
  <2> HIDE DEF row
  <2>3. ledger' = [ledger EXCEPT ![j] = [ledger[j] EXCEPT ![k].st = "failed", ![k].refused = TRUE]]
    BY <1>1 DEF FailWaiting, IInv, Typed, Rows
  <2>4. Puts(j, k, row)
    BY <2>2, <2>3 DEF Puts
  <2> QED
    BY <1>2, <2>1, <2>4
<1> PICK rows : rows = [ledger[j] EXCEPT ![k] = row]
  OBVIOUS
<1>5. rows \in Rows /\ rows[k] = row /\ \A x \in Kinds : x # k => rows[x] = ledger[j][x]
  BY <1>1, RowPut
<1>6. ledger' = [ledger EXCEPT ![j] = rows]
  BY <1>4 DEF Puts
<1>7. Single(rows, sent[j])
  <2>1. Known(rows, sent[j])
    BY <1>1, <1>4, <1>5 DEF JobOK, Single, Known
  <2>2. OneLeft(sent[j])
    BY <1>3 DEF OneLeft, Lost
  <2> QED
    BY <1>3, <2>1, <2>2 DEF Single
<1>8. reconciler' = Idle
  BY DEF FailWaiting
<1>9. ASSUME NEW job \in Job, jobs' = [jobs EXCEPT ![j] = job], job.lease = 0,
             job.attempts = jobs[j].attempts, job.kept = jobs[j].kept,
             \/ job.st = "failed"
             \/ job.st = "ready" /\ Clear(job, rows, sent[j])
      PROVE  IInv'
  <2>1. Writes(j, job, rows, sent[j], stored[j])
    BY <1>1, <1>5, <1>6, <1>9, AnyJob DEF Writes
  <2>2. Leased(job) /\ Told(job, sent[j], stored[j])
    BY <1>1, <1>9 DEF JobOK, Leased, Told, Active
  <2>3. Stands(job, rows, sent[j])
    BY <1>9 DEF Stands, Unsent
  <2>4. JobOK(job, rows, sent[j], stored[j], j \in superseded)
    BY <1>1, <1>7, <2>2, <2>3 DEF JobOK, Silent
  <2>5. job.st \in Active \cup Terminal
    BY <1>9 DEF Active, Terminal
  <2> QED
    BY <1>8, <1>9, <2>1, <2>4, <2>5, IdleIs, ReconcilerStatement
<1>10. CASE k = "image" /\ ~reconciler.rescue
  <2> PICK old \in Job : old = jobs[j]
    BY <1>1
  <2> DEFINE job == [old EXCEPT !.st = "ready", !.rescue = TRUE, !.awaits = 0, !.ai = FALSE]
  <2>1. /\ job \in Job /\ job.st = "ready" /\ job.lease = old.lease
        /\ job.attempts = old.attempts /\ job.kept = old.kept /\ job.rescue
    BY DEF Job, PreAnswer
  <2>2. jobs' = [jobs EXCEPT ![j] = job]
    BY <1>1, <1>10 DEF FailWaiting, WaitsStill, IInv, Typed
  <2> HIDE DEF job
  <2>3. Clear(job, rows, sent[j])
    <3> SUFFICES ASSUME NEW x \in Kinds, rows[x] # NoRow PROVE Refused(job, x, rows[x])
      BY <1>3 DEF Clear
    <3>1. x = k
      BY <1>2, <1>5, <1>10 DEF Carries, Alone
    <3>2. reconciler.id # 0
      BY <1>1
    <3> QED
      BY <1>4, <1>5, <1>10, <2>1, <3>1, <3>2 DEF Refused
  <2> QED
    BY <1>1, <1>9, <2>1, <2>2, <2>3
<1>11. CASE ~(k = "image" /\ ~reconciler.rescue)
  <2>1. jobs' = Finish(j, "failed") /\ "failed" \in Terminal
    BY <1>1, <1>11 DEF FailWaiting, WaitsStill, Terminal
  <2>2. PICK job \in Job : /\ jobs' = [jobs EXCEPT ![j] = job] /\ job.st = "failed"
                           /\ job.lease = 0 /\ job.attempts = jobs[j].attempts
                           /\ job.kept = jobs[j].kept
    <3>1. j \in Jobs
      BY <1>1
    <3> HIDE DEF j
    <3> QED
      BY <2>1, <3>1, FinishIs
  <2> QED
    BY <1>9, <2>2
<1> QED
  BY <1>10, <1>11

LEMMA ReconcileInv ==
  ASSUME IInv, Reconcile
  PROVE  IInv'
<1> DEFINE j == reconciler.job
<1>1. reconciler.step = "look" /\ UNCHANGED <<sent, stored, notRecon>> /\ j \in Jobs
  BY CopiedJob DEF Reconcile
<1>2. PICK k \in Kinds :
        /\ ledger[j][k].id = reconciler.id
        /\ \/ /\ ledger[j][k].st = "confirmed" \/ LookedUp(j, reconciler.id, "delivered")
              /\ Marks(j, k, "confirmed")
              /\ reconciler' = [reconciler EXCEPT !.step = "keep"] /\ UNCHANGED jobs
           \/ LookedUp(j, reconciler.id, "error") /\ FailWaiting(j, k)
           \/ reconciler' = Idle /\ UNCHANGED <<jobs, ledger>>
  BY DEF Reconcile, Marks
<1>3. ledger[j][k].st = "confirmed" => sent[j][reconciler.id] = "delivered"
  BY <1>1, <1>2, LookedAt
<1>4. CASE /\ ledger[j][k].st = "confirmed" \/ LookedUp(j, reconciler.id, "delivered")
           /\ Marks(j, k, "confirmed")
           /\ reconciler' = [reconciler EXCEPT !.step = "keep"] /\ UNCHANGED jobs
  <2>1. sent[j][reconciler.id] = "delivered"
    BY <1>3, <1>4 DEF LookedUp
  <2> QED
    BY <1>1, <1>2, <1>4, <2>1, ConfirmStep
<1>5. CASE LookedUp(j, reconciler.id, "error") /\ FailWaiting(j, k)
  BY <1>1, <1>2, <1>5, RefusedStep DEF LookedUp
<1>6. CASE reconciler' = Idle /\ UNCHANGED <<jobs, ledger>>
  BY <1>1, <1>6, IdleIs, LooksStep
<1> QED
  BY <1>2, <1>4, <1>5, <1>6

LEMMA KeepInv ==
  ASSUME IInv, Keep
  PROVE  IInv'
<1> DEFINE j == reconciler.job
<1>1. reconciler.step = "keep" /\ UNCHANGED <<ledger, sent, notRecon>>
  BY DEF Keep
<1>2. /\ j \in Jobs /\ jobs[j] \in Job /\ ledger[j] \in Rows /\ sent[j] \in Seq(Fates)
      /\ stored[j] \in Nat /\ JobOK(jobs[j], ledger[j], sent[j], stored[j], j \in superseded)
      /\ Looks(reconciler, jobs[j], sent[j])
      /\ jobs[j].st = "waiting_for_delivery" /\ jobs[j].lease = 0 /\ j \notin superseded
      /\ Awaited(jobs[j], ledger[j], sent[j]) /\ reconciler.id \in DOMAIN sent[j]
      /\ jobs[j].kept \in BOOLEAN
  BY <1>1, CopiedJob, JobFields
<1>3. Reached(sent[j])
  BY <1>1, <1>2 DEF Looks, Reached
<1>4. PICK job \in Job : /\ jobs' = [jobs EXCEPT ![j] = job] /\ job.st = jobs[j].st
                         /\ job.lease = 0 /\ job.attempts = jobs[j].attempts
                         /\ job.rescue = jobs[j].rescue /\ job.awaits = jobs[j].awaits
                         /\ job.kept
  <2> PICK old \in Job : old = jobs[j]
    BY <1>2
  <2> DEFINE job == [old EXCEPT !.kept = TRUE]
  <2>1. /\ job \in Job /\ job.st = old.st /\ job.lease = old.lease
        /\ job.attempts = old.attempts /\ job.rescue = old.rescue /\ job.awaits = old.awaits
        /\ job.kept
    BY DEF Job
  <2>2. ((WaitsStill(j) /\ ~jobs[j].kept) \/ jobs[j].kept) = TRUE
    BY <1>2 DEF WaitsStill
  <2>3. jobs' = [jobs EXCEPT ![j].kept = TRUE]
    BY <2>2 DEF Keep
  <2>4. jobs' = [jobs EXCEPT ![j] = job]
    BY <2>3
  <2> HIDE DEF job
  <2> QED
    BY <1>2, <2>1, <2>4
<1>5. stored' = [stored EXCEPT ![j] = 1]
  <2>1. CASE jobs[j].kept
    <3>1. stored[j] = 1
      BY <1>2, <2>1 DEF JobOK, Told
    <3> QED
      BY <2>1, <3>1 DEF Keep
  <2>2. CASE ~jobs[j].kept
    <3>1. stored[j] = 0 /\ WaitsStill(j)
      BY <1>2, <2>2 DEF JobOK, Told, WaitsStill
    <3> QED
      BY <2>2, <3>1 DEF Keep
  <2> QED
    BY <2>1, <2>2
<1>6. Writes(j, job, ledger[j], sent[j], 1)
  BY <1>1, <1>2, <1>4, <1>5, AnyJob DEF Writes
<1>7. JobOK(job, ledger[j], sent[j], 1, j \in superseded)
  <2>1. Leased(job) /\ Told(job, sent[j], 1) /\ Single(ledger[j], sent[j])
    BY <1>2, <1>3, <1>4 DEF JobOK, Leased, Told
  <2>2. Awaited(job, ledger[j], sent[j])
    BY <1>2, <1>4, RescueOnly DEF Awaited
  <2>3. Stands(job, ledger[j], sent[j])
    BY <1>2, <1>4, <2>2 DEF Stands, Unsent
  <2> QED
    BY <1>2, <2>1, <2>3 DEF JobOK, Silent
<1>8. /\ reconciler' \in Reconcilers /\ reconciler'.job = j
      /\ Looks(reconciler', job, sent[j])
  <2> PICK r \in Reconcilers : r = reconciler
    BY DEF IInv, Typed
  <2> DEFINE new == [r EXCEPT !.step = "final"]
  <2>1. /\ new \in Reconcilers /\ new.step = "final" /\ new.job = r.job /\ new.id = r.id
        /\ new.rescue = r.rescue
    BY DEF Reconcilers
  <2>2. reconciler' = new
    BY DEF Keep
  <2> HIDE DEF new
  <2> QED
    BY <1>1, <1>2, <1>4, <2>1, <2>2 DEF Looks
<1> QED
  BY <1>1, <1>2, <1>4, <1>6, <1>7, <1>8, ReconcilerStatement DEF Active

LEMMA FinalizeInv ==
  ASSUME IInv, Finalize
  PROVE  IInv'
<1> DEFINE j == reconciler.job
<1>1. reconciler.step = "final" /\ UNCHANGED <<ledger, sent, stored, notRecon>> /\ reconciler' = Idle
  BY DEF Finalize
<1>2. /\ j \in Jobs /\ jobs[j] \in Job /\ ledger[j] \in Rows /\ sent[j] \in Seq(Fates)
      /\ stored[j] \in Nat /\ JobOK(jobs[j], ledger[j], sent[j], stored[j], j \in superseded)
      /\ Looks(reconciler, jobs[j], sent[j])
      /\ jobs[j].st = "waiting_for_delivery" /\ j \notin superseded
      /\ jobs[j].final \in {"sent", "discarded"}
  BY <1>1, CopiedJob, JobFields
<1>3. jobs[j].kept /\ jobs' = Finish(j, jobs[j].final)
  BY <1>1, <1>2 DEF Looks, Finalize, WaitsStill
<1>4. PICK job \in Job : /\ jobs' = [jobs EXCEPT ![j] = job] /\ job.st = jobs[j].final
                         /\ job.lease = 0 /\ job.attempts = jobs[j].attempts
                         /\ job.kept = jobs[j].kept
  <2>1. jobs[j].final \in Terminal
    BY <1>2 DEF Terminal
  <2> QED
    BY <1>2, <1>3, <2>1, FinishIs
<1>5. Writes(j, job, ledger[j], sent[j], stored[j])
  BY <1>1, <1>2, <1>4, AnyJob DEF Writes
<1>6. job.st \in Terminal /\ jobs[j].st \notin Terminal
  BY <1>2, <1>4 DEF Terminal
<1>7. JobOK(job, ledger[j], sent[j], stored[j], j \in superseded)
  <2>1. j \in superseded =>
          job.st = "discarded" /\ (j \in superseded \/ ~Began(ledger[j]))
    BY <1>2
  <2> HIDE DEF j
  <2> QED
    BY <1>2, <1>3, <1>4, <1>6, <2>1, ClosedOK
<1> QED
  BY <1>1, <1>4, <1>5, <1>6, <1>7, IdleIs, ReconcilerStatement

-----------------------------------------------------------------------------
(* The invariant holds                                                     *)

LEMMA TaskStepInv ==
  ASSUME IInv, NEW w \in Workers, TaskStep(w)
  PROVE  IInv'
  BY MirrorLooksInv, MirrorDiscardsInv, DecideInv, MarkPreparedInv, ReadyInv, GenerateInv,
     UploadInv, ClaimDeliveryInv, SendInv, AcceptInv, WaitInv, HandleErrorInv DEF TaskStep

LEMMA JobStepInv ==
  ASSUME IInv, NEW j \in Jobs,
         \/ RecordIncoming(j) \/ ContextReleased(j) \/ CommentCallback(j)
         \/ Report(j) \/ ReconcileClaims(j) \/ TimePasses(j) \/ RecoverStale(j)
  PROVE  IInv'
  BY RecordIncomingInv, ContextReleasedInv, CommentCallbackInv, ReportInv,
     ReconcileClaimsInv, TimePassesInv, RecoverStaleInv

LEMMA NextInv == IInv /\ [Next]_vars => IInv'
<1> SUFFICES ASSUME IInv, [Next]_vars PROVE IInv'
  OBVIOUS
<1>1. CASE Next
  <2>1. CASE \E j \in Jobs :
          \/ RecordIncoming(j) \/ ContextReleased(j) \/ CommentCallback(j)
          \/ Report(j) \/ ReconcileClaims(j) \/ TimePasses(j) \/ RecoverStale(j)
    BY <2>1, JobStepInv
  <2>2. CASE \E w \in Workers : ClaimPending(w) \/ ClaimReady(w) \/ TaskStep(w)
    BY <2>2, ClaimPendingInv, ClaimReadyInv, TaskStepInv
  <2>3. CASE ReconcileStep
    BY <2>3, ReconcileInv, KeepInv, FinalizeInv DEF ReconcileStep
  <2>4. CASE Crash
    BY <2>4, CrashInv
  <2> QED
    BY <1>1, <2>1, <2>2, <2>3, <2>4 DEF Next
<1>2. CASE UNCHANGED vars
  <2>1. UNCHANGED <<scope, storyOn, jobs, ledger, cached, comments, superseded, workers,
                    reconciler, sent, stored, faults>>
    BY <1>2 DEF vars
  <2>2. Typed' /\ OneActive' /\ Ordered'
    BY <2>1 DEF IInv, Typed, World, OneActive, Ordered
  <2>3. JobsOK' /\ TasksOK' /\ TasksApart' /\ ReconcilerOK'
    BY <2>1 DEF IInv, JobsOK, TasksOK, TasksApart, ReconcilerOK
  <2> QED
    BY <2>2, <2>3 DEF IInv
<1> QED
  BY <1>1, <1>2

\* What a task, the reconciler and the customer may rely on after any statement
\* of anybody.
THEOREM DirectInvariant == Spec => []IInv
  BY InitInv, NextInv, PTL DEF Spec

-----------------------------------------------------------------------------
(* The rows tell the truth                                                 *)

LEMMA OneAtMost ==
  ASSUME NEW S, \A x, y \in S : x = y
  PROVE  Cardinality(S) <= 1
<1>1. CASE S = {}
  BY <1>1, FS_EmptySet
<1>2. CASE S # {}
  <2> PICK x \in S : TRUE
    BY <1>2
  <2>1. S = {x}
    OBVIOUS
  <2> QED
    BY <2>1, FS_Singleton
<1> QED
  BY <1>1, <1>2

LEMMA TruthfulHolds == IInv => Truthful
<1> SUFFICES ASSUME IInv PROVE Truthful
  OBVIOUS
<1>1. TypeOK
  <2>1. Cardinality({j \in Jobs : jobs[j].st \in Active}) <= 1
    <3>1. \A x, y \in {j \in Jobs : jobs[j].st \in Active} : x = y
      BY DEF IInv, OneActive
    <3> QED
      BY <3>1, OneAtMost
  <2>2. Typed
    BY DEF IInv
  <2> QED
    BY <2>1, <2>2 DEF TypeOK, Typed, World, Rows, Fates, Reconcilers
<1>2. ASSUME NEW j \in Jobs
      PROVE  LET reached == \E i \in DOMAIN sent[j] : sent[j][i] = "delivered" IN
             /\ jobs[j].st = "sent" \/ jobs[j].kept => reached
             /\ stored[j] <= 1
             /\ j \in superseded => \A i \in DOMAIN sent[j] : sent[j][i] = "error"
  <2>1. /\ Told(jobs[j], sent[j], stored[j]) /\ Single(ledger[j], sent[j])
        /\ Silent(jobs[j], ledger[j], j \in superseded) /\ stored[j] \in Nat
    BY AnyJob DEF JobOK
  <2>2. jobs[j].st = "sent" \/ jobs[j].kept => Reached(sent[j])
    BY <2>1 DEF Told
  <2>3. stored[j] <= 1
    BY <2>1 DEF Told
  <2>4. j \in superseded => Lost(sent[j])
    BY <2>1 DEF Silent, Single
  <2> QED
    BY <2>2, <2>3, <2>4 DEF Reached, Lost
<1> QED
  BY <1>1, <1>2 DEF Truthful

\* kommo/jobs.py and kommo/deliveries.py: "sent" and the history mean that the
\* message reached the customer, the history has it once, and a job discarded
\* for its comment stays silent.
THEOREM DirectIsTrue == Spec => []Truthful
  BY DirectInvariant, TruthfulHolds, PTL

-----------------------------------------------------------------------------
(* Steps that change what the customer sees of a job                       *)

Open == Active \cup {"pending"}
Shift(j) == /\ \A i \in Jobs : i # j => jobs'[i].st = jobs[i].st
            /\ \/ jobs'[j].st = jobs[j].st
               \/ jobs[j].st \in Open /\ jobs'[j].st \in Open \cup Terminal
Shifts == \E j \in Jobs : Shift(j)

LEMMA ShiftTo ==
  ASSUME IInv, NEW j \in Jobs, NEW job, jobs' = [jobs EXCEPT ![j] = job],
         \/ job.st = jobs[j].st
         \/ jobs[j].st \in Open /\ job.st \in Open \cup Terminal
  PROVE  Shifts
<1>1. jobs'[j] = job /\ \A i \in Jobs : i # j => jobs'[i] = jobs[i]
  BY DEF IInv, Typed
<1> QED
  BY <1>1 DEF Shifts, Shift

LEMMA FinishShifts ==
  ASSUME IInv, NEW j \in Jobs, NEW s \in Terminal, jobs' = Finish(j, s), jobs[j].st \in Open
  PROVE  Shifts
<1>1. PICK job \in Job : jobs' = [jobs EXCEPT ![j] = job] /\ job.st = s
  BY FinishIs
<1> QED
  BY <1>1, ShiftTo

LEMMA MarkJobShifts ==
  ASSUME IInv, NEW w \in Workers, workers[w].step # "free",
         NEW s \in {"discarded", "failed", "delivery_unknown"}, MarkJob(w, s)
  PROVE  Shifts \/ UNCHANGED jobs
<1>1. CASE HasLease(w)
  <2>1. /\ Leased(jobs[workers[w].job]) /\ workers[w].lease \in Nat
        /\ workers[w].lease # 0 /\ workers[w].job \in Jobs
    BY OwnJob, TaskFields DEF JobOK, Fits
  <2>2. jobs[workers[w].job].st \in Open
    BY <1>1, <2>1 DEF Leased, HasLease, Open, Active
  <2>3. jobs' = Finish(workers[w].job, s) /\ s \in Terminal
    BY <1>1 DEF MarkJob, Terminal
  <2> QED
    BY <2>1, <2>2, <2>3, FinishShifts
<1>2. CASE ~HasLease(w)
  BY <1>2 DEF MarkJob
<1> QED
  BY <1>1, <1>2

LEMMA OwnerShifts ==
  ASSUME IInv, NEW w \in Workers, workers[w].step # "free", Owns(w),
         NEW s \in Open, \A i \in Jobs : i # workers[w].job => jobs'[i] = jobs[i],
         jobs'[workers[w].job].st = s
  PROVE  Shifts
<1>1. workers[w].job \in Jobs /\ jobs[workers[w].job].st \in Open
  BY OwnJob DEF Owns, Open, Active
<1> QED
  BY <1>1 DEF Shifts, Shift

LEMMA StatusSet ==
  ASSUME NEW old \in Job, NEW s, NEW b
  PROVE  /\ [old EXCEPT !.st = s, !.lease = 0, !.ai = FALSE, !.timed = FALSE].st = s
         /\ [old EXCEPT !.st = s, !.suppress = b, !.lease = 0, !.ai = FALSE, !.timed = FALSE].st = s
         /\ [old EXCEPT !.st = s, !.lease = 0, !.timed = FALSE].st = s
  BY DEF Job

LEMMA ClaimShifts ==
  ASSUME IInv, NEW j \in Jobs, NEW w \in Workers, NEW s \in {"mirror", "ready"},
         NEW n \in {"free", "decide", "prepare"}, NEW b \in BOOLEAN, Claim(w, j, s, n, b),
         jobs[j].st \in {"pending", "ready"}
  PROVE  Shifts /\ UNCHANGED sent
<1>1. PICK job \in Job : jobs' = [jobs EXCEPT ![j] = job] /\ job.st = "processing"
  BY ClaimIs
<1>2. jobs[j].st \in Open /\ "processing" \in Open
  BY DEF Open, Active
<1>3. Shifts
  BY <1>1, <1>2, ShiftTo
<1> QED
  BY <1>3 DEF Claim, records

LEMMA PrepareShifts ==
  ASSUME IInv, NEW w \in Workers, MirrorDiscards(w) \/ Decide(w) \/ MarkPrepared(w)
  PROVE  (Shifts \/ UNCHANGED jobs) /\ UNCHANGED sent
<1>1. UNCHANGED sent
  BY DEF MirrorDiscards, Decide, MarkPrepared, records
<1>2. workers[w].step # "free" /\ workers[w].job \in Jobs
  BY OwnJob DEF MirrorDiscards, Decide, MarkPrepared
<1>3. CASE MirrorDiscards(w)
  <2>1. CASE MayDiscard(workers[w].job)
    <3>1. /\ jobs' = Finish(workers[w].job, "discarded") /\ "discarded" \in Terminal
          /\ jobs[workers[w].job].st \in Open
      BY <1>3, <2>1 DEF MirrorDiscards, MayDiscard, PreAnswer, Open, Active, Terminal
    <3> QED
      BY <1>1, <1>2, <3>1, FinishShifts
  <2>2. CASE ~MayDiscard(workers[w].job)
    BY <1>1, <1>3, <2>2 DEF MirrorDiscards
  <2> QED
    BY <2>1, <2>2
<1>4. CASE Decide(w)
  <2>1. UNCHANGED jobs \/ \E s \in {"failed", "discarded"} : MarkJob(w, s)
    BY <1>4 DEF Decide
  <2> QED
    BY <1>1, <1>2, <2>1, MarkJobShifts
<1>5. CASE MarkPrepared(w) /\ Owns(w)
  <2>0. storyOn \in BOOLEAN
    BY DEF IInv, Typed, World
  <2>1. PICK s \in {"ready", "waiting_for_context"}, b \in BOOLEAN : Prepared(workers[w].job, s, b)
    BY <1>5, <2>0 DEF MarkPrepared, Prepared
  <2>2. s \in {"absent"} \cup PreAnswer \cup {"waiting_for_delivery"} \cup Terminal
    BY DEF PreAnswer
  <2>3. PICK job \in Job : jobs' = [jobs EXCEPT ![workers[w].job] = job] /\ job.st = s
    BY <1>2, <2>1, <2>2, PreparedIs
  <2>4. s \in Open /\ jobs[workers[w].job].st \in Open
    BY <1>5 DEF Owns, Open, Active
  <2>5. Shifts
    BY <1>2, <2>3, <2>4, ShiftTo
  <2> QED
    BY <1>1, <2>5
<1>6. CASE MarkPrepared(w) /\ ~Owns(w)
  BY <1>1, <1>6 DEF MarkPrepared
<1> QED
  BY <1>3, <1>4, <1>5, <1>6

LEMMA TurnShifts ==
  ASSUME IInv, NEW w \in Workers, Ready(w) \/ Generate(w) \/ Wait(w) \/ HandleError(w)
  PROVE  (Shifts \/ UNCHANGED jobs) /\ UNCHANGED sent
<1>1. UNCHANGED sent
  BY DEF Ready, Generate, Wait, HandleError, records
<1>2. workers[w].step # "free" /\ workers[w].job \in Jobs
  BY OwnJob DEF Ready, Generate, Wait, HandleError
<1> PICK j \in Jobs : j = workers[w].job
  BY <1>2
<1> PICK old \in Job : old = jobs[j]
  BY AnyJob
<1>3. CASE RetryReady(w) /\ Owns(w)
  <2> DEFINE job == [old EXCEPT !.st = "ready", !.lease = 0, !.ai = FALSE, !.timed = FALSE]
  <2>1. job.st = "ready"
    BY StatusSet
  <2>2. jobs' = [jobs EXCEPT ![j] = job]
    BY <1>3 DEF RetryReady, IInv, Typed
  <2> HIDE DEF job
  <2>3. "ready" \in Open /\ jobs[j].st \in Open
    BY <1>3 DEF Owns, Open, Active
  <2> QED
    BY <1>1, <2>1, <2>2, <2>3, ShiftTo
<1>4. CASE \E s \in {"discarded", "failed", "delivery_unknown"} : MarkJob(w, s)
  BY <1>1, <1>2, <1>4, MarkJobShifts
<1>5. CASE /\ Owns(w)
           /\ jobs' = [jobs EXCEPT ![j].st = "waiting_for_delivery", ![j].lease = 0,
                         ![j].timed = FALSE, ![j].awaits = workers[w].id,
                         ![j].final = IF workers[w].kind = "fallback" THEN "discarded" ELSE "sent"]
  <2> PICK f : f = IF workers[w].kind = "fallback" THEN "discarded" ELSE "sent"
    OBVIOUS
  <2> DEFINE job == [old EXCEPT !.st = "waiting_for_delivery", !.lease = 0, !.timed = FALSE,
                                !.awaits = workers[w].id, !.final = f]
  <2>1. job.st = "waiting_for_delivery"
    BY DEF Job
  <2>2. jobs' = [jobs EXCEPT ![j] = job]
    BY <1>5 DEF IInv, Typed
  <2> HIDE DEF job
  <2>3. "waiting_for_delivery" \in Open /\ jobs[j].st \in Open
    BY <1>5 DEF Owns, Open, Active
  <2> QED
    BY <1>1, <2>1, <2>2, <2>3, ShiftTo
<1>6. CASE UNCHANGED jobs
  BY <1>1, <1>6
<1>7. RetryReady(w) => Owns(w) \/ UNCHANGED jobs
  BY DEF RetryReady
<1>8. CASE Ready(w) \/ Generate(w)
  BY <1>3, <1>4, <1>6, <1>7, <1>8 DEF Ready, Generate, Apologise, Transcribe, Discard
<1>9. CASE Wait(w)
  BY <1>5, <1>6, <1>9 DEF Wait
<1>10. CASE HandleError(w)
  <2>1. \A s \in TurnEnds(w) \cup ApologyEnds(w) \cup RetextEnds(w) : s \in {"failed", "delivery_unknown"}
    BY DEF TurnEnds, ApologyEnds, RetextEnds
  <2>2. UNCHANGED jobs \/ \E s \in TurnEnds(w) \cup ApologyEnds(w) \cup RetextEnds(w) : MarkJob(w, s)
    <3>1. (\E s \in CASE workers[w].kind = "fallback" -> ApologyEnds(w)
                      [] workers[w].kind = "retext" -> RetextEnds(w)
                      [] OTHER -> TurnEnds(w) : MarkJob(w, s))
          => \E s \in TurnEnds(w) \cup ApologyEnds(w) \cup RetextEnds(w) : MarkJob(w, s)
      OBVIOUS
    <3> QED
      BY <1>10, <3>1 DEF HandleError, FallsBack, Apologise
  <2> QED
    BY <1>4, <1>6, <2>1, <2>2
<1> QED
  BY <1>8, <1>9, <1>10

LEMMA JobShifts ==
  ASSUME IInv, NEW j \in Jobs,
         ContextReleased(j) \/ CommentCallback(j) \/ TimePasses(j) \/ RecoverStale(j)
  PROVE  (Shifts \/ UNCHANGED jobs) /\ UNCHANGED sent
<1>1. UNCHANGED sent
  BY DEF ContextReleased, CommentCallback, TimePasses, RecoverStale, records
<1> PICK old \in Job : old = jobs[j]
  BY AnyJob
<1>2. CASE ContextReleased(j)
  <2> DEFINE job == [old EXCEPT !.st = "ready"]
  <2>1. job.st = "ready" /\ jobs' = [jobs EXCEPT ![j] = job]
    BY <1>2 DEF Job, ContextReleased, IInv, Typed
  <2> HIDE DEF job
  <2>2. "ready" \in Open /\ jobs[j].st \in Open
    BY <1>2 DEF ContextReleased, Open, Active
  <2> QED
    BY <1>1, <2>1, <2>2, ShiftTo
<1>3. CASE CommentCallback(j)
  <2>1. jobs' = jobs \/ (jobs' = Finish(j, "discarded") /\ MayDiscard(j))
    BY <1>3 DEF CommentCallback, DiscardMirrored, BestCandidate, Candidates
  <2>2. MayDiscard(j) => jobs[j].st \in Open /\ "discarded" \in Terminal
    BY DEF MayDiscard, PreAnswer, Open, Active, Terminal
  <2> QED
    BY <1>1, <2>1, <2>2, FinishShifts
<1>4. CASE TimePasses(j)
  <2> DEFINE job == [old EXCEPT !.timed = TRUE]
  <2>1. job.st = jobs[j].st /\ jobs' = [jobs EXCEPT ![j] = job]
    BY <1>4 DEF Job, TimePasses, IInv, Typed
  <2> HIDE DEF job
  <2> QED
    BY <1>1, <2>1, ShiftTo
<1>5. CASE RecoverStale(j)
  <2> DEFINE s == IF old.ai THEN "delivery_unknown" ELSE "ready"
  <2> DEFINE job == [old EXCEPT !.st = s, !.lease = 0, !.timed = FALSE]
  <2>1. job.st = s
    BY StatusSet
  <2>2. jobs' = [jobs EXCEPT ![j] = job]
    BY <1>5 DEF RecoverStale, Finish, IInv, Typed
  <2>3. s \in Open \cup Terminal /\ jobs[j].st \in Open
    BY <1>5 DEF RecoverStale, Open, Active, Terminal
  <2> HIDE DEF job, s
  <2> QED
    BY <1>1, <2>1, <2>2, <2>3, ShiftTo
<1> QED
  BY <1>2, <1>3, <1>4, <1>5

LEMMA ReconcilerShifts ==
  ASSUME IInv, ReconcileStep
  PROVE  (Shifts \/ UNCHANGED jobs) /\ UNCHANGED sent
<1>1. UNCHANGED sent /\ reconciler.step # "idle"
  BY DEF ReconcileStep, Reconcile, Keep, Finalize
<1> PICK j \in Jobs : j = reconciler.job
  BY <1>1, CopiedJob
<1>2. jobs[j].st \in Open /\ jobs[j].final \in Terminal /\ "failed" \in Terminal /\ "ready" \in Open
  BY <1>1, CopiedJob, JobFields DEF Open, Active, Terminal
<1> PICK old \in Job : old = jobs[j]
  BY AnyJob
<1>3. CASE \E k \in Kinds : FailWaiting(j, k)
  <2>1. CASE jobs' = [jobs EXCEPT ![j].st = "ready", ![j].rescue = TRUE, ![j].awaits = 0, ![j].ai = FALSE]
    <3> DEFINE job == [old EXCEPT !.st = "ready", !.rescue = TRUE, !.awaits = 0, !.ai = FALSE]
    <3>1. job.st = "ready"
      BY DEF Job
    <3>2. jobs' = [jobs EXCEPT ![j] = job]
      BY <2>1 DEF IInv, Typed
    <3> HIDE DEF job
    <3> QED
      BY <1>1, <1>2, <3>1, <3>2, ShiftTo
  <2>2. CASE jobs' = jobs
    BY <1>1, <2>2
  <2>3. CASE jobs' = Finish(j, "failed")
    BY <1>1, <1>2, <2>3, FinishShifts
  <2> QED
    BY <1>3, <2>1, <2>2, <2>3 DEF FailWaiting
<1>4. CASE Keep
  <2> DEFINE b == (WaitsStill(j) /\ ~jobs[j].kept) \/ jobs[j].kept
  <2> DEFINE job == [old EXCEPT !.kept = b]
  <2>1. job.st = jobs[j].st /\ jobs' = [jobs EXCEPT ![j] = job]
    BY <1>4 DEF Job, Keep, IInv, Typed
  <2> HIDE DEF job, b
  <2> QED
    BY <1>1, <2>1, ShiftTo
<1>5. CASE Finalize
  BY <1>1, <1>2, <1>5, FinishShifts DEF Finalize
<1>6. CASE Reconcile
  BY <1>1, <1>3, <1>6 DEF Reconcile
<1> QED
  BY <1>4, <1>5, <1>6 DEF ReconcileStep

-----------------------------------------------------------------------------
(* The queue implements the promise of Answers                             *)

Live(msgs) == {i \in DOMAIN msgs : msgs[i] # "error"}

LEMMA NoneLive ==
  ASSUME NEW msgs, Lost(msgs)
  PROVE  Cardinality(Live(msgs)) = 0
<1>1. Live(msgs) = {}
  BY DEF Live, Lost
<1> QED
  BY <1>1, FS_EmptySet

LEMMA OneLive ==
  ASSUME NEW msgs, NEW i \in DOMAIN msgs, msgs[i] # "error", LostBut(msgs, i)
  PROVE  Cardinality(Live(msgs)) = 1
<1>1. Live(msgs) = {i}
  BY DEF Live, LostBut
<1> QED
  BY <1>1, FS_Singleton

LEMMA CopiesAre == Copies = [j \in Jobs |-> Cardinality(Live(sent[j]))]
  BY DEF Copies, Live

LEMMA PhaseSets ==
  /\ Open \cap Terminal = {} /\ "absent" \notin Open /\ "absent" \notin Terminal
  BY DEF Open, Active, Terminal

LEMMA ShiftsImplement ==
  ASSUME IInv, Shifts \/ UNCHANGED jobs, UNCHANGED sent
  PROVE  Promise!Next \/ UNCHANGED <<Phases, Copies>>
<1>1. Copies' = Copies
  BY DEF Copies
<1>2. CASE UNCHANGED jobs
  BY <1>1, <1>2 DEF Phases, Closed
<1>3. CASE \E j \in Jobs : Shift(j)
  <2> PICK j \in Jobs : Shift(j)
    BY <1>3
  <2>1. CASE (jobs'[j].st \in Terminal <=> jobs[j].st \in Terminal)
             /\ (jobs'[j].st = "absent" <=> jobs[j].st = "absent")
    <3>1. \A i \in Jobs : /\ jobs'[i].st \in Terminal <=> jobs[i].st \in Terminal
                          /\ jobs'[i].st = "absent" <=> jobs[i].st = "absent"
      BY <2>1 DEF Shift
    <3>2. Phases' = Phases
      BY <3>1 DEF Phases, Closed
    <3> QED
      BY <1>1, <3>2
  <2>2. CASE jobs[j].st \in Open /\ jobs'[j].st \in Terminal
    <3>1. jobs[j].st \notin Terminal /\ jobs[j].st # "absent" /\ jobs'[j].st # "absent"
      BY <2>2, PhaseSets
    <3>2. Phases[j] = "open"
      BY <3>1 DEF Phases, Closed
    <3>3. Phases' = [m \in Jobs |-> IF m \in {j} THEN "closed" ELSE Phases[m]]
      BY <2>2, <3>1 DEF Phases, Closed, Shift
    <3>4. Promise!Close({j})
      BY <1>1, <3>2, <3>3 DEF Promise!Close, Promise!Messages, Jobs
    <3>5. {j} \in (SUBSET Jobs) \ {{}}
      OBVIOUS
    <3> QED
      BY <3>4, <3>5 DEF Promise!Next, Promise!Messages, Jobs
  <2> QED
    BY <2>1, <2>2, PhaseSets DEF Shift
<1> QED
  BY <1>2, <1>3 DEF Shifts

LEMMA RecordImplements ==
  ASSUME IInv, NEW j \in Jobs, RecordIncoming(j)
  PROVE  Promise!Next
<1> PICK old \in Job : old = jobs[j]
  BY AnyJob
<1> DEFINE job == [old EXCEPT !.st = "pending"]
<1>1. job.st = "pending" /\ jobs' = [jobs EXCEPT ![j] = job]
  BY DEF Job, RecordIncoming, IInv, Typed
<1> HIDE DEF job
<1>2. jobs'[j].st = "pending" /\ \A i \in Jobs : i # j => jobs'[i] = jobs[i]
  BY <1>1 DEF IInv, Typed
<1>3. UNCHANGED sent /\ jobs[j].st = "absent"
      /\ \A i \in 1..(j - 1) : jobs[i].st \notin {"absent", "pending"}
  BY DEF RecordIncoming, records
<1>4. Copies' = Copies
  BY <1>3 DEF Copies
<1>5. Phases' = [Phases EXCEPT ![j] = "open"]
  <2>1. "pending" \notin Terminal
    BY DEF Terminal
  <2> QED
    BY <1>2, <2>1 DEF Phases, Closed
<1>6. Phases[j] = "none"
  BY <1>3 DEF Phases
<1>7. \A i \in 1..(j - 1) : i \in Jobs /\ Phases[i] # "none"
  <2>1. \A i \in 1..(j - 1) : i \in Jobs
    BY DirectAssumption DEF Jobs
  <2> QED
    BY <1>3, <2>1 DEF Phases
<1>8. Promise!Accept(j)
  BY <1>4, <1>5, <1>6, <1>7 DEF Promise!Accept, Promise!Earlier
<1> QED
  BY <1>8 DEF Promise!Next, Promise!Messages, Jobs

\* Kommo takes a message: no other one of the job may have arrived, and the
\* jobs before it are closed.
LEMMA SendImplements ==
  ASSUME IInv, NEW w \in Workers, Send(w)
  PROVE  Promise!Next \/ UNCHANGED <<Phases, Copies>>
<1>1. /\ workers[w].step = "send" /\ workers[w].step \in AI /\ workers[w].step # "free"
      /\ UNCHANGED jobs
  BY DEF Send, AI
<1>2. Phases' = Phases
  BY <1>1 DEF Phases, Closed
<1>3. CASE UNCHANGED sent
  BY <1>2, <1>3 DEF Copies
<1>4. CASE Takes(workers[w].job)
  <2> PICK j \in Jobs : j = workers[w].job
    BY <1>1, OwnJob
  <2>1. /\ sent[j] \in Seq(Fates) /\ Lost(sent[j]) /\ jobs[j].attempts # 0
        /\ jobs[j].st # "absent"
    <3>1. /\ Fits(workers[w], jobs[j], ledger[j], sent[j]) /\ jobs[j] \in Job
          /\ sent[j] \in Seq(Fates)
      BY <1>1, OwnJob
    <3>2. Lost(sent[j]) /\ jobs[j].attempts # 0
      BY <1>1, <3>1, JobFields DEF Fits, Sends
    <3>3. jobs[j].st # "absent"
      BY <1>1, TurnIs DEF Terminal
    <3> QED
      BY <3>1, <3>2, <3>3
  <2>2. sent' = [sent EXCEPT ![j] = Append(sent[j], "accepted")]
    BY <1>4 DEF Takes, IInv, Typed
  <2> PICK msgs : msgs = Append(sent[j], "accepted")
    OBVIOUS
  <2> PICK n \in Nat : n = Len(sent[j])
    BY <2>1
  <2>3. /\ DOMAIN msgs = 1..(n + 1) /\ DOMAIN sent[j] = 1..n /\ msgs[n + 1] = "accepted"
        /\ \A i \in 1..n : msgs[i] = sent[j][i]
    <3>1. "accepted" \in Fates
      BY DEF Fates
    <3> QED
      BY <2>1, <3>1
  <2>4. n + 1 \in DOMAIN msgs /\ LostBut(msgs, n + 1)
    <3>1. \A i \in 1..(n + 1) : i = n + 1 \/ i \in 1..n
      OBVIOUS
    <3>2. \A i \in 1..n : msgs[i] = "error"
      BY <2>1, <2>3 DEF Lost
    <3> QED
      BY <2>3, <3>1, <3>2 DEF LostBut
  <2>5. Cardinality(Live(msgs)) = 1
    BY <2>3, <2>4, OneLive
  <2>6. sent'[j] = msgs /\ \A i \in Jobs : i # j => sent'[i] = sent[i]
    BY <2>2 DEF IInv, Typed
  <2>7. Copies' = [m \in Jobs |-> IF m \in {j} THEN 1 ELSE Copies[m]]
    <3>1. Copies' = [m \in Jobs |-> Cardinality(Live(sent'[m]))]
      BY DEF Copies, Live
    <3>2. \A m \in Jobs : Cardinality(Live(sent'[m])) = IF m \in {j} THEN 1 ELSE Copies[m]
      BY <2>5, <2>6, CopiesAre
    <3> QED
      BY <3>1, <3>2
  <2>8. Copies[j] = 0 /\ Phases[j] # "none"
    BY <2>1, CopiesAre, NoneLive DEF Phases
  <2>9. \A i \in 1..(j - 1) : Phases[i] = "closed"
    <3> SUFFICES ASSUME NEW i \in 1..(j - 1) PROVE Phases[i] = "closed"
      OBVIOUS
    <3>1. i \in Jobs /\ i < j
      BY DirectAssumption DEF Jobs
    <3>2. jobs[i].st \in Terminal
      BY <2>1, <3>1 DEF IInv, Ordered
    <3>3. jobs[i].st # "absent"
      BY <3>2 DEF Terminal
    <3> QED
      BY <3>1, <3>2, <3>3 DEF Phases, Closed
  <2>10. Promise!Answer({j})
    BY <1>2, <2>7, <2>8, <2>9 DEF Promise!Answer, Promise!Messages, Promise!Earlier, Jobs
  <2>11. {j} \in (SUBSET Jobs) \ {{}}
    OBVIOUS
  <2> QED
    BY <2>10, <2>11 DEF Promise!Next, Promise!Messages, Jobs
<1> QED
  BY <1>3, <1>4 DEF Send, SendTaken, SendUnknown, SendRefused

\* Kommo's report undoes an answer, or confirms it.
LEMMA ReportImplements ==
  ASSUME IInv, NEW j \in Jobs, Report(j)
  PROVE  Promise!Next \/ UNCHANGED <<Phases, Copies>>
<1>1. UNCHANGED jobs
  BY DEF Report
<1>2. Phases' = Phases
  BY <1>1 DEF Phases, Closed
<1>3. PICK i \in DOMAIN sent[j], fate \in {"delivered", "error"} :
        sent[j][i] = "accepted" /\ sent' = [sent EXCEPT ![j][i] = fate]
  BY DEF Report
<1>4. PICK msgs : msgs = [sent[j] EXCEPT ![i] = fate] /\ sent' = [sent EXCEPT ![j] = msgs]
  BY <1>3 DEF IInv, Typed
<1>5. sent'[j] = msgs /\ \A m \in Jobs : m # j => sent'[m] = sent[m]
  BY <1>4 DEF IInv, Typed
<1>6. LostBut(sent[j], i)
  <2>1. OneLeft(sent[j])
    BY AnyJob DEF JobOK, Single
  <2> QED
    BY <1>3, <2>1 DEF OneLeft, LostBut
<1>7. DOMAIN msgs = DOMAIN sent[j] /\ msgs[i] = fate
      /\ \A x \in DOMAIN sent[j] : x # i => msgs[x] = sent[j][x]
  BY <1>4
<1>8. Cardinality(Live(sent[j])) = 1
  BY <1>3, <1>6, OneLive
<1>9. Copies' = [m \in Jobs |-> Cardinality(Live(sent'[m]))]
  BY DEF Copies, Live
<1>10. CASE fate = "delivered"
  <2>1. LostBut(msgs, i)
    BY <1>6, <1>7 DEF LostBut
  <2>2. Cardinality(Live(msgs)) = 1
    BY <1>7, <1>10, <2>1, OneLive
  <2>3. \A m \in Jobs : Cardinality(Live(sent'[m])) = Cardinality(Live(sent[m]))
    BY <1>5, <1>8, <2>2
  <2>4. Copies' = Copies
    BY <1>9, <2>3, CopiesAre
  <2> QED
    BY <1>2, <2>4
<1>11. CASE fate = "error"
  <2>1. Lost(msgs)
    BY <1>6, <1>7, <1>11 DEF LostBut, Lost
  <2>2. Cardinality(Live(msgs)) = 0
    BY <2>1, NoneLive
  <2>3. Copies[j] = 1
    BY <1>8, CopiesAre
  <2>4. Copies' = [Copies EXCEPT ![j] = 0]
    <3>1. \A m \in Jobs : Cardinality(Live(sent'[m])) = IF m = j THEN 0 ELSE Copies[m]
      BY <1>5, <2>2, CopiesAre
    <3>2. Copies' = [m \in Jobs |-> IF m = j THEN 0 ELSE Copies[m]]
      BY <1>9, <3>1
    <3> QED
      BY <3>2 DEF Copies
  <2>5. Promise!Undelivered(j)
    BY <1>2, <2>3, <2>4 DEF Promise!Undelivered
  <2> QED
    BY <2>5 DEF Promise!Next, Promise!Messages, Jobs
<1> QED
  BY <1>10, <1>11

LEMMA TaskImplements ==
  ASSUME IInv, NEW w \in Workers, ClaimPending(w) \/ ClaimReady(w) \/ TaskStep(w)
  PROVE  Promise!Next \/ UNCHANGED <<Phases, Copies>>
<1>1. CASE ClaimPending(w)
  <2>1. PICK j \in Jobs : jobs[j].st = "pending" /\ Claim(w, j, "mirror", "decide", FALSE)
    BY <1>1 DEF ClaimPending
  <2> QED
    BY <2>1, ClaimShifts, ShiftsImplement
<1>2. CASE ClaimReady(w)
  <2>1. PICK j \in Jobs : jobs[j].st = "ready" /\ Claim(w, j, "ready", "free", TRUE)
    BY <1>2 DEF ClaimReady
  <2> QED
    BY <2>1, ClaimShifts, ShiftsImplement
<1>3. CASE MirrorDiscards(w) \/ Decide(w) \/ MarkPrepared(w)
  BY <1>3, PrepareShifts, ShiftsImplement
<1>4. CASE Ready(w) \/ Generate(w) \/ Wait(w) \/ HandleError(w)
  BY <1>4, TurnShifts, ShiftsImplement
<1>5. CASE MirrorLooks(w) \/ Upload(w) \/ ClaimDelivery(w) \/ Accept(w)
  <2>1. UNCHANGED <<jobs, sent>>
    BY <1>5 DEF MirrorLooks, Upload, ClaimDelivery, Accept, records
  <2> QED
    BY <2>1, ShiftsImplement
<1>6. CASE Send(w)
  BY <1>6, SendImplements
<1> QED
  BY <1>1, <1>2, <1>3, <1>4, <1>5, <1>6 DEF TaskStep

LEMMA StepAnswers == IInv /\ [Next]_vars => [Promise!Next]_<<Phases, Copies>>
<1> SUFFICES ASSUME IInv, [Next]_vars
             PROVE  Promise!Next \/ UNCHANGED <<Phases, Copies>>
  OBVIOUS
<1>1. CASE \E w \in Workers : ClaimPending(w) \/ ClaimReady(w) \/ TaskStep(w)
  BY <1>1, TaskImplements
<1>2. CASE \E j \in Jobs : RecordIncoming(j) \/ Report(j)
  BY <1>2, RecordImplements, ReportImplements
<1>3. CASE \E j \in Jobs : \/ ContextReleased(j) \/ CommentCallback(j) \/ TimePasses(j)
                           \/ RecoverStale(j)
  BY <1>3, JobShifts, ShiftsImplement
<1>4. CASE ReconcileStep
  BY <1>4, ReconcilerShifts, ShiftsImplement
<1>5. CASE (\E j \in Jobs : ReconcileClaims(j)) \/ Crash \/ UNCHANGED vars
  <2>1. UNCHANGED <<jobs, sent>>
    BY <1>5 DEF ReconcileClaims, Crash, records, vars
  <2> QED
    BY <2>1, ShiftsImplement
<1> QED
  BY <1>1, <1>2, <1>3, <1>4, <1>5 DEF Next

LEMMA InitAnswers == Init => Promise!Init
<1> SUFFICES ASSUME Init PROVE Promise!Init
  OBVIOUS
<1>1. Phases = [j \in Jobs |-> "none"]
  BY DEF Init, Phases, NoJob
<1>2. Copies = [j \in Jobs |-> 0]
  <2>1. \A j \in Jobs : Lost(sent[j])
    BY DEF Init, Lost
  <2>2. \A j \in Jobs : Cardinality(Live(sent[j])) = 0
    BY <2>1, NoneLive
  <2> QED
    BY <2>2, CopiesAre
<1> QED
  BY <1>1, <1>2 DEF Promise!Init, Promise!Messages, Jobs

\* kommo/jobs.py and kommo/deliveries.py: with a ledger of sends and Kommo's
\* reports the direct jobs implement the promise of Answers: the customer has one
\* message for a job at most, whatever was lost, retried or recovered, nothing is
\* sent before the earlier jobs are closed, and closed is final.
THEOREM DirectImplements == Spec => AnswersImplemented
  BY DirectInvariant, InitAnswers, StepAnswers, PTL DEF Spec, AnswersImplemented, Promise!Spec
=============================================================================
