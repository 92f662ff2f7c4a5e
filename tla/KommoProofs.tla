---------------------------- MODULE KommoProofs ----------------------------
(***************************************************************************)
(* Theorems about KommoJobs for any messages, chats, leads, workers and    *)
(* bounds: what a task may still assume of its row after every await, that *)
(* turns, runs, posts and answers happen once, and that the queue of jobs  *)
(* implements the promise of module Answers.                               *)
(***************************************************************************)
EXTENDS KommoJobs, SequenceTheorems, NaturalsInduction, WellFoundedInduction, TLAPS

Is(j, S) == jobs[j].st \in S
Related(j, k) == j # k /\ Chat(j) = Chat(k)

\* The steps of an AI turn and of its delivery.
AI == {"prepare", "generate", "check", "media", "keep", "mark", "post", "store", "end"}
Busy == AI \cup {"launch", "run"}

-----------------------------------------------------------------------------
(* The rows and the messages they answer                                   *)

\* Messages are recorded in the order of their numbers.
Numbered == \A m \in receipts : 1..(m - 1) \subseteq receipts

\* A row is named by one of the recorded messages of its chat it answers.
Filled == \A j \in Messages :
    /\ Is(j, {"absent"}) => jobs[j] = NoJob
    /\ ~Is(j, {"absent"}) => j \in receipts /\ jobs[j].parts # {}
    /\ \A m \in jobs[j].parts : m \in receipts /\ Chat(m) = Chat(j)

\* Every recorded message has one row.
Placed ==
    /\ \A m \in receipts : \E j \in Messages : m \in jobs[j].parts
    /\ \A j, k \in Messages : \A m \in jobs[j].parts : m \in jobs[k].parts => j = k

\* The two partial unique indexes of a chat.
Single == \A j, k \in Messages : Related(j, k) =>
    /\ ~(Is(j, {"pending"}) /\ Is(k, {"pending"}))
    /\ ~(Is(j, Active) /\ Is(k, Active))

\* Rows that were claimed answer older messages than the one that waits, and
\* closed rows older ones than the active row.
Before(j, k) == \A m \in jobs[j].parts : \A n \in jobs[k].parts : m < n
Ordered == \A j, k \in Messages :
    /\ Related(j, k)
    /\ \/ Is(k, {"pending"}) /\ Is(j, Active \cup Terminal)
       \/ Is(k, Active) /\ Is(j, Terminal)
    => Before(j, k)

\* The snapshot of a claim: a candidate that is pending again, or still, has
\* no active row beside it.
Current == \A w \in Workers : \A j \in Messages : j \in workers[w].seen =>
    /\ ~Is(j, {"absent"})
    /\ Is(j, {"pending"}) => \A k \in Messages : Related(j, k) => ~Is(k, Active)

ChatsInv == Numbered /\ Filled /\ Placed /\ Single /\ Ordered /\ Current

-----------------------------------------------------------------------------
(* The course of a row                                                     *)

\* A row whose AI turn has not begun.
Fresh(j) == turns[j] = 0 /\ heard[j] = <<>> /\ ~jobs[j].kept
Unasked(j) == Is(j, {"absent", "pending"}) \/ (Is(j, {"processing"}) /\ ~jobs[j].ai)

RowOK(j) ==
    /\ jobs[j].lease \in {0, jobs[j].attempts}
    /\ jobs[j].lease # 0 => Is(j, {"processing", "waiting_for_salesbot", "continuing"})
    /\ Unasked(j) => jobs[j].launched = 0 /\ jobs[j].run = 0
    /\ Is(j, {"waiting_for_salesbot"}) => jobs[j].run = 0 /\ jobs[j].launched # 0
    /\ jobs[j].run \in DOMAIN runs \cup {0}
    /\ Is(j, {"ready"}) => jobs[j].run # 0 /\ runs[jobs[j].run].posts = 0
    /\ Is(j, {"continuing"}) => jobs[j].ai
    /\ Is(j, {"processing", "continuing"}) /\ jobs[j].ai => jobs[j].run # 0
    /\ Unasked(j) \/ Is(j, {"waiting_for_salesbot", "ready"}) => Fresh(j)
    /\ jobs[j].kept => heard[j] = <<"reply">>
    /\ Is(j, {"sent"}) => jobs[j].kept
    /\ turns[j] \in {0, 1}
    /\ heard[j] \in {<<>>, <<"reply">>, <<"apology">>}

RunsOK ==
    /\ \A r, s \in DOMAIN runs : runs[r].job = runs[s].job => r = s
    /\ \A r \in DOMAIN runs : /\ jobs[runs[r].job].launched # 0
                              /\ runs[r].posts \in {0, 1}
                              /\ runs[r].posts # 0 => Consumed(r)
    /\ \A j, k \in Messages : jobs[j].run = jobs[k].run /\ jobs[j].run # 0 => j = k

-----------------------------------------------------------------------------
(* What a task may assume                                                  *)

Launching(w) ==
    LET j == workers[w].job IN
    /\ workers[w].step = "launch" =>
         (HasLease(w) => Is(j, {"processing"}) /\ ~jobs[j].ai)
    /\ workers[w].step = "run" =>
         /\ jobs[j].launched # 0
         /\ \A r \in DOMAIN runs : runs[r].job # j
         /\ HasLease(w) => Is(j, {"waiting_for_salesbot"})

\* The row is the task's, or closed.
Turning(w) ==
    LET j == workers[w].job
        s == workers[w].step IN
    s \in AI =>
    /\ jobs[j].run \in DOMAIN runs
    /\ \/ HasLease(w) /\ jobs[j].ai /\ Is(j, {"processing", "continuing"})
       \/ Is(j, Terminal)
    /\ HasLease(w) /\ s \notin {"post", "store", "end"} => Is(j, {"processing"})
    /\ HasLease(w) /\ s \in {"post", "store"} => Is(j, {"continuing"})
    /\ s \in {"prepare", "generate"} => turns[j] = 0
    /\ s \in {"prepare", "generate", "check", "media"} => heard[j] = <<>>
    /\ s \notin {"store", "end"} => runs[jobs[j].run].posts = 0
    /\ s \in {"keep", "store"} => heard[j] = <<"reply">>

\* What its answer says, the status that follows and what was delivered agree.
Telling(w) ==
    LET j == workers[w].job
        t == workers[w] IN
    /\ t.step \in {"mark", "post"} =>
         /\ t.says = "reply" => t.ending = "sent"
         /\ t.says = "apology" => t.ending # "sent"
         /\ t.says # "nothing" => heard[j] = <<>>
         /\ t.says = "nothing" /\ t.ending = "sent" => heard[j] = <<"reply">> /\ jobs[j].kept
    /\ t.step = "store" => t.ending = "sent"
    /\ t.step = "end" /\ t.ending = "sent" =>
         /\ heard[j] = <<"reply">>
         /\ HasLease(w) => jobs[j].kept

Withheld(w) ==
    LET t == workers[w] IN
    /\ t.step \in {"prepare", "generate"} => ~t.escalated
    /\ t.held => /\ ~t.escalated /\ Lead(t.job) \in blocked
                 /\ \/ t.step = "check"
                    \/ t.step \in {"mark", "post", "end"} /\ t.says # "reply"

HandOK(w) ==
    /\ workers[w].step \in {"free", "claim"} => ~workers[w].held
    /\ workers[w].step \in Busy =>
         /\ workers[w].job \in Messages
         /\ workers[w].lease \in 1..jobs[workers[w].job].attempts
    /\ Launching(w) /\ Turning(w) /\ Telling(w) /\ Withheld(w)

\* Two tasks of one job have different leases, and one of them at most is in
\* the AI turn or about to launch the Salesbot.
Apart == \A v, w \in Workers :
    /\ v # w /\ workers[v].step \in Busy /\ workers[w].step \in Busy
    /\ workers[v].job = workers[w].job
    => /\ workers[v].lease # workers[w].lease
       /\ ~(workers[v].step \in AI /\ workers[w].step \in AI)
       /\ ~(workers[v].step = "run" /\ workers[w].step = "run")

JobsInv == (\A j \in Messages : RowOK(j)) /\ RunsOK /\ (\A w \in Workers : HandOK(w)) /\ Apart
IInv == TypeOK /\ ChatsInv /\ JobsInv

-----------------------------------------------------------------------------
(* What a statement writes                                                 *)

\* The statement writes row j alone: its status, and what tasks see of it.
Writes(j, st, lease, ai) ==
    /\ jobs' \in [Messages -> Job]
    /\ \A k \in Messages : k # j => jobs'[k] = jobs[k]
    /\ jobs'[j].st = st /\ jobs'[j].lease = lease /\ jobs'[j].ai = ai
    /\ jobs'[j].parts = jobs[j].parts

\* It leaves the rest of the row alone.
Keeps(j) == /\ jobs'[j].attempts = jobs[j].attempts /\ jobs'[j].launched = jobs[j].launched
            /\ jobs'[j].run = jobs[j].run /\ jobs'[j].kept = jobs[j].kept

LEMMA JobFields ==
  ASSUME NEW row \in Job
  PROVE  /\ row.st \in {"absent", "pending"} \cup Active \cup Terminal
         /\ row.parts \in SUBSET Messages /\ row.lease \in Nat /\ row.attempts \in Nat
         /\ row.launched \in Nat /\ row.run \in Nat
         /\ row.ai \in BOOLEAN /\ row.timed \in BOOLEAN /\ row.kept \in BOOLEAN
  BY DEF Job

LEMMA Rewritten ==
  ASSUME jobs \in [Messages -> Job], NEW j \in Messages, NEW row \in Job,
         jobs' = [jobs EXCEPT ![j] = row]
  PROVE  /\ jobs' \in [Messages -> Job] /\ jobs'[j] = row
         /\ \A k \in Messages : k # j => jobs'[k] = jobs[k]
  OBVIOUS

LEMMA FinishWrites ==
  ASSUME jobs \in [Messages -> Job], NEW j \in Messages,
         NEW s \in Terminal \cup {"pending", "ready"},
         jobs' = Finish(j, s) \/ jobs' = [Finish(j, s) EXCEPT ![j].timed = TRUE]
  PROVE  Writes(j, s, 0, jobs[j].ai) /\ Keeps(j)
<1> PICK job \in Job : job = jobs[j]
  OBVIOUS
<1> PICK b \in BOOLEAN : jobs' = IF b THEN [Finish(j, s) EXCEPT ![j].timed = TRUE] ELSE Finish(j, s)
  OBVIOUS
<1> DEFINE row == [job EXCEPT !.st = s, !.lease = 0, !.timed = b]
<1>1. row \in Job
  BY DEF Job, Active, Terminal
<1>2. /\ row.st = s /\ row.lease = 0 /\ row.ai = job.ai /\ row.parts = job.parts
      /\ row.attempts = job.attempts /\ row.launched = job.launched
      /\ row.run = job.run /\ row.kept = job.kept
  BY DEF Job
<1>3. jobs' = [jobs EXCEPT ![j] = row]
  BY DEF Finish, Job
<1> HIDE DEF row
<1> QED
  BY <1>1, <1>2, <1>3, Rewritten DEF Writes, Keeps

LEMMA ClaimWrites ==
  ASSUME jobs \in [Messages -> Job], NEW j \in Messages, NEW w, NEW step, Claim(w, j, step)
  PROVE  /\ Writes(j, "processing", jobs[j].attempts + 1, step = "prepare")
         /\ jobs'[j].attempts = jobs[j].attempts + 1
         /\ jobs'[j].launched = jobs[j].launched
         /\ jobs'[j].run = jobs[j].run /\ jobs'[j].kept = jobs[j].kept
<1> PICK job \in Job : job = jobs[j]
  OBVIOUS
<1> PICK n \in Nat : n = jobs[j].attempts + 1
  BY JobFields
<1> PICK b \in BOOLEAN : b = (step = "prepare")
  OBVIOUS
<1> DEFINE row == [job EXCEPT !.st = "processing", !.timed = FALSE, !.lease = n,
                              !.attempts = n, !.ai = b]
<1>1. row \in Job
  BY DEF Job, Active
<1>2. /\ row.st = "processing" /\ row.lease = n /\ row.ai = b /\ row.parts = job.parts
      /\ row.attempts = n /\ row.launched = job.launched
      /\ row.run = job.run /\ row.kept = job.kept
  BY DEF Job
<1>3. jobs' = [jobs EXCEPT ![j] = row]
  BY DEF Claim, Job
<1> HIDE DEF row
<1> QED
  BY <1>1, <1>2, <1>3, Rewritten DEF Writes

LEMMA MarkWrites ==
  ASSUME jobs \in [Messages -> Job], launches \in Nat, NEW j \in Messages, NEW w,
         workers[w].job = j, MarkWaiting(w)
  PROVE  /\ Writes(j, "waiting_for_salesbot", jobs[j].lease, jobs[j].ai)
         /\ jobs'[j].attempts = jobs[j].attempts /\ jobs'[j].launched = launches + 1
         /\ jobs'[j].run = jobs[j].run /\ jobs'[j].kept = jobs[j].kept
<1> PICK job \in Job : job = jobs[j]
  OBVIOUS
<1> PICK n \in Nat : n = launches + 1
  OBVIOUS
<1> DEFINE row == [job EXCEPT !.st = "waiting_for_salesbot", !.timed = FALSE,
                              !.launched = n]
<1>1. row \in Job
  BY DEF Job, Active
<1>2. /\ row.st = "waiting_for_salesbot" /\ row.lease = job.lease /\ row.ai = job.ai
      /\ row.parts = job.parts /\ row.attempts = job.attempts /\ row.launched = n
      /\ row.run = job.run /\ row.kept = job.kept
  BY DEF Job
<1>3. jobs' = [jobs EXCEPT ![j] = row]
  BY DEF MarkWaiting, Job
<1> HIDE DEF row
<1> QED
  BY <1>1, <1>2, <1>3, Rewritten DEF Writes

\* _retry_ready_job and the callback, which hand the row to the next claim.
LEMMA ReadyWrites ==
  ASSUME jobs \in [Messages -> Job], NEW j \in Messages, NEW r \in Nat,
         \/ jobs' = [jobs EXCEPT ![j].st = "ready", ![j].run = r, ![j].lease = 0,
                                 ![j].ai = FALSE, ![j].timed = FALSE]
         \/ /\ r = jobs[j].run
            /\ jobs' = [jobs EXCEPT ![j].st = "ready", ![j].lease = 0, ![j].ai = FALSE,
                                    ![j].timed = FALSE]
  PROVE  /\ Writes(j, "ready", 0, FALSE)
         /\ jobs'[j].attempts = jobs[j].attempts /\ jobs'[j].launched = jobs[j].launched
         /\ jobs'[j].run = r /\ jobs'[j].kept = jobs[j].kept
<1> PICK job \in Job : job = jobs[j]
  OBVIOUS
<1> DEFINE row == [job EXCEPT !.st = "ready", !.run = r, !.lease = 0,
                              !.ai = FALSE, !.timed = FALSE]
<1>0. "ready" \in {"absent", "pending"} \cup Active \cup Terminal
  BY DEF Active
<1>1. row \in Job
  BY <1>0, JobFields DEF Job
<1>2. /\ row.st = "ready" /\ row.lease = 0 /\ row.ai = FALSE
      /\ row.parts = job.parts /\ row.attempts = job.attempts /\ row.launched = job.launched
      /\ row.run = r /\ row.kept = job.kept
  BY DEF Job
<1>3. jobs' = [jobs EXCEPT ![j] = row]
  <2>1. CASE jobs' = [jobs EXCEPT ![j].st = "ready", ![j].run = r, ![j].lease = 0,
                                  ![j].ai = FALSE, ![j].timed = FALSE]
    BY <2>1 DEF Job
  <2>2. CASE /\ r = jobs[j].run
             /\ jobs' = [jobs EXCEPT ![j].st = "ready", ![j].lease = 0, ![j].ai = FALSE,
                                     ![j].timed = FALSE]
    <3>1. row = [job EXCEPT !.st = "ready", !.lease = 0, !.ai = FALSE, !.timed = FALSE]
      BY <2>2 DEF Job
    <3> QED
      BY <2>2, <3>1 DEF Job
  <2> QED
    BY <2>1, <2>2
<1> HIDE DEF row
<1> QED
  BY <1>1, <1>2, <1>3, Rewritten DEF Writes

LEMMA KeptWrites ==
  ASSUME jobs \in [Messages -> Job], NEW j \in Messages,
         jobs' = [jobs EXCEPT ![j].kept = TRUE]
  PROVE  /\ Writes(j, jobs[j].st, jobs[j].lease, jobs[j].ai)
         /\ jobs'[j].attempts = jobs[j].attempts /\ jobs'[j].launched = jobs[j].launched
         /\ jobs'[j].run = jobs[j].run /\ jobs'[j].kept = TRUE
<1> PICK job \in Job : job = jobs[j]
  OBVIOUS
<1> DEFINE row == [job EXCEPT !.kept = TRUE]
<1>1. row \in Job
  BY DEF Job
<1>2. /\ row.st = job.st /\ row.lease = job.lease /\ row.ai = job.ai
      /\ row.parts = job.parts /\ row.attempts = job.attempts /\ row.launched = job.launched
      /\ row.run = job.run /\ row.kept = TRUE
  BY DEF Job
<1>3. jobs' = [jobs EXCEPT ![j] = row]
  BY DEF Job
<1> HIDE DEF row
<1> QED
  BY <1>1, <1>2, <1>3, Rewritten DEF Writes

LEMMA ContinuingWrites ==
  ASSUME jobs \in [Messages -> Job], NEW j \in Messages,
         jobs' = [jobs EXCEPT ![j].st = "continuing", ![j].timed = FALSE]
  PROVE  Writes(j, "continuing", jobs[j].lease, jobs[j].ai) /\ Keeps(j)
<1> PICK job \in Job : job = jobs[j]
  OBVIOUS
<1> DEFINE row == [job EXCEPT !.st = "continuing", !.timed = FALSE]
<1>1. row \in Job
  BY DEF Job, Active
<1>2. /\ row.st = "continuing" /\ row.lease = job.lease /\ row.ai = job.ai
      /\ row.parts = job.parts /\ row.attempts = job.attempts /\ row.launched = job.launched
      /\ row.run = job.run /\ row.kept = job.kept
  BY DEF Job
<1>3. jobs' = [jobs EXCEPT ![j] = row]
  BY DEF Job
<1> HIDE DEF row
<1> QED
  BY <1>1, <1>2, <1>3, Rewritten DEF Writes, Keeps

LEMMA TimedWrites ==
  ASSUME jobs \in [Messages -> Job], NEW j \in Messages,
         jobs' = [jobs EXCEPT ![j].timed = TRUE]
  PROVE  Writes(j, jobs[j].st, jobs[j].lease, jobs[j].ai) /\ Keeps(j)
<1> PICK job \in Job : job = jobs[j]
  OBVIOUS
<1> DEFINE row == [job EXCEPT !.timed = TRUE]
<1>1. row \in Job
  BY DEF Job
<1>2. /\ row.st = job.st /\ row.lease = job.lease /\ row.ai = job.ai
      /\ row.parts = job.parts /\ row.attempts = job.attempts /\ row.launched = job.launched
      /\ row.run = job.run /\ row.kept = job.kept
  BY DEF Job
<1>3. jobs' = [jobs EXCEPT ![j] = row]
  BY DEF Job
<1> HIDE DEF row
<1> QED
  BY <1>1, <1>2, <1>3, Rewritten DEF Writes, Keeps

\* The task goes on to step s with the same row.
Acts(w, s) ==
    /\ workers' \in [Workers -> Task]
    /\ \A v \in Workers : v # w => workers'[v] = workers[v]
    /\ workers'[w].step = s /\ workers'[w].job = workers[w].job
    /\ workers'[w].lease = workers[w].lease /\ workers'[w].seen = workers[w].seen

\* What its answer says, the status it will write, and the take-over before it.
Tells(w, says, ending) == workers'[w].says = says /\ workers'[w].ending = ending
Judged(w) == workers'[w].escalated = workers[w].escalated /\ workers'[w].held = workers[w].held

\* It is free.
Leaves(w) ==
    /\ workers' \in [Workers -> Task]
    /\ \A v \in Workers : v # w => workers'[v] = workers[v]
    /\ workers'[w] = Free

LEMMA TaskFields ==
  ASSUME NEW t \in Task
  PROVE  /\ t.step \in {"free", "claim"} \cup Busy
         /\ t.job \in Messages \cup {0} /\ t.lease \in Nat /\ t.seen \in SUBSET Messages
         /\ t.says \in {"nothing", "reply", "apology"} /\ t.ending \in Terminal
         /\ t.media \in BOOLEAN /\ t.escalated \in BOOLEAN /\ t.held \in BOOLEAN
  BY DEF Task, Busy, AI

LEMMA Reassigned ==
  ASSUME workers \in [Workers -> Task], NEW w \in Workers, NEW task \in Task,
         workers' = [workers EXCEPT ![w] = task]
  PROVE  /\ workers' \in [Workers -> Task] /\ workers'[w] = task
         /\ \A v \in Workers : v # w => workers'[v] = workers[v]
  OBVIOUS

LEMMA FreeTask == Free \in Task
  BY DEF Free, Task, Terminal

LEMMA DoneActs ==
  ASSUME workers \in [Workers -> Task], NEW w \in Workers, Done(w)
  PROVE  Leaves(w)
  BY FreeTask, Reassigned DEF Done, Leaves

LEMMA GotoActs ==
  ASSUME workers \in [Workers -> Task], NEW w \in Workers, NEW s \in Busy,
         workers' = [workers EXCEPT ![w].step = s]
  PROVE  Acts(w, s) /\ Tells(w, workers[w].says, workers[w].ending) /\ Judged(w)
<1> PICK t \in Task : t = workers[w]
  OBVIOUS
<1> DEFINE task == [t EXCEPT !.step = s]
<1>1. task \in Task
  BY DEF Task, Busy, AI
<1>2. /\ task.step = s /\ task.job = t.job /\ task.lease = t.lease /\ task.seen = t.seen
      /\ task.says = t.says /\ task.ending = t.ending
      /\ task.escalated = t.escalated /\ task.held = t.held
  BY DEF Task
<1>3. workers' = [workers EXCEPT ![w] = task]
  BY DEF Task
<1> HIDE DEF task
<1> QED
  BY <1>1, <1>2, <1>3, Reassigned DEF Acts, Tells, Judged

LEMMA AnswersActs ==
  ASSUME workers \in [Workers -> Task], NEW w \in Workers,
         NEW says \in {"nothing", "reply", "apology"}, NEW ending \in Terminal,
         Answers(w, says, ending)
  PROVE  Acts(w, "mark") /\ Tells(w, says, ending) /\ Judged(w)
<1> PICK t \in Task : t = workers[w]
  OBVIOUS
<1> DEFINE task == [t EXCEPT !.step = "mark", !.says = says, !.ending = ending]
<1>1. task \in Task
  BY DEF Task
<1>2. /\ task.step = "mark" /\ task.job = t.job /\ task.lease = t.lease /\ task.seen = t.seen
      /\ task.says = says /\ task.ending = ending
      /\ task.escalated = t.escalated /\ task.held = t.held
  BY DEF Task
<1>3. workers' = [workers EXCEPT ![w] = task]
  BY DEF Task, Answers
<1> HIDE DEF task
<1> QED
  BY <1>1, <1>2, <1>3, Reassigned DEF Acts, Tells, Judged

LEMMA EndsActs ==
  ASSUME workers \in [Workers -> Task], NEW w \in Workers, NEW ending \in Terminal,
         Ends(w, ending)
  PROVE  Acts(w, "end") /\ Tells(w, workers[w].says, ending) /\ Judged(w)
<1> PICK t \in Task : t = workers[w]
  OBVIOUS
<1> DEFINE task == [t EXCEPT !.step = "end", !.ending = ending]
<1>1. task \in Task
  BY DEF Task
<1>2. /\ task.step = "end" /\ task.job = t.job /\ task.lease = t.lease /\ task.seen = t.seen
      /\ task.says = t.says /\ task.ending = ending
      /\ task.escalated = t.escalated /\ task.held = t.held
  BY DEF Task
<1>3. workers' = [workers EXCEPT ![w] = task]
  BY DEF Task, Ends
<1> HIDE DEF task
<1> QED
  BY <1>1, <1>2, <1>3, Reassigned DEF Acts, Tells, Judged

\* After the turn: the lead was taken over, or the turn escalated it itself.
LEMMA CheckActs ==
  ASSUME workers \in [Workers -> Task], NEW w \in Workers, NEW b \in BOOLEAN, NEW e \in BOOLEAN,
         \/ /\ e = workers[w].escalated
            /\ workers' = [workers EXCEPT ![w].step = "check", ![w].held = b]
         \/ /\ e = TRUE /\ b = workers[w].held
            /\ workers' = [workers EXCEPT ![w].step = "check", ![w].escalated = TRUE]
  PROVE  /\ Acts(w, "check") /\ Tells(w, workers[w].says, workers[w].ending)
         /\ workers'[w].escalated = e /\ workers'[w].held = b
<1> PICK t \in Task : t = workers[w]
  OBVIOUS
<1> DEFINE task == [t EXCEPT !.step = "check", !.held = b, !.escalated = e]
<1>1. task \in Task
  BY DEF Task
<1>2. /\ task.step = "check" /\ task.job = t.job /\ task.lease = t.lease /\ task.seen = t.seen
      /\ task.says = t.says /\ task.ending = t.ending
      /\ task.escalated = e /\ task.held = b
  BY DEF Task
<1>3. workers' = [workers EXCEPT ![w] = task]
  <2>1. CASE /\ e = workers[w].escalated
             /\ workers' = [workers EXCEPT ![w].step = "check", ![w].held = b]
    <3>1. task = [t EXCEPT !.step = "check", !.held = b]
      BY <2>1 DEF Task
    <3> QED
      BY <2>1, <3>1 DEF Task
  <2>2. CASE /\ e = TRUE /\ b = workers[w].held
             /\ workers' = [workers EXCEPT ![w].step = "check", ![w].escalated = TRUE]
    <3>1. task = [t EXCEPT !.step = "check", !.escalated = TRUE]
      BY <2>2 DEF Task
    <3> QED
      BY <2>2, <3>1 DEF Task
  <2> QED
    BY <2>1, <2>2
<1> HIDE DEF task
<1> QED
  BY <1>1, <1>2, <1>3, Reassigned DEF Acts, Tells

LEMMA MediaActs ==
  ASSUME workers \in [Workers -> Task], NEW w \in Workers, NEW ending \in Terminal,
         workers' = [workers EXCEPT ![w].step = "keep", ![w].media = TRUE, ![w].ending = ending]
  PROVE  Acts(w, "keep") /\ Tells(w, workers[w].says, ending) /\ Judged(w)
<1> PICK t \in Task : t = workers[w]
  OBVIOUS
<1> DEFINE task == [t EXCEPT !.step = "keep", !.media = TRUE, !.ending = ending]
<1>1. task \in Task
  BY DEF Task
<1>2. /\ task.step = "keep" /\ task.job = t.job /\ task.lease = t.lease /\ task.seen = t.seen
      /\ task.says = t.says /\ task.ending = ending
      /\ task.escalated = t.escalated /\ task.held = t.held
  BY DEF Task
<1>3. workers' = [workers EXCEPT ![w] = task]
  BY DEF Task
<1> HIDE DEF task
<1> QED
  BY <1>1, <1>2, <1>3, Reassigned DEF Acts, Tells, Judged

\* A task that takes a row starts with its new lease.
Takes(w, j, s) ==
    /\ workers' \in [Workers -> Task]
    /\ \A v \in Workers : v # w => workers'[v] = workers[v]
    /\ workers'[w].step = s /\ workers'[w].job = j /\ workers'[w].lease = jobs[j].attempts + 1
    /\ workers'[w].seen = {} /\ ~workers'[w].held
    /\ ~workers'[w].escalated

LEMMA ClaimActs ==
  ASSUME workers \in [Workers -> Task], jobs \in [Messages -> Job], NEW w \in Workers,
         NEW j \in Messages, NEW step \in Busy, Claim(w, j, step)
  PROVE  Takes(w, j, step)
<1> PICK n \in Nat : n = jobs[j].attempts + 1
  BY JobFields
<1> DEFINE task == [Free EXCEPT !.step = step, !.job = j, !.lease = n]
<1>1. task \in Task
  BY FreeTask DEF Task, Busy, AI
<1>2. task.step = step /\ task.job = j /\ task.lease = n /\ task.seen = {} /\ ~task.held /\ ~task.escalated
  BY DEF Free
<1>3. workers' = [workers EXCEPT ![w] = task]
  BY DEF Claim
<1> HIDE DEF task
<1> QED
  BY <1>1, <1>2, <1>3, Reassigned DEF Takes

-----------------------------------------------------------------------------
(* The rows and the messages they answer: what preserves ChatsInv          *)

LEMMA Statuses ==
  /\ "absent" \notin Active \cup Terminal \cup {"pending"}
  /\ "pending" \notin Active \cup Terminal
  /\ \A s : ~(s \in Active /\ s \in Terminal)
  BY DEF Active, Terminal

\* No task sees another candidate.
SeenLess == \A w \in Workers : workers'[w].seen \subseteq workers[w].seen

\* Row j changes its status: it is claimed beside no active row of its chat,
\* stays active or as it is, closes, or is taken back beside no pending row.
Turn(j) ==
    \/ jobs'[j].st = jobs[j].st
    \/ Is(j, Active) /\ Is(j, Active)'
    \/ /\ Is(j, {"pending"}) /\ Is(j, Active)'
       /\ \A k \in Messages : Related(j, k) => ~Is(k, Active)
    \/ Is(j, Active) /\ Is(j, Terminal)'
    \/ /\ Is(j, Active) /\ Is(j, {"pending"})'
       /\ \A k \in Messages : Related(j, k) => ~Is(k, {"pending"})

LEMMA SameChats ==
  ASSUME ChatsInv, UNCHANGED receipts, SeenLess,
         \A k \in Messages : jobs'[k].st = jobs[k].st /\ jobs'[k].parts = jobs[k].parts
                               /\ (Is(k, {"absent"}) => jobs'[k] = jobs[k])
  PROVE  ChatsInv'
<1>1. \A k \in Messages : \A S : Is(k, S)' <=> Is(k, S)
  BY DEF Is
<1>2. \A j, k \in Messages : Related(j, k)' <=> Related(j, k)
  BY DEF Related, Chat
<1>3. \A j, k \in Messages : Before(j, k)' <=> Before(j, k)
  BY DEF Before
<1>4. Numbered' /\ Filled' /\ Placed'
  BY <1>1 DEF ChatsInv, Numbered, Filled, Placed, Is, Chat
<1>5. Single'
  BY <1>1, <1>2 DEF ChatsInv, Single
<1>6. Ordered'
  BY <1>1, <1>2, <1>3 DEF ChatsInv, Ordered
<1>7. Current'
  BY <1>1, <1>2 DEF ChatsInv, Current, SeenLess
<1> QED
  BY <1>4, <1>5, <1>6, <1>7 DEF ChatsInv

LEMMA TurnChats ==
  ASSUME ChatsInv, UNCHANGED receipts, SeenLess, NEW j \in Messages, Turn(j), ~Is(j, {"absent"}),
         jobs[j].st \in {"absent", "pending"} \cup Active \cup Terminal,
         \A k \in Messages : jobs'[k].parts = jobs[k].parts,
         \A k \in Messages : k # j => jobs'[k] = jobs[k]
  PROVE  ChatsInv'
<1>1. CASE jobs'[j].st = jobs[j].st
  BY <1>1, SameChats DEF Is
<1>2. CASE jobs'[j].st # jobs[j].st
  <2>1. /\ \A k \in Messages : k # j => \A S : Is(k, S)' <=> Is(k, S)
        /\ \A k, i \in Messages : Related(k, i)' <=> Related(k, i)
        /\ \A k, i \in Messages : Before(k, i)' <=> Before(k, i)
    BY DEF Is, Related, Chat, Before
  <2>2. ~Is(j, {"absent"})'
    BY <1>2, Statuses DEF Turn, Is
  <2>3. Numbered' /\ Filled' /\ Placed'
    BY <2>1, <2>2 DEF ChatsInv, Numbered, Filled, Placed, Is, Chat
  <2>4. \A k, i \in Messages : Related(k, i) => Related(i, k)
    BY DEF Related
  <2>5. Single'
    BY <1>2, <2>1, <2>4, Statuses DEF ChatsInv, Single, Turn, Is
  <2>6. Ordered'
    BY <1>2, <2>1, <2>4, Statuses DEF ChatsInv, Single, Ordered, Turn, Is
  <2>7. Current'
    BY <1>2, <2>1, <2>2, <2>4, Statuses DEF ChatsInv, Single, Current, Turn, Is, SeenLess
  <2> QED
    BY <2>3, <2>5, <2>6, <2>7 DEF ChatsInv
<1> QED
  BY <1>1, <1>2

LEMMA Newest ==
  ASSUME ChatsInv, receipts \subseteq Messages, NEW m \in Messages \ receipts
  PROVE  /\ Is(m, {"absent"}) /\ \A j \in Messages : m \notin jobs[j].parts
         /\ \A n \in receipts : n < m
<1>1. \A n \in receipts : n < m
  <2> SUFFICES ASSUME NEW n \in receipts, m < n PROVE FALSE
    BY DEF Messages
  <2>1. m \in 1..(n - 1)
    BY DEF Messages
  <2> QED
    BY <2>1 DEF ChatsInv, Numbered
<1> QED
  BY <1>1 DEF ChatsInv, Filled

\* The new row, or the pending row of the chat with its new message.
LEMMA RecordWrites ==
  ASSUME ChatsInv, jobs \in [Messages -> Job], NEW m \in Messages, RecordIncoming(m)
  PROVE  \E p \in Messages :
           /\ jobs' \in [Messages -> Job]
           /\ \A k \in Messages : k # p => jobs'[k] = jobs[k]
           /\ jobs'[p].st = "pending" /\ jobs'[p].parts = jobs[p].parts \cup {m}
           /\ Chat(p) = Chat(m)
           /\ \/ /\ p = m /\ PendingOf(Chat(m)) = {}
                 /\ jobs'[p] = [NoJob EXCEPT !.st = "pending", !.parts = {m}]
                 /\ Is(p, {"absent"})
              \/ /\ Is(p, {"pending"}) /\ Keeps(p)
                 /\ jobs'[p].lease = jobs[p].lease /\ jobs'[p].ai = jobs[p].ai
<1> DEFINE open == PendingOf(Chat(m))
<1>1. m \notin receipts
  BY DEF RecordIncoming
<1>2. Is(m, {"absent"})
  BY <1>1 DEF ChatsInv, Filled
<1>3. CASE open = {}
  <2> DEFINE row == [NoJob EXCEPT !.st = "pending", !.parts = {m}]
  <2>1. row \in Job /\ row.st = "pending" /\ row.parts = {m}
    BY DEF NoJob, Job
  <2>2. jobs[m].parts = {}
    BY <1>2 DEF ChatsInv, Filled, NoJob
  <2>3. jobs' = [jobs EXCEPT ![m] = row]
    BY <1>3 DEF RecordIncoming
  <2> HIDE DEF row
  <2>4. /\ jobs' \in [Messages -> Job] /\ jobs'[m] = row
        /\ \A k \in Messages : k # m => jobs'[k] = jobs[k]
    BY <2>1, <2>3, Rewritten
  <2> QED
    BY <1>2, <1>3, <2>1, <2>2, <2>4 DEF row
<1>4. CASE open # {}
  <2> PICK p \in Messages : p \in open
    BY <1>4 DEF PendingOf
  <2>1. Is(p, {"pending"}) /\ Chat(p) = Chat(m)
    BY DEF PendingOf, Is
  <2>2. open = {p}
    BY <2>1 DEF PendingOf, ChatsInv, Single, Related, Is
  <2>3. Max(open) = p
    <3>1. p >= p
      BY DEF Messages
    <3> QED
      BY <2>2, <3>1 DEF Max
  <2> PICK job \in Job : job = jobs[p]
    OBVIOUS
  <2> DEFINE row == [job EXCEPT !.parts = job.parts \cup {m}, !.timed = FALSE]
  <2>4. row \in Job
    BY JobFields DEF Job
  <2>5. /\ row.st = job.st /\ row.lease = job.lease /\ row.ai = job.ai
        /\ row.parts = job.parts \cup {m} /\ row.attempts = job.attempts
        /\ row.launched = job.launched /\ row.run = job.run /\ row.kept = job.kept
    BY DEF Job
  <2>6. jobs' = [jobs EXCEPT ![p] = row]
    BY <1>4, <2>3 DEF RecordIncoming, Job
  <2> HIDE DEF row, open
  <2>7. /\ jobs' \in [Messages -> Job] /\ jobs'[p] = row
        /\ \A k \in Messages : k # p => jobs'[k] = jobs[k]
    BY <2>4, <2>6, Rewritten
  <2> QED
    BY <2>1, <2>5, <2>7 DEF Is, Keeps
<1> QED
  BY <1>3, <1>4

LEMMA RecordChats ==
  ASSUME ChatsInv, jobs \in [Messages -> Job], receipts \subseteq Messages,
         NEW m \in Messages, RecordIncoming(m)
  PROVE  ChatsInv'
<1>1. /\ m \notin receipts /\ receipts' = receipts \cup {m} /\ workers' = workers
      /\ 1..(m - 1) \subseteq receipts
  BY DEF RecordIncoming
<1>2. /\ Is(m, {"absent"}) /\ \A j \in Messages : m \notin jobs[j].parts
      /\ \A n \in receipts : n < m
  BY <1>1, Newest
<1> PICK p \in Messages :
      /\ \A k \in Messages : k # p => jobs'[k] = jobs[k]
      /\ jobs'[p].st = "pending" /\ jobs'[p].parts = jobs[p].parts \cup {m}
      /\ Chat(p) = Chat(m)
      /\ \/ p = m /\ PendingOf(Chat(m)) = {} /\ Is(p, {"absent"})
         \/ Is(p, {"pending"})
  BY RecordWrites
<1>3. /\ \A k \in Messages : k # p => \A S : Is(k, S)' <=> Is(k, S)
      /\ \A k, i \in Messages : Related(k, i)' <=> Related(k, i)
      /\ \A k \in Messages : k # p => jobs'[k].parts = jobs[k].parts
      /\ \A k \in Messages : jobs[k].parts \subseteq receipts
      /\ \A k, i \in Messages : Related(k, i) => Related(i, k)
  BY DEF Is, Related, Chat, ChatsInv, Filled
<1>4. \A S : Is(p, S)' <=> "pending" \in S
  BY DEF Is
<1>5. Numbered'
  BY <1>1 DEF ChatsInv, Numbered
<1>6. Filled'
  <2>1. p \in receipts'
    BY <1>1 DEF ChatsInv, Filled, Is
  <2>2. \A i \in jobs'[p].parts : i \in receipts' /\ Chat(i)' = Chat(p)
    BY <1>1 DEF ChatsInv, Filled, Chat
  <2> QED
    BY <1>1, <1>3, <1>4, <2>1, <2>2 DEF ChatsInv, Filled, Chat, Is
<1>7. Placed'
  <2>1. \A i \in receipts' : \E j \in Messages : i \in jobs'[j].parts
    BY <1>1, <1>3 DEF ChatsInv, Placed
  <2>2. \A j, k \in Messages : \A i \in jobs'[j].parts : i \in jobs'[k].parts => j = k
    BY <1>2, <1>3 DEF ChatsInv, Placed
  <2> QED
    BY <2>1, <2>2 DEF Placed
<1>8. \A k \in Messages : Related(p, k) => ~Is(k, {"pending"})
  BY DEF PendingOf, Is, Related, ChatsInv, Single
<1>9. Single'
  <2> SUFFICES ASSUME NEW j \in Messages, NEW k \in Messages, Related(j, k)
               PROVE  /\ ~(Is(j, {"pending"})' /\ Is(k, {"pending"})')
                      /\ ~(Is(j, Active)' /\ Is(k, Active)')
    BY <1>3 DEF Single
  <2>1. CASE j = p
    BY <1>3, <1>4, <1>8, <2>1, Statuses DEF Related
  <2>2. CASE k = p
    BY <1>3, <1>4, <1>8, <2>2, Statuses DEF Related
  <2>3. CASE j # p /\ k # p
    BY <1>3, <2>3 DEF ChatsInv, Single
  <2> QED
    BY <2>1, <2>2, <2>3
<1>10. \A k \in Messages : k # p /\ Before(k, p) => Before(k, p)'
  BY <1>2, <1>3 DEF Before
<1>11. \A k, i \in Messages : k # p /\ i # p /\ Before(k, i) => Before(k, i)'
  BY <1>3 DEF Before
<1>12. Ordered'
  <2> SUFFICES ASSUME NEW j \in Messages, NEW k \in Messages, Related(j, k),
                      \/ Is(k, {"pending"})' /\ Is(j, Active \cup Terminal)'
                      \/ Is(k, Active)' /\ Is(j, Terminal)'
               PROVE  Before(j, k)'
    BY <1>3 DEF Ordered
  <2>1. j # p
    BY <1>4, Statuses
  <2>2. CASE k = p /\ Is(p, {"pending"})
    BY <1>3, <1>4, <1>10, <2>1, <2>2, Statuses DEF ChatsInv, Ordered
  <2>3. CASE k = p /\ Is(p, {"absent"}) /\ p = m
    <3>1. jobs[p].parts = {}
      BY <2>3 DEF ChatsInv, Filled, NoJob
    <3> QED
      BY <1>2, <1>3, <2>1, <2>3, <3>1 DEF Before
  <2>4. CASE k # p
    BY <1>3, <1>11, <2>1, <2>4 DEF ChatsInv, Ordered
  <2> QED
    BY <2>2, <2>3, <2>4
<1>13. Current'
  <2> SUFFICES ASSUME NEW w \in Workers, NEW j \in Messages, j \in workers[w].seen
               PROVE  /\ ~Is(j, {"absent"})'
                      /\ Is(j, {"pending"})' => \A k \in Messages : Related(j, k)' => ~Is(k, Active)'
    BY <1>1 DEF Current
  <2>1. /\ ~Is(j, {"absent"})
        /\ Is(j, {"pending"}) => \A k \in Messages : Related(j, k) => ~Is(k, Active)
    BY DEF ChatsInv, Current
  <2>2. Is(j, {"pending"})' => Is(j, {"pending"})
    BY <1>3, <2>1 DEF Is
  <2>3. \A k \in Messages : Is(k, Active)' => Is(k, Active)
    BY <1>3, <1>4, Statuses
  <2> QED
    BY <1>3, <1>4, <2>1, <2>2, <2>3
<1> QED
  BY <1>5, <1>6, <1>7, <1>9, <1>12, <1>13 DEF ChatsInv

\* An active row of its chat holds a candidate back.
LEMMA Unheld ==
  ASSUME NEW j \in Claimable
  PROVE  Is(j, {"pending"}) /\ \A k \in Messages : Related(j, k) => ~Is(k, Active)
  BY DEF Claimable, Due, HoldsBack, Related, Is

LEMMA StartsChats ==
  ASSUME ChatsInv, workers \in [Workers -> Task], NEW w \in Workers, ClaimStarts(w)
  PROVE  ChatsInv' /\ workers' \in [Workers -> Task]
<1>1. Claimable \in SUBSET Messages
  BY DEF Claimable
<1> PICK t \in Task : t = workers[w]
  OBVIOUS
<1> DEFINE task == [t EXCEPT !.step = "claim", !.seen = Claimable]
<1>2. task \in Task /\ task.seen = Claimable
  BY <1>1 DEF Task
<1>3. workers' = [workers EXCEPT ![w] = task]
  BY DEF ClaimStarts, Task
<1> HIDE DEF task
<1>4. /\ workers' \in [Workers -> Task] /\ workers'[w] = task
      /\ \A v \in Workers : v # w => workers'[v] = workers[v]
  BY <1>2, <1>3, Reassigned
<1>5. UNCHANGED <<jobs, receipts>>
  BY DEF ClaimStarts
<1>6. \A j \in Messages : \A S : Is(j, S)' <=> Is(j, S)
  BY <1>5 DEF Is
<1>7. \A j, k \in Messages : (Related(j, k)' <=> Related(j, k)) /\ (Before(j, k)' <=> Before(j, k))
  BY <1>5 DEF Related, Chat, Before
<1>8. Numbered' /\ Filled' /\ Placed' /\ Single' /\ Ordered'
  <2>1. Numbered' /\ Filled' /\ Placed'
    BY <1>5 DEF ChatsInv, Numbered, Filled, Placed, Chat, Is
  <2>2. Single'
    BY <1>6, <1>7 DEF ChatsInv, Single
  <2>3. Ordered'
    BY <1>6, <1>7 DEF ChatsInv, Ordered
  <2> QED
    BY <2>1, <2>2, <2>3
<1>9. \A v \in Workers : \A j \in Messages : j \in workers'[v].seen =>
        /\ ~Is(j, {"absent"})
        /\ Is(j, {"pending"}) => \A k \in Messages : Related(j, k) => ~Is(k, Active)
  <2> SUFFICES ASSUME NEW v \in Workers, NEW j \in Messages, j \in workers'[v].seen
               PROVE  /\ ~Is(j, {"absent"})
                      /\ Is(j, {"pending"}) => \A k \in Messages : Related(j, k) => ~Is(k, Active)
    OBVIOUS
  <2>1. CASE v = w
    BY <1>2, <1>4, <2>1, Unheld DEF Is
  <2>2. CASE v # w
    BY <1>4, <2>2 DEF ChatsInv, Current
  <2> QED
    BY <2>1, <2>2
<1>10. Current'
  BY <1>6, <1>7, <1>9 DEF Current
<1> QED
  BY <1>4, <1>8, <1>10 DEF ChatsInv

-----------------------------------------------------------------------------
(* What the step of one actor leaves to the others                         *)

\* What a task reads of its row before the turn, and what it reads later.
Alike(j) ==
    /\ jobs'[j].st = jobs[j].st /\ jobs'[j].lease = jobs[j].lease
    /\ jobs'[j].ai = jobs[j].ai /\ jobs'[j].attempts = jobs[j].attempts
    /\ jobs[j].launched # 0 => jobs'[j].launched # 0
Unturned(j) ==
    /\ jobs'[j].run = jobs[j].run /\ jobs'[j].kept = jobs[j].kept
    /\ turns'[j] = turns[j] /\ heard'[j] = heard[j]

\* The runs of row j, and its own one.
RunsKnown(j) == \A r \in DOMAIN runs' : runs'[r].job = j => r \in DOMAIN runs /\ runs[r].job = j
Unposted(j) ==
    jobs[j].run \in DOMAIN runs =>
      jobs[j].run \in DOMAIN runs' /\ runs'[jobs[j].run].posts = runs[jobs[j].run].posts

LEMMA HandStill ==
  ASSUME NEW v \in Workers, NEW j \in Messages, HandOK(v), workers'[v] = workers[v],
         workers[v].step \in Busy, workers[v].job = j, Alike(j),
         workers[v].step = "run" => RunsKnown(j),
         workers[v].step \in AI => Unturned(j) /\ Unposted(j),
         blocked \subseteq blocked'
  PROVE  HandOK(v)'
<1>1. HasLease(v)' <=> HasLease(v)
  BY DEF HasLease, Alike
<1>2. \A S : Is(j, S)' <=> Is(j, S)
  BY DEF Is, Alike
<1>3. Launching(v)'
  BY <1>1, <1>2 DEF HandOK, Launching, Alike, RunsKnown
<1>4. Turning(v)'
  BY <1>1, <1>2 DEF HandOK, Turning, Alike, Unturned, Unposted
<1>5. Telling(v)'
  BY <1>1 DEF HandOK, Telling, Unturned, AI
<1>6. Withheld(v)'
  BY DEF HandOK, Withheld, Lead, Chat
<1> QED
  BY <1>3, <1>4, <1>5, <1>6 DEF HandOK, Alike, Busy, AI

\* The row changes hands while its former task is at a call to Kommo.
LEMMA HandPassed ==
  ASSUME NEW v \in Workers, NEW j \in Messages, HandOK(v), workers'[v] = workers[v],
         workers[v].step \in {"launch", "run"}, workers[v].job = j,
         jobs'[j].lease # workers[v].lease,
         jobs'[j].attempts \in Nat, jobs[j].attempts \in Nat,
         jobs'[j].attempts >= jobs[j].attempts,
         jobs[j].launched # 0 => jobs'[j].launched # 0,
         workers[v].step = "run" => RunsKnown(j)
  PROVE  HandOK(v)'
<1>1. ~HasLease(v)'
  BY DEF HasLease
<1>2. Launching(v)'
  BY <1>1 DEF HandOK, Launching, RunsKnown
<1>3. Turning(v)' /\ Telling(v)' /\ Withheld(v)'
  BY DEF HandOK, Turning, Telling, Withheld, AI
<1> QED
  BY <1>2, <1>3 DEF HandOK, Busy, AI

\* The row is closed while its task is in the AI turn or delivers.
LEMMA HandClosed ==
  ASSUME NEW v \in Workers, NEW j \in Messages, HandOK(v), workers'[v] = workers[v],
         workers[v].step \in AI, workers[v].job = j,
         Is(j, Terminal)', jobs'[j].lease = 0,
         jobs'[j].attempts = jobs[j].attempts, Unturned(j), Unposted(j), blocked \subseteq blocked'
  PROVE  HandOK(v)'
<1>1. ~HasLease(v)'
  BY DEF HasLease, HandOK, Busy
<1>2. Launching(v)'
  BY DEF Launching, AI
<1>3. Turning(v)'
  BY <1>1 DEF HandOK, Turning, Unturned, Unposted
<1>4. Telling(v)'
  BY <1>1 DEF HandOK, Telling, Unturned
<1>5. Withheld(v)'
  BY DEF HandOK, Withheld, Lead, Chat
<1> QED
  BY <1>2, <1>3, <1>4, <1>5 DEF HandOK, Busy, AI

LEMMA HandIdle ==
  ASSUME NEW v \in Workers, workers[v] \in Task, HandOK(v), workers'[v] = workers[v],
         workers[v].step \notin Busy
  PROVE  HandOK(v)'
<1>1. workers[v].step \in {"free", "claim"}
  BY TaskFields
<1>2. ~workers[v].held
  BY <1>1 DEF HandOK
<1>3. Launching(v)' /\ Turning(v)' /\ Telling(v)' /\ Withheld(v)'
  BY <1>1, <1>2 DEF Launching, Turning, Telling, Withheld, AI
<1> QED
  BY <1>1, <1>3 DEF HandOK, Busy, AI

LEMMA RowStill ==
  ASSUME NEW j \in Messages, RowOK(j), Alike(j), Unturned(j), Unposted(j),
         jobs'[j].launched = jobs[j].launched
  PROVE  RowOK(j)'
<1>1. (Unasked(j)' <=> Unasked(j)) /\ (Fresh(j)' <=> Fresh(j)) /\ \A S : Is(j, S)' <=> Is(j, S)
  BY DEF Is, Alike, Unasked, Fresh, Unturned
<1> QED
  BY <1>1 DEF RowOK, Alike, Unturned, Unposted

LEMMA RunsStill ==
  ASSUME RunsOK, runs' = runs, \A r \in DOMAIN runs : runs[r].job \in Messages,
         \A k \in Messages : jobs'[k].run = jobs[k].run
                               /\ (jobs[k].launched # 0 => jobs'[k].launched # 0)
  PROVE  RunsOK'
<1>1. \A r : Consumed(r)' <=> Consumed(r)
  BY DEF Consumed
<1> QED
  BY <1>1 DEF RunsOK

\* What a step of task w may touch: its own row, the history and the posts of
\* that row once the turn began, and a run it launches.
OwnStep(w) ==
    LET j == workers[w].job IN
    /\ \A v \in Workers : v # w => workers'[v] = workers[v]
    /\ \A k \in Messages : k # j =>
         jobs'[k] = jobs[k] /\ turns'[k] = turns[k] /\ heard'[k] = heard[k]
    /\ \/ Alike(j)
       \/ /\ HasLease(w) /\ jobs'[j].lease \in {0, workers[w].lease}
          /\ jobs'[j].attempts = jobs[j].attempts
          /\ jobs[j].launched # 0 => jobs'[j].launched # 0
    /\ workers[w].step \in AI \/ Unturned(j)
    /\ DOMAIN runs \subseteq DOMAIN runs'
    /\ \A r \in DOMAIN runs :
         /\ runs'[r].job = runs[r].job
         /\ (r = jobs[j].run /\ workers[w].step \in AI) \/ runs'[r].posts = runs[r].posts
    /\ \A r \in DOMAIN runs' : r \notin DOMAIN runs =>
         runs'[r].job = j /\ workers[w].step = "run"
    /\ blocked \subseteq blocked'

LEMMA RunNumbers ==
  ASSUME TypeOK
  PROVE  /\ 0 \notin DOMAIN runs
         /\ \A r \in DOMAIN runs : /\ r \in Nat /\ runs[r].job \in Messages /\ runs[r].iat \in Nat
                                   /\ runs[r].posts \in Nat
<1> DEFINE R == [job : Messages, iat : Nat, posts : Nat]
<1>1. runs \in Seq(R)
  BY DEF TypeOK
<1> HIDE DEF R
<1>2. DOMAIN runs = 1..Len(runs) /\ Len(runs) \in Nat /\ \A r \in DOMAIN runs : runs[r] \in R
  BY <1>1
<1> QED
  BY <1>2 DEF R

LEMMA OthersKeep ==
  ASSUME TypeOK, JobsInv, NEW w \in Workers, workers[w].step \in Busy, OwnStep(w)
  PROVE  /\ \A v \in Workers : v # w => HandOK(v)'
         /\ \A k \in Messages : k # workers[w].job => RowOK(k)'
<1> DEFINE j == workers[w].job
<1>0. j \in Messages /\ workers[w].lease \in 1..jobs[j].attempts /\ HandOK(w)
  BY DEF JobsInv, HandOK
<1>1. \A k \in Messages : RowOK(k)
  BY DEF JobsInv
<1>2. \A k \in Messages : jobs[k] \in Job /\ jobs[k].attempts \in Nat
  BY DEF TypeOK, Job
<1>3. \A k \in Messages : jobs[k].run \in DOMAIN runs /\ jobs[k].run = jobs[j].run => k = j
  BY <1>0, RunNumbers DEF JobsInv, RunsOK
<1>4. ASSUME NEW k \in Messages, k # j
      PROVE  Alike(k) /\ Unturned(k) /\ Unposted(k) /\ RunsKnown(k) /\ jobs'[k].launched = jobs[k].launched
  <2>1. jobs'[k] = jobs[k] /\ turns'[k] = turns[k] /\ heard'[k] = heard[k]
    BY <1>4 DEF OwnStep
  <2>2. Unposted(k)
    BY <1>3, <1>4 DEF OwnStep, Unposted
  <2>3. RunsKnown(k)
    BY <1>4 DEF OwnStep, RunsKnown
  <2> QED
    BY <2>1, <2>2, <2>3 DEF Alike, Unturned
<1>5. ASSUME NEW v \in Workers, v # w PROVE HandOK(v)'
  <2> DEFINE i == workers[v].job
  <2>1. HandOK(v) /\ workers'[v] = workers[v] /\ workers[v] \in Task /\ blocked \subseteq blocked'
    BY <1>5 DEF JobsInv, OwnStep, TypeOK
  <2>2. CASE workers[v].step \notin Busy
    BY <2>1, <2>2, HandIdle
  <2>3. CASE workers[v].step \in Busy /\ i # j
    <3>1. i \in Messages
      BY <2>1, <2>3 DEF HandOK
    <3> QED
      BY <1>4, <2>1, <2>3, <3>1, HandStill
  <2>4. CASE workers[v].step \in Busy /\ i = j
    <3>1. /\ workers[v].lease # workers[w].lease
          /\ ~(workers[v].step \in AI /\ workers[w].step \in AI)
          /\ ~(workers[v].step = "run" /\ workers[w].step = "run")
          /\ workers[v].lease \in 1..jobs[j].attempts
      BY <1>5, <2>1, <2>4 DEF JobsInv, Apart, HandOK
    <3>2. workers[v].step = "run" => RunsKnown(j)
      BY <3>1 DEF OwnStep, RunsKnown
    <3>3. workers[v].step \in AI => Unturned(j) /\ Unposted(j)
      BY <1>0, <3>1 DEF OwnStep, Unposted
    <3>4. CASE Alike(j)
      BY <1>0, <2>1, <2>4, <3>2, <3>3, <3>4, HandStill
    <3>5. CASE ~Alike(j)
      <4>1. /\ HasLease(w) /\ jobs'[j].lease \in {0, workers[w].lease}
            /\ jobs'[j].attempts = jobs[j].attempts
            /\ jobs[j].launched # 0 => jobs'[j].launched # 0
        BY <3>5 DEF OwnStep
      <4>2. workers[v].step \notin AI
        <5> SUFFICES ASSUME workers[v].step \in AI PROVE FALSE
          OBVIOUS
        <5>1. workers[w].step \in {"launch", "run"}
          BY <3>1 DEF Busy
        <5>2. ~HasLease(v) /\ ~Is(j, Terminal)
          <6>1. ~HasLease(v)
            BY <2>4, <3>1, <4>1 DEF HasLease
          <6>2. Is(j, {"processing", "waiting_for_salesbot"})
            BY <1>0, <4>1, <5>1 DEF HandOK, Launching, Is
          <6> QED
            BY <6>1, <6>2 DEF Is, Terminal
        <5> QED
          BY <2>1, <2>4, <5>2 DEF HandOK, Turning
      <4>3. workers[v].step \in {"launch", "run"}
        BY <2>4, <4>2 DEF Busy
      <4>4. jobs'[j].lease # workers[v].lease
        BY <3>1, <4>1
      <4> QED
        BY <1>0, <1>2, <2>1, <2>4, <3>2, <4>1, <4>3, <4>4, HandPassed
    <3> QED
      BY <3>4, <3>5
  <2> QED
    BY <2>2, <2>3, <2>4
<1>6. ASSUME NEW k \in Messages, k # j PROVE RowOK(k)'
  BY <1>1, <1>4, <1>6, RowStill
<1> QED
  BY <1>5, <1>6

\* Two tasks stay apart when one of them goes on with its row or is done.
LEMMA ApartKept ==
  ASSUME Apart, NEW w \in Workers, workers[w].step \in Busy,
         \A v \in Workers : v # w => workers'[v] = workers[v],
         \/ workers'[w].step \notin Busy
         \/ /\ workers'[w].job = workers[w].job /\ workers'[w].lease = workers[w].lease
            /\ workers'[w].step \in AI => workers[w].step \in AI
            /\ workers'[w].step = "run" =>
                 \A v \in Workers : v # w /\ workers[v].step = "run" => workers[v].job # workers[w].job
  PROVE  Apart'
<1> SUFFICES ASSUME NEW u \in Workers, NEW v \in Workers, u # v,
                    workers'[u].step \in Busy, workers'[v].step \in Busy,
                    workers'[u].job = workers'[v].job
             PROVE  /\ workers'[u].lease # workers'[v].lease
                    /\ ~(workers'[u].step \in AI /\ workers'[v].step \in AI)
                    /\ ~(workers'[u].step = "run" /\ workers'[v].step = "run")
  BY DEF Apart
<1>1. CASE u # w /\ v # w
  BY <1>1 DEF Apart
<1>2. CASE u = w
  BY <1>2 DEF Apart
<1>3. CASE v = w
  BY <1>3 DEF Apart
<1> QED
  BY <1>1, <1>2, <1>3

LEMMA OwnInv ==
  ASSUME IInv, NEW w \in Workers, NEW j \in Messages, workers[w].step \in Busy,
         workers[w].job = j, OwnStep(w), TypeOK', Apart', RunsOK', RowOK(j)', HandOK(w)',
         UNCHANGED receipts, workers'[w].seen \subseteq workers[w].seen, Turn(j),
         jobs'[j].parts = jobs[j].parts
  PROVE  IInv'
<1>1. /\ \A v \in Workers : v # w => HandOK(v)'
      /\ \A k \in Messages : k # j => RowOK(k)'
  BY OthersKeep DEF IInv
<1>2. jobs[j].attempts \in Nat \ {0}
  <2>1. workers[w].lease \in 1..jobs[j].attempts
    BY DEF IInv, JobsInv, HandOK
  <2>2. jobs[j].attempts \in Nat
    BY JobFields DEF IInv, TypeOK
  <2> QED
    BY <2>1, <2>2
<1>3. ~Is(j, {"absent"})
  BY <1>2 DEF IInv, ChatsInv, Filled, NoJob
<1>4. SeenLess
  BY DEF SeenLess, OwnStep
<1>5. /\ jobs[j].st \in {"absent", "pending"} \cup Active \cup Terminal
      /\ \A k \in Messages : k # j => jobs'[k] = jobs[k]
  BY JobFields DEF IInv, TypeOK, OwnStep
<1>6. \A k \in Messages : jobs'[k].parts = jobs[k].parts
  BY <1>5
<1>7. ChatsInv'
  BY <1>3, <1>4, <1>5, <1>6, TurnChats DEF IInv
<1> QED
  BY <1>1, <1>7 DEF IInv, JobsInv

LEMMA Holder ==
  ASSUME IInv, NEW w \in Workers, workers[w].step \in Busy
  PROVE  /\ workers[w].job \in Messages /\ jobs[workers[w].job] \in Job
         /\ workers[w].lease \in Nat \ {0} /\ workers[w] \in Task
         /\ HandOK(w) /\ RowOK(workers[w].job)
         /\ HasLease(w) => Is(workers[w].job, {"processing", "waiting_for_salesbot", "continuing"})
<1>1. /\ workers[w].job \in Messages /\ workers[w].lease \in 1..jobs[workers[w].job].attempts
      /\ HandOK(w)
  BY DEF IInv, JobsInv, HandOK
<1>2. jobs[workers[w].job] \in Job /\ workers[w] \in Task
  BY <1>1 DEF IInv, TypeOK
<1>3. workers[w].lease \in Nat \ {0} /\ RowOK(workers[w].job)
  BY <1>1, <1>2, JobFields DEF IInv, JobsInv
<1> QED
  BY <1>1, <1>2, <1>3 DEF RowOK, HasLease

LEMMA FreeHand ==
  ASSUME NEW w \in Workers, Leaves(w)
  PROVE  HandOK(w)' /\ workers'[w].seen = {} /\ workers'[w].step \notin Busy
<1>1. workers'[w] = Free
  BY DEF Leaves
<1>2. ~Free.held /\ Free.step = "free" /\ Free.seen = {}
  BY DEF Free
<1> QED
  BY <1>1, <1>2 DEF HandOK, Launching, Turning, Telling, Withheld, Free, AI, Busy

\* The task stops and leaves its row to the recovery, or to who has its lease.
LEMMA LeaveStep ==
  ASSUME IInv, NEW w \in Workers, workers[w].step \in Busy, Done(w),
         UNCHANGED <<jobs, receipts, runs, launches, blocked, faults, turns, heard>>
  PROVE  IInv'
<1> PICK j \in Messages : j = workers[w].job
  BY Holder
<1>1. Leaves(w)
  BY DoneActs DEF IInv, TypeOK
<1>2. OwnStep(w)
  BY <1>1 DEF OwnStep, Leaves, Alike, Unturned
<1>3. TypeOK'
  BY <1>1 DEF IInv, TypeOK, Leaves
<1>4. HandOK(w)' /\ workers'[w].seen = {} /\ workers'[w].step \notin Busy
  BY <1>1, FreeHand
<1>5. Apart'
  BY <1>1, <1>4, ApartKept DEF IInv, JobsInv, Leaves
<1>6. RunsOK' /\ RowOK(j)'
  <2>1. RunsOK'
    BY RunsStill, RunNumbers DEF IInv, JobsInv
  <2>2. RowOK(j)'
    BY Holder, RowStill DEF Alike, Unturned, Unposted
  <2> QED
    BY <2>1, <2>2
<1>7. Turn(j)
  BY DEF Turn
<1> QED
  BY <1>2, <1>3, <1>4, <1>5, <1>6, <1>7, OwnInv

\* The owner of the lease closes its row.
LEMMA CloseStep ==
  ASSUME IInv, NEW w \in Workers, workers[w].step \in Busy, Done(w), HasLease(w),
         NEW s \in Terminal, jobs' = Finish(workers[w].job, s),
         s = "sent" => jobs[workers[w].job].kept,
         UNCHANGED <<receipts, runs, launches, blocked, faults, turns, heard>>
  PROVE  IInv'
<1> PICK j \in Messages : j = workers[w].job
  BY Holder
<1>1. Leaves(w)
  BY DoneActs DEF IInv, TypeOK
<1>2. RowOK(j) /\ Is(j, Active) /\ jobs \in [Messages -> Job]
  BY Holder DEF Is, Active, IInv, TypeOK
<1>3. Writes(j, s, 0, jobs[j].ai) /\ Keeps(j)
  BY <1>2, FinishWrites
<1>4. OwnStep(w)
  BY <1>1, <1>3 DEF OwnStep, Leaves, Writes, Keeps, Unturned
<1>5. TypeOK'
  BY <1>1, <1>3 DEF IInv, TypeOK, Leaves, Writes
<1>6. HandOK(w)' /\ workers'[w].seen = {} /\ workers'[w].step \notin Busy
  BY <1>1, FreeHand
<1>7. Apart'
  BY <1>1, <1>6, ApartKept DEF IInv, JobsInv, Leaves
<1>8. RunsOK'
  <2>1. \A k \in Messages : jobs'[k].run = jobs[k].run /\ jobs'[k].launched = jobs[k].launched
    BY <1>3 DEF Writes, Keeps
  <2> QED
    BY <2>1, RunsStill, RunNumbers DEF IInv, JobsInv
<1>9. RowOK(j)'
  <2>1. Is(j, Terminal)' /\ ~Unasked(j)' /\ (Is(j, {"sent"})' => jobs'[j].kept)
    BY <1>3, Statuses DEF Is, Unasked, Writes, Keeps, Terminal
  <2>2. ~Is(j, {"waiting_for_salesbot", "ready", "processing", "continuing"})'
    BY <2>1 DEF Is, Terminal
  <2> QED
    BY <1>2, <1>3, <2>1, <2>2 DEF RowOK, Writes, Keeps, Is
<1>10. Turn(j)
  BY <1>2, <1>3 DEF Turn, Is, Writes
<1> QED
  BY <1>3, <1>4, <1>5, <1>6, <1>7, <1>8, <1>9, <1>10, OwnInv DEF Writes

-----------------------------------------------------------------------------
(* The launch of the Salesbot                                              *)

LEMMA MarkJobStep ==
  ASSUME IInv, NEW w \in Workers, workers[w].step \in Busy, Done(w), NEW s \in Terminal,
         MarkJob(w, s), s = "sent" => (HasLease(w) => jobs[workers[w].job].kept),
         UNCHANGED <<receipts, runs, launches, blocked, faults, turns, heard>>
  PROVE  IInv'
<1>1. CASE HasLease(w)
  BY <1>1, CloseStep DEF MarkJob
<1>2. CASE ~HasLease(w)
  BY <1>2, LeaveStep DEF MarkJob
<1> QED
  BY <1>1, <1>2

LEMMA WaitingStep ==
  ASSUME IInv, NEW w \in Workers, workers[w].step = "launch", Owns(w), MarkWaiting(w),
         UNCHANGED <<receipts, runs, blocked, faults, turns, heard>>
  PROVE  IInv'
<1>0. workers[w].step \in Busy /\ workers[w].step \notin AI /\ workers[w].step # "run"
  BY DEF Busy, AI
<1> PICK j \in Messages : j = workers[w].job
  BY <1>0, Holder
<1>1. /\ Acts(w, "run") /\ Tells(w, workers[w].says, workers[w].ending) /\ Judged(w)
  BY GotoActs DEF MarkWaiting, IInv, TypeOK, Busy
<1>2. launches \in Nat /\ jobs \in [Messages -> Job] /\ jobs[j] \in Job
  BY DEF IInv, TypeOK
<1>3. /\ Writes(j, "waiting_for_salesbot", jobs[j].lease, jobs[j].ai)
      /\ jobs'[j].attempts = jobs[j].attempts /\ jobs'[j].launched = launches + 1
      /\ jobs'[j].run = jobs[j].run /\ jobs'[j].kept = jobs[j].kept
  BY <1>2, MarkWrites
<1>4. /\ HasLease(w) /\ Is(j, {"processing"}) /\ ~jobs[j].ai
      /\ HandOK(w) /\ RowOK(j) /\ workers[w].lease \in Nat \ {0}
  <2>1. HasLease(w) /\ HandOK(w) /\ RowOK(j) /\ workers[w].lease \in Nat \ {0}
    BY <1>0, Holder DEF Owns
  <2> QED
    BY <2>1 DEF HandOK, Launching
<1>5. /\ jobs[j].launched = 0 /\ jobs[j].run = 0 /\ Fresh(j) /\ Unasked(j)
      /\ jobs[j].lease = workers[w].lease
  BY <1>4 DEF RowOK, Unasked, HasLease
<1>6. OwnStep(w)
  BY <1>1, <1>3, <1>4, <1>5 DEF OwnStep, Acts, Writes, Unturned
<1>7. TypeOK'
  BY <1>1, <1>2, <1>3 DEF IInv, TypeOK, Acts, Writes, MarkWaiting
<1>8. Apart'
  <2>1. \A v \in Workers : v # w /\ workers[v].step = "run" => workers[v].job # j
    BY <1>5 DEF IInv, JobsInv, HandOK, Launching
  <2> QED
    BY <1>0, <1>1, <2>1, ApartKept DEF IInv, JobsInv, Acts, AI
<1>9. RunsOK'
  <2>1. \A k \in Messages : jobs'[k].run = jobs[k].run /\ (jobs[k].launched # 0 => jobs'[k].launched # 0)
    BY <1>3, <1>5 DEF Writes
  <2> QED
    BY <2>1, RunsStill, RunNumbers DEF IInv, JobsInv
<1>10. launches + 1 # 0
  BY <1>2
<1>11. /\ \A S : Is(j, S)' <=> "waiting_for_salesbot" \in S
       /\ ~Unasked(j)' /\ Fresh(j)'
  BY <1>3, <1>5 DEF Is, Unasked, Fresh, Writes
<1>12. RowOK(j)'
  BY <1>3, <1>4, <1>5, <1>10, <1>11 DEF RowOK, Writes, Fresh
<1>13. HandOK(w)'
  <2>1. \A r \in DOMAIN runs : runs[r].job # j
    BY <1>5 DEF IInv, JobsInv, RunsOK
  <2>2. Launching(w)'
    BY <1>1, <1>3, <1>10, <1>11, <2>1 DEF Launching, Acts, Writes
  <2>3. Turning(w)' /\ Telling(w)' /\ ~workers'[w].held
    BY <1>1, <1>4 DEF Turning, Telling, HandOK, Withheld, Acts, Judged, AI
  <2> QED
    BY <1>1, <1>3, <1>4, <2>2, <2>3 DEF HandOK, Withheld, Acts, Busy
<1>14. Turn(j)
  BY <1>4, <1>11 DEF Turn, Is, Active
<1> QED
  BY <1>0, <1>1, <1>3, <1>6, <1>7, <1>8, <1>9, <1>12, <1>13, <1>14, OwnInv DEF Acts, Writes

LEMMA LaunchStep ==
  ASSUME IInv, NEW w \in Workers, Launch(w)
  PROVE  IInv'
<1>0. workers[w].step = "launch" /\ workers[w].step \in Busy
  BY DEF Launch, Busy
<1>1. UNCHANGED <<receipts, runs, blocked, faults, turns, heard>>
  BY DEF Launch
<1>2. CASE /\ MarkJob(w, "failed") \/ MarkJob(w, "discarded")
           /\ Done(w) /\ UNCHANGED launches
  BY <1>0, <1>1, <1>2, MarkJobStep DEF Terminal
<1>3. CASE Done(w) /\ UNCHANGED <<jobs, launches>>
  BY <1>0, <1>1, <1>3, LeaveStep
<1>4. CASE Owns(w) /\ MarkWaiting(w)
  BY <1>0, <1>1, <1>4, WaitingStep
<1> QED
  BY <1>2, <1>3, <1>4 DEF Launch

LEMMA AcceptedStep ==
  ASSUME IInv, NEW w \in Workers, workers[w].step = "run", Done(w),
         runs' = Append(runs, [job |-> workers[w].job, iat |-> 0, posts |-> 0]),
         UNCHANGED <<jobs, receipts, launches, blocked, faults, turns, heard>>
  PROVE  IInv'
<1> DEFINE R == [job : Messages, iat : Nat, posts : Nat]
<1>0. workers[w].step \in Busy /\ workers[w].step \notin AI
  BY DEF Busy, AI
<1> PICK j \in Messages : j = workers[w].job
  BY <1>0, Holder
<1>1. Leaves(w)
  BY DoneActs DEF IInv, TypeOK
<1> DEFINE run == [job |-> j, iat |-> 0, posts |-> 0]
<1>2. run \in R /\ run.job = j /\ run.posts = 0
  OBVIOUS
<1>3. runs \in Seq(R) /\ runs' = Append(runs, run)
  BY DEF IInv, TypeOK
<1> HIDE DEF R, run
<1>4. /\ runs' \in Seq(R) /\ Len(runs) \in Nat
      /\ DOMAIN runs = 1..Len(runs) /\ DOMAIN runs' = 1..(Len(runs) + 1)
      /\ runs'[Len(runs) + 1] = run
      /\ \A r \in DOMAIN runs : runs'[r] = runs[r] /\ runs[r] \in R
  BY <1>2, <1>3
<1>5. /\ DOMAIN runs \subseteq DOMAIN runs'
      /\ \A r \in DOMAIN runs' : r \notin DOMAIN runs => r = Len(runs) + 1 /\ runs'[r] = run
  BY <1>4
<1>6. jobs[j].launched # 0 /\ (\A r \in DOMAIN runs : runs[r].job # j)
  BY <1>0, Holder DEF HandOK, Launching
<1>7. OwnStep(w)
  BY <1>1, <1>2, <1>4, <1>5 DEF OwnStep, Leaves, Alike, Unturned
<1>8. TypeOK'
  BY <1>1, <1>4 DEF IInv, TypeOK, Leaves, R
<1>9. HandOK(w)' /\ workers'[w].seen = {} /\ workers'[w].step \notin Busy
  BY <1>1, FreeHand
<1>10. Apart'
  BY <1>0, <1>1, <1>9, ApartKept DEF IInv, JobsInv, Leaves
<1>11. RunsOK'
  <2>1. \A r : Consumed(r)' <=> Consumed(r)
    BY DEF Consumed
  <2>2. \A r \in DOMAIN runs' : r \notin DOMAIN runs =>
          runs'[r].job = j /\ runs'[r].posts = 0 /\ r = Len(runs) + 1
    BY <1>2, <1>5
  <2>3. \A r, s \in DOMAIN runs' : runs'[r].job = runs'[s].job => r = s
    BY <1>4, <1>6, <2>2 DEF IInv, JobsInv, RunsOK
  <2>4. \A r \in DOMAIN runs' : /\ jobs[runs'[r].job].launched # 0
                                /\ runs'[r].posts \in {0, 1}
                                /\ runs'[r].posts # 0 => Consumed(r)
    BY <1>4, <1>6, <2>2 DEF IInv, JobsInv, RunsOK
  <2> QED
    BY <2>1, <2>3, <2>4 DEF IInv, JobsInv, RunsOK
<1>12. RowOK(j)'
  <2>1. Unposted(j)
    BY <1>4, <1>5 DEF Unposted
  <2>2. RowOK(j)
    BY DEF IInv, JobsInv
  <2> QED
    BY <2>1, <2>2, RowStill DEF Alike, Unturned
<1>13. Turn(j)
  BY DEF Turn
<1> QED
  BY <1>0, <1>7, <1>8, <1>9, <1>10, <1>11, <1>12, <1>13, OwnInv

LEMMA RunStep ==
  ASSUME IInv, NEW w \in Workers, RunSalesbot(w)
  PROVE  IInv'
<1>0. workers[w].step = "run" /\ workers[w].step \in Busy
  BY DEF RunSalesbot, Busy
<1>1. Done(w) /\ UNCHANGED <<receipts, launches, blocked, faults, turns, heard>>
  BY DEF RunSalesbot
<1>2. CASE /\ runs' = Append(runs, [job |-> workers[w].job, iat |-> 0, posts |-> 0])
           /\ UNCHANGED jobs
  BY <1>0, <1>1, <1>2, AcceptedStep
<1>3. CASE UNCHANGED <<jobs, runs>>
  BY <1>0, <1>1, <1>3, LeaveStep
<1>4. CASE HasLease(w) /\ jobs' = Finish(workers[w].job, "failed") /\ UNCHANGED runs
  BY <1>0, <1>1, <1>4, CloseStep DEF Terminal
<1> QED
  BY <1>2, <1>3, <1>4 DEF RunSalesbot

-----------------------------------------------------------------------------
(* The AI turn and the delivery of its answer                              *)

\* What a step of the turn of row j leaves alone.
Leased(j) ==
    /\ jobs' \in [Messages -> Job]
    /\ \A k \in Messages : k # j => jobs'[k] = jobs[k]
    /\ jobs'[j].lease = jobs[j].lease /\ jobs'[j].ai = jobs[j].ai
    /\ jobs'[j].attempts = jobs[j].attempts /\ jobs'[j].launched = jobs[j].launched
    /\ jobs'[j].run = jobs[j].run /\ jobs'[j].parts = jobs[j].parts
History(j) ==
    /\ turns' \in [Messages -> Nat] /\ heard' \in [Messages -> Seq({"reply", "apology"})]
    /\ \A k \in Messages : k # j => turns'[k] = turns[k] /\ heard'[k] = heard[k]
Posts(j) ==
    /\ runs' \in Seq([job : Messages, iat : Nat, posts : Nat]) /\ DOMAIN runs' = DOMAIN runs
    /\ \A r \in DOMAIN runs : runs'[r].job = runs[r].job
                                /\ (r # jobs[j].run => runs'[r].posts = runs[r].posts)
    /\ runs'[jobs[j].run].posts \in {0, 1}
TurnFrame(j) ==
    /\ Leased(j) /\ History(j) /\ Posts(j)
    /\ UNCHANGED <<receipts, launches, faults>>
    /\ blocked \subseteq blocked' /\ blocked' \subseteq Leads

\* The row stays as it is, or the answer is about to be posted.
Onward(w, j) ==
    \/ jobs'[j].st = jobs[j].st
    \/ HasLease(w) /\ Is(j, {"processing"}) /\ Is(j, {"continuing"})'

\* At a step of the turn.
LEMMA AtTurn ==
  ASSUME IInv, NEW w \in Workers, workers[w].step \in AI
  PROVE  /\ workers[w].step \in Busy /\ workers[w].step \notin {"launch", "run"}
         /\ workers[w].job \in Messages /\ workers[w].lease \in Nat \ {0}
         /\ HandOK(w) /\ Turning(w) /\ Telling(w) /\ Withheld(w) /\ RowOK(workers[w].job)
         /\ ~Unasked(workers[w].job)
         /\ ~Is(workers[w].job, {"waiting_for_salesbot", "ready"})
<1>1. workers[w].step \in Busy /\ workers[w].step \notin {"launch", "run"}
  BY DEF Busy, AI
<1>2. /\ workers[w].job \in Messages /\ workers[w].lease \in Nat \ {0}
      /\ HandOK(w) /\ RowOK(workers[w].job)
  BY <1>1, Holder
<1>3. Turning(w) /\ Telling(w) /\ Withheld(w)
  BY <1>2 DEF HandOK
<1>4. ~Unasked(workers[w].job) /\ ~Is(workers[w].job, {"waiting_for_salesbot", "ready"})
  BY <1>3, Statuses DEF Turning, Unasked, Is, Terminal
<1> QED
  BY <1>1, <1>2, <1>3, <1>4

LEMMA TurnRow ==
  ASSUME NEW j \in Messages, RowOK(j), ~Unasked(j), ~Is(j, {"waiting_for_salesbot", "ready"}),
         NEW w \in Workers, Leased(j), Onward(w, j), DOMAIN runs' = DOMAIN runs,
         HasLease(w) /\ Is(j, {"processing"}) => jobs[j].ai,
         jobs'[j].kept => heard'[j] = <<"reply">>, jobs[j].kept => jobs'[j].kept,
         turns'[j] \in {0, 1}, heard'[j] \in {<<>>, <<"reply">>, <<"apology">>}
  PROVE  RowOK(j)'
<1>1. CASE jobs'[j].st = jobs[j].st
  <2>1. (Unasked(j)' <=> Unasked(j)) /\ \A S : Is(j, S)' <=> Is(j, S)
    BY <1>1 DEF Is, Unasked, Leased
  <2>2. ~Unasked(j)' /\ ~Is(j, {"waiting_for_salesbot", "ready"})' /\ ~Is(j, {"waiting_for_salesbot"})'
        /\ ~Is(j, {"ready"})'
    BY <2>1 DEF Is
  <2>3. /\ Is(j, {"continuing"})' => jobs'[j].ai
        /\ Is(j, {"processing", "continuing"})' /\ jobs'[j].ai => jobs'[j].run # 0
        /\ Is(j, {"sent"})' => jobs'[j].kept
    BY <2>1 DEF RowOK, Leased
  <2>4. /\ jobs'[j].lease \in {0, jobs'[j].attempts}
        /\ jobs'[j].lease # 0 => Is(j, {"processing", "waiting_for_salesbot", "continuing"})'
        /\ jobs'[j].run \in DOMAIN runs' \cup {0}
    BY <2>1 DEF RowOK, Leased
  <2> QED
    BY <2>2, <2>3, <2>4 DEF RowOK
<1>2. CASE HasLease(w) /\ Is(j, {"processing"}) /\ Is(j, {"continuing"})'
  <2>1. ~Unasked(j)' /\ \A S : Is(j, S)' <=> "continuing" \in S
    BY <1>2 DEF Is, Unasked
  <2>2. ~Is(j, {"waiting_for_salesbot", "ready"})' /\ ~Is(j, {"waiting_for_salesbot"})'
        /\ ~Is(j, {"ready"})' /\ ~Is(j, {"sent"})'
    BY <2>1
  <2>3. jobs'[j].ai /\ jobs'[j].run # 0
    <3>1. jobs[j].ai /\ Is(j, {"processing", "continuing"})
      BY <1>2 DEF Is
    <3>2. jobs[j].run # 0
      BY <3>1 DEF RowOK
    <3> QED
      BY <3>1, <3>2 DEF Leased
  <2>4. /\ jobs'[j].lease \in {0, jobs'[j].attempts}
        /\ Is(j, {"processing", "waiting_for_salesbot", "continuing"})'
        /\ jobs'[j].run \in DOMAIN runs' \cup {0}
    BY <2>1 DEF RowOK, Leased
  <2> QED
    BY <2>1, <2>2, <2>3, <2>4 DEF RowOK
<1> QED
  BY <1>1, <1>2 DEF Onward

LEMMA TurnInv ==
  ASSUME IInv, NEW w \in Workers, NEW j \in Messages, workers[w].job = j,
         workers[w].step \in AI, NEW s \in AI, Acts(w, s), TurnFrame(j), Onward(w, j),
         jobs'[j].kept => heard'[j] = <<"reply">>, jobs[j].kept => jobs'[j].kept,
         turns'[j] \in {0, 1}, heard'[j] \in {<<>>, <<"reply">>, <<"apology">>}, HandOK(w)'
  PROVE  IInv'
<1>1. /\ workers[w].step \in Busy /\ workers[w].step \notin {"launch", "run"}
      /\ Turning(w) /\ RowOK(j) /\ workers[w].lease \in Nat \ {0}
      /\ ~Unasked(j) /\ ~Is(j, {"waiting_for_salesbot", "ready"})
  BY AtTurn
<1>2. jobs[j].run \in DOMAIN runs /\ (HasLease(w) /\ Is(j, {"processing"}) => jobs[j].ai)
  BY <1>1, Statuses DEF Turning, Is, Active
<1>3. OwnStep(w)
  <2>1. \/ Alike(j)
        \/ /\ HasLease(w) /\ jobs'[j].lease \in {0, workers[w].lease}
           /\ jobs'[j].attempts = jobs[j].attempts
           /\ jobs[j].launched # 0 => jobs'[j].launched # 0
    BY DEF Onward, TurnFrame, Leased, Alike, HasLease
  <2>2. /\ \A r \in DOMAIN runs : /\ runs'[r].job = runs[r].job
                                  /\ r = jobs[j].run \/ runs'[r].posts = runs[r].posts
        /\ DOMAIN runs' = DOMAIN runs
    BY DEF TurnFrame, Posts
  <2>3. \A k \in Messages : k # j => jobs'[k] = jobs[k] /\ turns'[k] = turns[k] /\ heard'[k] = heard[k]
    BY DEF TurnFrame, Leased, History
  <2> QED
    BY <2>1, <2>2, <2>3 DEF OwnStep, Acts, TurnFrame
<1>4. TypeOK'
  BY DEF IInv, TypeOK, Acts, TurnFrame, Leased, History, Posts
<1>5. Apart'
  <2>1. s # "run"
    BY DEF AI
  <2> QED
    BY <1>1, <2>1, ApartKept DEF IInv, JobsInv, Acts
<1>6. RunsOK'
  <2>1. \A k \in Messages : jobs'[k].run = jobs[k].run /\ jobs'[k].launched = jobs[k].launched
    BY DEF TurnFrame, Leased
  <2>2. Consumed(jobs[j].run)' /\ \A r \in DOMAIN runs : Consumed(r)' <=> Consumed(r)
    BY <2>1 DEF Consumed
  <2>3. /\ DOMAIN runs' = DOMAIN runs
        /\ \A r \in DOMAIN runs :
             /\ runs'[r].job = runs[r].job /\ runs[r].job \in Messages
             /\ r # jobs[j].run => runs'[r].posts = runs[r].posts
        /\ runs'[jobs[j].run].posts \in {0, 1}
    BY RunNumbers DEF TurnFrame, Posts, IInv
  <2>4. \A r, t \in DOMAIN runs' : runs'[r].job = runs'[t].job => r = t
    BY <2>3 DEF IInv, JobsInv, RunsOK
  <2>5. \A r \in DOMAIN runs' : jobs'[runs'[r].job].launched # 0
    BY <2>1, <2>3 DEF IInv, JobsInv, RunsOK
  <2>6. ASSUME NEW r \in DOMAIN runs
        PROVE  runs'[r].posts \in {0, 1} /\ (runs'[r].posts # 0 => Consumed(r)')
    <3>1. CASE r = jobs[j].run
      BY <2>2, <2>3, <3>1 DEF Consumed
    <3>2. CASE r # jobs[j].run
      BY <2>2, <2>3, <3>2 DEF IInv, JobsInv, RunsOK
    <3> QED
      BY <3>1, <3>2
  <2>7. \A i, k \in Messages : jobs'[i].run = jobs'[k].run /\ jobs'[i].run # 0 => i = k
    BY <2>1 DEF IInv, JobsInv, RunsOK
  <2> QED
    BY <2>3, <2>4, <2>5, <2>6, <2>7 DEF RunsOK
<1>7. RowOK(j)'
  <2>1. Leased(j) /\ DOMAIN runs' = DOMAIN runs
    BY DEF TurnFrame, Posts
  <2> QED
    BY <1>1, <1>2, <2>1, TurnRow
<1>8. Turn(j)
  BY DEF Turn, Onward, Is, Active
<1>9. /\ UNCHANGED receipts /\ workers'[w].seen \subseteq workers[w].seen
      /\ jobs'[j].parts = jobs[j].parts
  BY DEF TurnFrame, Leased, Acts
<1> QED
  BY <1>1, <1>3, <1>4, <1>5, <1>6, <1>7, <1>8, <1>9, OwnInv

\* Nothing but the task changes, or nothing but the row.
LEMMA QuietFrame ==
  ASSUME IInv, NEW j \in Messages, jobs[j].run \in DOMAIN runs, Leased(j),
         UNCHANGED <<receipts, runs, launches, blocked, faults, turns, heard>>
  PROVE  TurnFrame(j) /\ History(j) /\ Posts(j) /\ turns'[j] \in {0, 1}
         /\ heard'[j] \in {<<>>, <<"reply">>, <<"apology">>}
<1>1. RowOK(j) /\ RunsOK /\ TypeOK
  BY DEF IInv, JobsInv
<1>2. Posts(j)
  BY <1>1 DEF Posts, TypeOK, RunsOK
<1>3. History(j)
  BY <1>1 DEF History, TypeOK
<1> QED
  BY <1>1, <1>2, <1>3 DEF TurnFrame, TypeOK, RowOK

LEMMA QuietLeased ==
  ASSUME IInv, UNCHANGED jobs, NEW j \in Messages
  PROVE  Leased(j)
  BY DEF IInv, TypeOK, Leased

LEMMA TurningOn ==
  ASSUME NEW w \in Workers, NEW j \in Messages, workers[w].job = j, workers[w].step \in AI,
         Turning(w), NEW s \in AI, Acts(w, s), TurnFrame(j), Onward(w, j),
         HasLease(w) /\ s \notin {"post", "store", "end"} => Is(j, {"processing"})',
         HasLease(w) /\ s \in {"post", "store"} => Is(j, {"continuing"})',
         s \in {"prepare", "generate"} => turns'[j] = 0,
         s \in {"prepare", "generate", "check", "media"} => heard'[j] = <<>>,
         s \notin {"store", "end"} => runs'[jobs[j].run].posts = 0,
         s \in {"keep", "store"} => heard'[j] = <<"reply">>
  PROVE  Turning(w)' /\ Launching(w)'
<1>1. /\ workers'[w].job = j /\ workers'[w].step = s
      /\ jobs'[j].run = jobs[j].run /\ DOMAIN runs' = DOMAIN runs
      /\ HasLease(w)' <=> HasLease(w)
  BY DEF Acts, TurnFrame, Leased, Posts, HasLease
<1>2. \/ HasLease(w) /\ jobs'[j].ai /\ Is(j, {"processing", "continuing"})'
      \/ Is(j, Terminal)'
  <2>1. (HasLease(w) /\ jobs[j].ai /\ Is(j, {"processing", "continuing"})) \/ Is(j, Terminal)
    BY DEF Turning
  <2>2. jobs[j].ai => jobs'[j].ai
    BY DEF TurnFrame, Leased
  <2>3. CASE jobs'[j].st = jobs[j].st
    <3>1. \A S : Is(j, S)' <=> Is(j, S)
      BY <2>3 DEF Is
    <3> QED
      BY <2>1, <2>2, <3>1
  <2>4. CASE HasLease(w) /\ Is(j, {"processing"}) /\ Is(j, {"continuing"})'
    <3>1. ~Is(j, Terminal) /\ Is(j, {"processing", "continuing"})'
      BY <2>4 DEF Is, Terminal
    <3> QED
      BY <2>1, <2>2, <2>4, <3>1
  <2> QED
    BY <2>3, <2>4 DEF Onward
<1>3. jobs[j].run \in DOMAIN runs
  BY DEF Turning
<1>4. Turning(w)'
  BY <1>1, <1>2, <1>3 DEF Turning
<1>5. s \notin {"launch", "run"}
  BY DEF AI
<1> QED
  BY <1>1, <1>4, <1>5 DEF Launching

LEMMA ToMark ==
  ASSUME IInv, NEW w \in Workers, NEW j \in Messages, workers[w].job = j,
         workers[w].step \in {"prepare", "generate", "check", "media", "keep"},
         NEW says \in {"nothing", "reply", "apology"}, NEW ending \in Terminal,
         Answers(w, says, ending), TurnFrame(j), jobs'[j].st = jobs[j].st, runs' = runs,
         jobs'[j].kept => heard'[j] = <<"reply">>, jobs[j].kept => jobs'[j].kept,
         turns'[j] \in {0, 1}, heard'[j] = heard[j],
         says = "reply" => ending = "sent" /\ ~workers[w].held,
         says = "apology" => ending # "sent",
         says # "nothing" => heard[j] = <<>>,
         says = "nothing" /\ ending = "sent" => heard[j] = <<"reply">> /\ jobs'[j].kept
  PROVE  IInv'
<1>1. /\ workers[w].step \in AI /\ workers[w].step \notin {"post", "store", "end"}
      /\ "mark" \in AI
  BY DEF AI
<1>2. /\ Turning(w) /\ Withheld(w) /\ HandOK(w) /\ RowOK(j)
  BY <1>1, AtTurn
<1>3. Acts(w, "mark") /\ Tells(w, says, ending) /\ Judged(w)
  BY AnswersActs DEF IInv, TypeOK
<1>4. Onward(w, j)
  BY DEF Onward
<1>5. Turning(w)' /\ Launching(w)'
  <2>1. HasLease(w) => Is(j, {"processing"})'
    BY <1>1, <1>2 DEF Turning, Is
  <2>2. runs'[jobs[j].run].posts = 0
    BY <1>1, <1>2 DEF Turning
  <2> QED
    BY <1>1, <1>2, <1>3, <1>4, <2>1, <2>2, TurningOn
<1>6. Telling(w)'
  BY <1>3 DEF Telling, Acts, Tells
<1>7. Withheld(w)'
  <2>1. workers'[w].held => /\ ~workers'[w].escalated /\ Lead(j) \in blocked' /\ says # "reply"
    BY <1>2, <1>3 DEF Withheld, Judged, TurnFrame
  <2> QED
    BY <1>3, <2>1 DEF Withheld, Acts, Tells, Lead, Chat
<1>8. HandOK(w)'
  <2>1. workers'[w].job = j /\ workers'[w].lease \in 1..jobs'[j].attempts /\ workers'[w].step = "mark"
    BY <1>1, <1>2, <1>3 DEF HandOK, Busy, Acts, TurnFrame, Leased
  <2> QED
    BY <1>5, <1>6, <1>7, <2>1 DEF HandOK
<1>9. heard'[j] \in {<<>>, <<"reply">>, <<"apology">>}
  BY <1>2 DEF RowOK
<1> QED
  BY <1>1, <1>3, <1>4, <1>8, <1>9, TurnInv

LEMMA ToEnd ==
  ASSUME IInv, NEW w \in Workers, NEW j \in Messages, workers[w].job = j,
         workers[w].step \in {"media", "keep", "post", "store"}, NEW ending \in Terminal,
         Acts(w, "end"), Tells(w, workers[w].says, ending), Judged(w),
         TurnFrame(j), jobs'[j].st = jobs[j].st,
         jobs'[j].kept => heard'[j] = <<"reply">>, jobs[j].kept => jobs'[j].kept,
         turns'[j] \in {0, 1}, heard'[j] \in {<<>>, <<"reply">>, <<"apology">>},
         ending = "sent" => heard'[j] = <<"reply">> /\ (HasLease(w) => jobs'[j].kept)
  PROVE  IInv'
<1>1. workers[w].step \in AI /\ "end" \in AI
  BY DEF AI
<1>2. /\ Turning(w) /\ Withheld(w) /\ HandOK(w) /\ RowOK(j)
  BY <1>1, AtTurn
<1>4. Onward(w, j)
  BY DEF Onward
<1>5. Turning(w)' /\ Launching(w)'
  BY <1>1, <1>2, <1>4, TurningOn
<1>6. Telling(w)'
  <2>1. HasLease(w)' <=> HasLease(w)
    BY DEF Acts, TurnFrame, Leased, HasLease
  <2> QED
    BY <2>1 DEF Telling, Acts, Tells
<1>7. Withheld(w)'
  <2>1. workers'[w].held =>
          /\ ~workers'[w].escalated /\ Lead(j) \in blocked' /\ workers'[w].says # "reply"
    BY <1>2 DEF Withheld, Judged, TurnFrame, Tells
  <2> QED
    BY <2>1 DEF Withheld, Acts, Lead, Chat
<1>8. HandOK(w)'
  <2>1. workers'[w].job = j /\ workers'[w].lease \in 1..jobs'[j].attempts /\ workers'[w].step = "end"
    BY <1>1, <1>2 DEF HandOK, Busy, Acts, TurnFrame, Leased
  <2> QED
    BY <1>5, <1>6, <1>7, <2>1 DEF HandOK
<1> QED
  BY <1>1, <1>4, <1>8, TurnInv

\* Any other step of the turn, to one before the marking or after it.
LEMMA ToNext ==
  ASSUME IInv, NEW w \in Workers, NEW j \in Messages, workers[w].job = j,
         workers[w].step \in AI, NEW s \in AI \ {"mark", "end"}, Acts(w, s), TurnFrame(j), Onward(w, j),
         jobs'[j].kept => heard'[j] = <<"reply">>, jobs[j].kept => jobs'[j].kept,
         turns'[j] \in {0, 1}, heard'[j] \in {<<>>, <<"reply">>, <<"apology">>},
         Turning(w)' /\ Launching(w)', Telling(w)', Withheld(w)'
  PROVE  IInv'
<1>1. HandOK(w)
  BY AtTurn
<1>2. HandOK(w)'
  <2>1. workers'[w].job = j /\ workers'[w].lease \in 1..jobs'[j].attempts /\ workers'[w].step = s
    BY <1>1 DEF HandOK, Busy, Acts, TurnFrame, Leased
  <2>2. s \notin {"free", "claim"}
    BY DEF AI
  <2> QED
    BY <2>1, <2>2 DEF HandOK
<1> QED
  BY <1>2, TurnInv

LEMMA RetryStep ==
  ASSUME IInv, NEW w \in Workers, workers[w].step = "prepare", Retry(w), Done(w),
         UNCHANGED <<receipts, runs, launches, blocked, faults, turns, heard>>
  PROVE  IInv'
<1>0. workers[w].step \in AI /\ workers[w].step \in Busy
  BY DEF AI, Busy
<1>1. CASE ~Owns(w)
  BY <1>0, <1>1, LeaveStep DEF Retry
<1>2. CASE Owns(w)
  <2> PICK j \in Messages : j = workers[w].job
    BY <1>0, AtTurn
  <2>1. Turning(w) /\ RowOK(j) /\ HandOK(w)
    BY <1>0, AtTurn
  <2>2. /\ Is(j, {"processing"}) /\ HasLease(w) /\ jobs \in [Messages -> Job]
        /\ jobs[j].run \in Nat
    BY <1>2, JobFields DEF Owns, Is, IInv, TypeOK
  <2>3. /\ Writes(j, "ready", 0, FALSE) /\ Keeps(j)
    BY <1>2, <2>2, ReadyWrites DEF Retry, Keeps
  <2>4. Leaves(w)
    BY DoneActs DEF IInv, TypeOK
  <2>5. OwnStep(w)
    BY <1>0, <2>2, <2>3, <2>4 DEF OwnStep, Leaves, Writes, Keeps, Unturned
  <2>6. TypeOK'
    BY <2>3, <2>4 DEF IInv, TypeOK, Leaves, Writes
  <2>7. HandOK(w)' /\ workers'[w].seen = {} /\ workers'[w].step \notin Busy
    BY <2>4, FreeHand
  <2>8. Apart'
    BY <1>0, <2>4, <2>7, ApartKept DEF IInv, JobsInv, Leaves
  <2>9. RunsOK'
    <3>1. \A k \in Messages : jobs'[k].run = jobs[k].run /\ jobs'[k].launched = jobs[k].launched
      BY <2>3 DEF Writes, Keeps
    <3> QED
      BY <3>1, RunsStill, RunNumbers DEF IInv, JobsInv
  <2>10. RowOK(j)'
    <3>1. \A S : Is(j, S)' <=> "ready" \in S
      BY <2>3 DEF Is, Writes
    <3>2. /\ jobs[j].run \in DOMAIN runs /\ jobs[j].run # 0 /\ runs[jobs[j].run].posts = 0
          /\ turns[j] = 0 /\ heard[j] = <<>>
      BY <1>0, <2>1, RunNumbers DEF Turning, IInv
    <3>3. ~jobs[j].kept
      BY <2>1, <3>2 DEF RowOK
    <3>4. Fresh(j)' /\ ~Unasked(j)'
      BY <2>3, <3>1, <3>2, <3>3 DEF Fresh, Unasked, Keeps
    <3> QED
      BY <2>3, <3>1, <3>2, <3>4 DEF RowOK, Fresh, Writes, Keeps
  <2>11. Turn(j)
    BY <2>2, <2>3 DEF Turn, Is, Active, Writes
  <2> QED
    BY <1>0, <2>3, <2>5, <2>6, <2>7, <2>8, <2>9, <2>10, <2>11, OwnInv DEF Writes
<1> QED
  BY <1>1, <1>2

LEMMA PrepareStep ==
  ASSUME IInv, NEW w \in Workers, Prepare(w)
  PROVE  IInv'
<1>0. /\ workers[w].step = "prepare" /\ workers[w].step \in AI
      /\ UNCHANGED <<receipts, runs, launches, blocked, faults, turns, heard>>
  BY DEF Prepare, AI
<1> PICK j \in Messages : j = workers[w].job
  BY <1>0, AtTurn
<1>1. Turning(w) /\ Withheld(w) /\ RowOK(j) /\ ~workers[w].held
  BY <1>0, AtTurn DEF Withheld
<1>2. heard[j] = <<>> /\ turns[j] = 0 /\ jobs[j].run \in DOMAIN runs
  BY <1>0, <1>1 DEF Turning
<1>3. CASE Retry(w) /\ Done(w)
  BY <1>0, <1>3, RetryStep
<1>4. CASE /\ UNCHANGED jobs
           /\ \/ Answers(w, "apology", "discarded") \/ Answers(w, "apology", "failed")
              \/ Answers(w, "nothing", "discarded") \/ Goto(w, "generate")
  <2>1. /\ TurnFrame(j) /\ turns'[j] \in {0, 1}
        /\ heard'[j] \in {<<>>, <<"reply">>, <<"apology">>}
    BY <1>0, <1>2, <1>4, QuietFrame, QuietLeased
  <2>2. (jobs'[j].kept => heard'[j] = <<"reply">>) /\ (jobs[j].kept => jobs'[j].kept)
    BY <1>0, <1>1, <1>4 DEF RowOK
  <2>3. CASE \/ Answers(w, "apology", "discarded") \/ Answers(w, "apology", "failed")
             \/ Answers(w, "nothing", "discarded")
    BY <1>0, <1>1, <1>2, <1>4, <2>1, <2>2, <2>3, ToMark DEF Terminal
  <2>4. CASE Goto(w, "generate")
    <3>1. Acts(w, "generate") /\ Judged(w)
      BY <2>4, GotoActs DEF Goto, Busy, AI, IInv, TypeOK
    <3>2. Onward(w, j)
      BY <1>4 DEF Onward
    <3>3. Turning(w)' /\ Launching(w)'
      <4>1. HasLease(w) => Is(j, {"processing"})'
        BY <1>0, <1>1, <1>4 DEF Turning, Is
      <4>2. runs'[jobs[j].run].posts = 0
        BY <1>0, <1>1 DEF Turning
      <4> QED
        BY <1>0, <1>1, <1>2, <2>1, <3>1, <3>2, <4>1, <4>2, TurningOn DEF AI
    <3>4. Telling(w)' /\ Withheld(w)'
      BY <1>0, <1>1, <3>1 DEF Telling, Withheld, Acts, Judged
    <3> QED
      BY <1>0, <2>1, <2>2, <3>1, <3>2, <3>3, <3>4, ToNext DEF AI
  <2> QED
    BY <1>4, <2>3, <2>4
<1> QED
  BY <1>3, <1>4 DEF Prepare

LEMMA GenerateStep ==
  ASSUME IInv, NEW w \in Workers, Generate(w)
  PROVE  IInv'
<1>0. /\ workers[w].step = "generate" /\ workers[w].step \in AI
      /\ UNCHANGED <<jobs, receipts, runs, launches, faults, heard>>
  BY DEF Generate, AI
<1> PICK j \in Messages : j = workers[w].job
  BY <1>0, AtTurn
<1>1. Turning(w) /\ Withheld(w) /\ RowOK(j) /\ ~workers[w].held
  BY <1>0, AtTurn DEF Withheld
<1>2. /\ heard[j] = <<>> /\ turns[j] = 0 /\ jobs[j].run \in DOMAIN runs
      /\ runs[jobs[j].run].posts = 0 /\ (HasLease(w) => Is(j, {"processing"}))
  BY <1>0, <1>1 DEF Turning
<1>3. turns' = [turns EXCEPT ![j] = 1] /\ turns \in [Messages -> Nat] /\ blocked \subseteq Leads
  <2>1. turns' = [turns EXCEPT ![j] = turns[j] + 1]
    BY DEF Generate
  <2>2. turns[j] + 1 = 1
    BY <1>2
  <2> QED
    BY <2>1, <2>2 DEF IInv, TypeOK
<1>4. blocked \subseteq blocked' /\ blocked' \subseteq Leads
  <2>1. Lead(j) \in Leads
    BY KommoAssumption DEF Lead, Leads, Chat
  <2>2. blocked' = blocked \/ blocked' = blocked \cup {Lead(j)}
    BY DEF Generate
  <2> QED
    BY <1>3, <2>1, <2>2
<1>5. TurnFrame(j)
  <2>1. Leased(j)
    BY <1>0, QuietLeased
  <2>2. History(j)
    BY <1>0, <1>3 DEF History, IInv, TypeOK
  <2>3. Posts(j)
    BY <1>0, <1>2 DEF Posts, IInv, TypeOK
  <2> QED
    BY <1>0, <1>4, <2>1, <2>2, <2>3 DEF TurnFrame
<1>6. /\ turns'[j] \in {0, 1} /\ heard'[j] \in {<<>>, <<"reply">>, <<"apology">>}
      /\ jobs'[j].kept => heard'[j] = <<"reply">>
      /\ jobs[j].kept => jobs'[j].kept
  BY <1>0, <1>1, <1>2, <1>3 DEF RowOK
<1>7. CASE Answers(w, "apology", "discarded")
  BY <1>0, <1>1, <1>2, <1>5, <1>6, <1>7, ToMark DEF Terminal
<1>8. ASSUME NEW b \in BOOLEAN, NEW e \in BOOLEAN, Acts(w, "check"),
             workers'[w].escalated = e, workers'[w].held = b, b => ~e /\ Lead(j) \in blocked'
      PROVE  IInv'
  <2>1. Onward(w, j)
    BY <1>0 DEF Onward
  <2>2. Turning(w)' /\ Launching(w)'
    <3>1. HasLease(w) => Is(j, {"processing"})'
      BY <1>0, <1>2 DEF Is
    <3> QED
      BY <1>0, <1>1, <1>2, <1>5, <1>8, <2>1, <3>1, TurningOn DEF AI
  <2>3. Telling(w)'
    BY <1>8 DEF Telling, Acts
  <2>4. Withheld(w)'
    BY <1>4, <1>8 DEF Withheld, Acts, Lead, Chat
  <2> QED
    BY <1>0, <1>5, <1>6, <1>8, <2>1, <2>2, <2>3, <2>4, ToNext DEF AI
<1>9. CASE workers' = [workers EXCEPT ![w].step = "check", ![w].held = (Lead(j) \in blocked)]
  <2> DEFINE b == Lead(j) \in blocked
  <2>0. b \in BOOLEAN /\ (b => Lead(j) \in blocked)
    OBVIOUS
  <2>3. workers' = [workers EXCEPT ![w].step = "check", ![w].held = b]
    BY <1>9
  <2> HIDE DEF b
  <2> PICK e \in BOOLEAN : e = workers[w].escalated
    BY <1>0, AtTurn, Holder, TaskFields
  <2>1. Acts(w, "check") /\ workers'[w].escalated = e /\ workers'[w].held = b
    BY <2>0, <2>3, CheckActs DEF IInv, TypeOK
  <2>2. ~e
    BY <1>0, <1>1 DEF Withheld
  <2> QED
    BY <1>4, <1>8, <2>0, <2>1, <2>2
<1>10. CASE workers' = [workers EXCEPT ![w].step = "check", ![w].escalated = TRUE]
  <2> PICK b \in BOOLEAN : b = workers[w].held
    BY <1>0, AtTurn, Holder, TaskFields
  <2>1. Acts(w, "check") /\ workers'[w].escalated = TRUE /\ workers'[w].held = b
    BY <1>10, CheckActs DEF IInv, TypeOK
  <2> QED
    BY <1>1, <1>8, <2>1
<1> QED
  BY <1>7, <1>9, <1>10 DEF Generate

LEMMA HearsOnce ==
  ASSUME IInv, NEW j \in Messages, heard[j] = <<>>, NEW what \in {"reply", "apology"},
         heard' = [heard EXCEPT ![j] = Append(@, what)]
  PROVE  /\ heard' \in [Messages -> Seq({"reply", "apology"})] /\ heard'[j] = <<what>>
         /\ \A k \in Messages : k # j => heard'[k] = heard[k]
         /\ heard'[j] \in {<<>>, <<"reply">>, <<"apology">>}
<1>1. heard \in [Messages -> Seq({"reply", "apology"})]
  BY DEF IInv, TypeOK
<1>2. Append(heard[j], what) = <<what>> /\ <<what>> \in Seq({"reply", "apology"})
  OBVIOUS
<1> QED
  BY <1>1, <1>2

\* The task changes, and the history by one answer.
LEMMA HearsFrame ==
  ASSUME IInv, NEW j \in Messages, jobs[j].run \in DOMAIN runs, Leased(j),
         heard' \in [Messages -> Seq({"reply", "apology"})],
         \A k \in Messages : k # j => heard'[k] = heard[k],
         UNCHANGED <<receipts, runs, launches, blocked, faults, turns>>
  PROVE  TurnFrame(j) /\ turns'[j] \in {0, 1}
<1>1. RowOK(j) /\ RunsOK /\ TypeOK
  BY DEF IInv, JobsInv
<1>2. Posts(j)
  BY <1>1 DEF Posts, TypeOK, RunsOK
<1>3. History(j)
  BY <1>1 DEF History, TypeOK
<1> QED
  BY <1>1, <1>2, <1>3 DEF TurnFrame, TypeOK, RowOK

LEMMA CheckStep ==
  ASSUME IInv, NEW w \in Workers, Check(w)
  PROVE  IInv'
<1>0. /\ workers[w].step = "check" /\ workers[w].step \in AI
      /\ UNCHANGED <<jobs, receipts, runs, launches, blocked, faults, turns, heard>>
  BY DEF Check, AI
<1> PICK j \in Messages : j = workers[w].job
  BY <1>0, AtTurn
<1>1. Turning(w) /\ Withheld(w) /\ RowOK(j)
  BY <1>0, AtTurn
<1>2. heard[j] = <<>> /\ jobs[j].run \in DOMAIN runs
  BY <1>0, <1>1 DEF Turning
<1>3. /\ TurnFrame(j) /\ turns'[j] \in {0, 1}
      /\ heard'[j] \in {<<>>, <<"reply">>, <<"apology">>}
  BY <1>0, <1>2, QuietFrame, QuietLeased
<1>4. (jobs'[j].kept => heard'[j] = <<"reply">>) /\ (jobs[j].kept => jobs'[j].kept)
  BY <1>0, <1>1 DEF RowOK
<1>5. CASE Answers(w, "nothing", "discarded") \/ Answers(w, "apology", "discarded")
  BY <1>0, <1>1, <1>2, <1>3, <1>4, <1>5, ToMark DEF Terminal
<1>6. CASE /\ workers[w].escalated \/ Lead(j) \notin blocked
           /\ Answers(w, "reply", "sent")
  <2>1. ~workers[w].held
    BY <1>1, <1>6 DEF Withheld
  <2> QED
    BY <1>0, <1>1, <1>2, <1>3, <1>4, <1>6, <2>1, ToMark DEF Terminal
<1>7. CASE /\ workers[w].escalated \/ Lead(j) \notin blocked
           /\ Goto(w, "media")
  <2>1. ~workers[w].held
    BY <1>1, <1>7 DEF Withheld
  <2>2. Acts(w, "media") /\ Judged(w)
    BY <1>7, GotoActs DEF Goto, Busy, AI, IInv, TypeOK
  <2>3. Onward(w, j)
    BY <1>0 DEF Onward
  <2>4. Turning(w)' /\ Launching(w)'
    <3>1. HasLease(w) => Is(j, {"processing"})'
      BY <1>0, <1>1 DEF Turning, Is
    <3>2. runs'[jobs[j].run].posts = 0
      BY <1>0, <1>1 DEF Turning
    <3> QED
      BY <1>0, <1>1, <1>2, <1>3, <2>2, <2>3, <3>1, <3>2, TurningOn DEF AI
  <2>5. Telling(w)' /\ Withheld(w)'
    BY <2>1, <2>2 DEF Telling, Withheld, Acts, Judged
  <2> QED
    BY <1>0, <1>3, <1>4, <2>2, <2>3, <2>4, <2>5, ToNext DEF AI
<1> QED
  BY <1>5, <1>6, <1>7 DEF Check

LEMMA MediaStep ==
  ASSUME IInv, NEW w \in Workers, Media(w)
  PROVE  IInv'
<1>0. /\ workers[w].step = "media" /\ workers[w].step \in AI
      /\ UNCHANGED <<jobs, receipts, runs, launches, blocked, faults, turns>>
  BY DEF Media, AI
<1> PICK j \in Messages : j = workers[w].job
  BY <1>0, AtTurn
<1>1. Turning(w) /\ Withheld(w) /\ RowOK(j) /\ ~workers[w].held
  BY <1>0, AtTurn DEF Withheld
<1>2. heard[j] = <<>> /\ jobs[j].run \in DOMAIN runs
  BY <1>0, <1>1 DEF Turning
<1>3. ~jobs[j].kept /\ ~jobs'[j].kept /\ Leased(j) /\ Onward(w, j)
  BY <1>0, <1>1, <1>2, QuietLeased DEF RowOK, Onward
<1>4. CASE Answers(w, "apology", "discarded") /\ UNCHANGED heard
  <2>1. TurnFrame(j) /\ turns'[j] \in {0, 1}
    BY <1>0, <1>2, <1>3, <1>4, QuietFrame
  <2> QED
    BY <1>0, <1>1, <1>2, <1>3, <1>4, <2>1, ToMark DEF Terminal
<1>5. CASE (Hears(w, "reply") \/ UNCHANGED heard) /\ Ends(w, "delivery_unknown")
  <2>1. /\ heard' \in [Messages -> Seq({"reply", "apology"})]
        /\ \A k \in Messages : k # j => heard'[k] = heard[k]
        /\ heard'[j] \in {<<>>, <<"reply">>, <<"apology">>}
    <3>1. CASE Hears(w, "reply")
      BY <1>2, <3>1, HearsOnce DEF Hears
    <3>2. CASE UNCHANGED heard
      BY <1>2, <3>2 DEF IInv, TypeOK
    <3> QED
      BY <1>5, <3>1, <3>2
  <2>2. TurnFrame(j) /\ turns'[j] \in {0, 1}
    BY <1>0, <1>2, <1>3, <2>1, HearsFrame
  <2>3. Acts(w, "end") /\ Tells(w, workers[w].says, "delivery_unknown") /\ Judged(w)
    BY <1>5, EndsActs DEF Terminal, IInv, TypeOK
  <2> QED
    BY <1>0, <1>3, <2>1, <2>2, <2>3, ToEnd DEF Terminal
<1>6. ASSUME Hears(w, "reply"), NEW status \in {"sent", "delivery_unknown"},
             workers' = [workers EXCEPT ![w].step = "keep", ![w].media = TRUE,
                                        ![w].ending = status]
      PROVE  IInv'
  <2>1. /\ heard' \in [Messages -> Seq({"reply", "apology"})] /\ heard'[j] = <<"reply">>
        /\ \A k \in Messages : k # j => heard'[k] = heard[k]
        /\ heard'[j] \in {<<>>, <<"reply">>, <<"apology">>}
    BY <1>2, <1>6, HearsOnce DEF Hears
  <2>2. TurnFrame(j) /\ turns'[j] \in {0, 1}
    BY <1>0, <1>2, <1>3, <2>1, HearsFrame
  <2>3. Acts(w, "keep") /\ Judged(w)
    BY <1>6, MediaActs DEF Terminal, IInv, TypeOK
  <2>4. Turning(w)' /\ Launching(w)'
    <3>1. HasLease(w) => Is(j, {"processing"})'
      BY <1>0, <1>1 DEF Turning, Is
    <3>2. runs'[jobs[j].run].posts = 0
      BY <1>0, <1>1 DEF Turning
    <3> QED
      BY <1>0, <1>1, <1>3, <2>1, <2>2, <2>3, <3>1, <3>2, TurningOn DEF AI
  <2>5. Telling(w)' /\ Withheld(w)'
    BY <1>1, <2>3 DEF Telling, Withheld, Acts, Judged
  <2> QED
    BY <1>0, <1>3, <2>1, <2>2, <2>3, <2>4, <2>5, ToNext DEF AI
<1> QED
  BY <1>4, <1>5, <1>6 DEF Media

LEMMA KeepStep ==
  ASSUME IInv, NEW w \in Workers, KeepMedia(w)
  PROVE  IInv'
<1>0. /\ workers[w].step = "keep" /\ workers[w].step \in AI
      /\ UNCHANGED <<receipts, runs, launches, blocked, faults, turns, heard>>
  BY DEF KeepMedia, AI
<1> PICK j \in Messages : j = workers[w].job
  BY <1>0, AtTurn
<1>1. Turning(w) /\ Withheld(w) /\ RowOK(j) /\ ~workers[w].held
  BY <1>0, AtTurn DEF Withheld
<1>2. heard[j] = <<"reply">> /\ heard'[j] = <<"reply">> /\ jobs[j].run \in DOMAIN runs
      /\ jobs \in [Messages -> Job]
  BY <1>0, <1>1 DEF Turning, IInv, TypeOK
<1>3. CASE /\ jobs' = [jobs EXCEPT ![j].kept = TRUE]
           /\ Answers(w, "nothing", "sent") \/ Goto(w, "end")
  <2>1. /\ Leased(j) /\ jobs'[j].st = jobs[j].st /\ jobs'[j].kept
    BY <1>2, <1>3, KeptWrites DEF Writes, Leased
  <2>2. /\ TurnFrame(j) /\ turns'[j] \in {0, 1}
        /\ heard'[j] \in {<<>>, <<"reply">>, <<"apology">>}
    BY <1>0, <1>2, <2>1, QuietFrame
  <2>3. CASE Answers(w, "nothing", "sent")
    BY <1>0, <1>1, <1>2, <2>1, <2>2, <2>3, ToMark DEF Terminal
  <2>4. CASE Goto(w, "end")
    <3>1. Acts(w, "end") /\ Tells(w, workers[w].says, workers[w].ending) /\ Judged(w)
      BY <2>4, GotoActs DEF Goto, Busy, AI, IInv, TypeOK
    <3>2. workers[w].ending \in Terminal
      BY <1>0, AtTurn, Holder, TaskFields
    <3> QED
      BY <1>0, <1>2, <2>1, <2>2, <3>1, <3>2, ToEnd
  <2> QED
    BY <2>3, <2>4, <1>3
<1>4. CASE Ends(w, "delivery_unknown") /\ UNCHANGED jobs
  <2>1. Leased(j) /\ (jobs'[j].kept => heard'[j] = <<"reply">>) /\ (jobs[j].kept => jobs'[j].kept)
    BY <1>2, <1>4, QuietLeased
  <2>2. /\ TurnFrame(j) /\ turns'[j] \in {0, 1}
        /\ heard'[j] \in {<<>>, <<"reply">>, <<"apology">>}
    BY <1>0, <1>2, <2>1, QuietFrame
  <2>3. Acts(w, "end") /\ Tells(w, workers[w].says, "delivery_unknown") /\ Judged(w)
    BY <1>4, EndsActs DEF Terminal, IInv, TypeOK
  <2> QED
    BY <1>0, <1>4, <2>1, <2>2, <2>3, ToEnd DEF Terminal
<1> QED
  BY <1>3, <1>4 DEF KeepMedia

LEMMA MarkStep ==
  ASSUME IInv, NEW w \in Workers, MarkContinuing(w)
  PROVE  IInv'
<1>0. /\ workers[w].step = "mark" /\ workers[w].step \in AI /\ workers[w].step \in Busy
      /\ UNCHANGED <<receipts, runs, launches, blocked, faults, turns, heard>>
  BY DEF MarkContinuing, AI, Busy
<1> PICK j \in Messages : j = workers[w].job
  BY <1>0, AtTurn
<1>1. CASE ~Owns(w)
  BY <1>0, <1>1, LeaveStep DEF MarkContinuing
<1>2. CASE Owns(w)
  <2>1. Turning(w) /\ Withheld(w) /\ Telling(w) /\ RowOK(j)
    BY <1>0, AtTurn
  <2>2. jobs[j].run \in DOMAIN runs /\ jobs \in [Messages -> Job] /\ Is(j, {"processing"}) /\ HasLease(w)
    BY <1>0, <1>2, <2>1 DEF Turning, IInv, TypeOK, Owns, Is
  <2>3. Writes(j, "continuing", jobs[j].lease, jobs[j].ai) /\ Keeps(j)
    BY <1>2, <2>2, ContinuingWrites DEF MarkContinuing
  <2>4. Leased(j) /\ Onward(w, j) /\ Is(j, {"continuing"})'
    BY <2>2, <2>3 DEF Writes, Keeps, Leased, Onward, Is
  <2>5. /\ TurnFrame(j) /\ turns'[j] \in {0, 1}
        /\ heard'[j] \in {<<>>, <<"reply">>, <<"apology">>}
    BY <1>0, <2>2, <2>4, QuietFrame
  <2>6. (jobs'[j].kept => heard'[j] = <<"reply">>) /\ (jobs[j].kept => jobs'[j].kept)
    BY <1>0, <2>1, <2>3 DEF RowOK, Keeps
  <2>7. Acts(w, "post") /\ Tells(w, workers[w].says, workers[w].ending) /\ Judged(w)
    BY <1>2, GotoActs DEF MarkContinuing, Goto, Busy, AI, IInv, TypeOK
  <2>8. Turning(w)' /\ Launching(w)'
    <3>1. runs'[jobs[j].run].posts = 0
      BY <1>0, <2>1 DEF Turning
    <3> QED
      BY <1>0, <2>1, <2>4, <2>5, <2>7, <3>1, TurningOn DEF AI
  <2>9. Telling(w)'
    BY <1>0, <2>1, <2>6, <2>7 DEF Telling, Acts, Tells
  <2>10. Withheld(w)'
    BY <1>0, <2>1, <2>7 DEF Withheld, Acts, Tells, Judged, Lead, Chat
  <2> QED
    BY <1>0, <2>4, <2>5, <2>6, <2>7, <2>8, <2>9, <2>10, ToNext DEF AI
<1> QED
  BY <1>1, <1>2

LEMMA PostsWrites ==
  ASSUME IInv, NEW r \in DOMAIN runs, runs[r].posts = 0,
         runs' = [runs EXCEPT ![r].posts = @ + 1]
  PROVE  /\ runs' \in Seq([job : Messages, iat : Nat, posts : Nat]) /\ DOMAIN runs' = DOMAIN runs
         /\ \A s \in DOMAIN runs : runs'[s].job = runs[s].job /\ (s # r => runs'[s].posts = runs[s].posts)
         /\ runs'[r].posts = 1
<1> DEFINE R == [job : Messages, iat : Nat, posts : Nat]
<1>1. runs \in Seq(R)
  BY DEF IInv, TypeOK
<1> HIDE DEF R
<1>2. Len(runs) \in Nat /\ DOMAIN runs = 1..Len(runs) /\ runs[r] \in R
  BY <1>1
<1> PICK run \in R : run = runs[r]
  BY <1>2
<1> DEFINE new == [run EXCEPT !.posts = 1]
<1>3. new \in R /\ new.job = run.job /\ new.posts = 1
  BY DEF R
<1>4. runs' = [runs EXCEPT ![r] = new]
  <2>1. runs' = [runs EXCEPT ![r].posts = 1]
    <3>1. runs[r].posts + 1 = 1
      OBVIOUS
    <3>2. runs' = [runs EXCEPT ![r].posts = runs[r].posts + 1]
      OBVIOUS
    <3> QED
      BY <3>1, <3>2
  <2> QED
    BY <2>1 DEF R
<1> HIDE DEF new
<1>5. runs' \in Seq(R) /\ DOMAIN runs' = DOMAIN runs
  BY <1>1, <1>2, <1>3, <1>4
<1>6. runs'[r] = new /\ \A s \in DOMAIN runs : s # r => runs'[s] = runs[s]
  BY <1>2, <1>4
<1> QED
  BY <1>3, <1>5, <1>6 DEF R

\* Kommo takes the continuation, or not; then the history is written or the row.
LEMMA TakenFrame ==
  ASSUME IInv, NEW w \in Workers, NEW j \in Messages, workers[w].job = j,
         workers[w].step = "post", Taken(w) \/ UNCHANGED <<runs, heard>>,
         UNCHANGED <<jobs, receipts, launches, blocked, faults, turns>>
  PROVE  /\ TurnFrame(j) /\ turns'[j] \in {0, 1} /\ Onward(w, j)
         /\ heard'[j] \in {<<>>, <<"reply">>, <<"apology">>}
         /\ jobs'[j].kept => heard'[j] = <<"reply">>
         /\ jobs[j].kept => jobs'[j].kept
         /\ Taken(w) /\ workers[w].says = "reply" => heard'[j] = <<"reply">>
         /\ workers[w].says = "nothing" => heard' = heard
<1>0. workers[w].step \in AI
  BY DEF AI
<1>1. Turning(w) /\ Telling(w) /\ RowOK(j)
  BY <1>0, AtTurn
<1>2. jobs[j].run \in DOMAIN runs /\ runs[jobs[j].run].posts = 0
  BY <1>0, <1>1 DEF Turning
<1>3. Leased(j) /\ Onward(w, j)
  BY QuietLeased DEF Onward
<1>4. Posts(j)
  <2>1. CASE Taken(w)
    BY <1>2, <2>1, PostsWrites DEF Taken, Posts
  <2>2. CASE UNCHANGED <<runs, heard>>
    BY <1>2, <2>2 DEF Posts, IInv, TypeOK
  <2> QED
    BY <2>1, <2>2
<1>5. /\ heard' \in [Messages -> Seq({"reply", "apology"})]
      /\ \A k \in Messages : k # j => heard'[k] = heard[k]
      /\ heard'[j] \in {<<>>, <<"reply">>, <<"apology">>}
      /\ Taken(w) /\ workers[w].says = "reply" => heard'[j] = <<"reply">>
      /\ workers[w].says = "nothing" => heard' = heard
      /\ jobs[j].kept => heard'[j] = <<"reply">>
  <2>1. CASE heard' = heard /\ ~(Taken(w) /\ workers[w].says = "reply")
    BY <1>1, <2>1 DEF RowOK, IInv, TypeOK
  <2>2. CASE workers[w].says # "nothing" /\ Hears(w, workers[w].says)
    <3>1. heard[j] = <<>> /\ ~jobs[j].kept
      BY <1>1, <2>2 DEF Telling, RowOK
    <3>2. workers[w].says \in {"reply", "apology"}
      BY <1>0, <2>2, AtTurn, Holder, TaskFields
    <3> QED
      BY <2>2, <3>1, <3>2, HearsOnce DEF Hears
  <2>3. Taken(w) \/ UNCHANGED heard
    OBVIOUS
  <2> QED
    BY <2>1, <2>2, <2>3 DEF Taken
<1>6. History(j) /\ turns'[j] \in {0, 1}
  BY <1>1, <1>5 DEF History, RowOK, IInv, TypeOK
<1> QED
  BY <1>3, <1>4, <1>5, <1>6 DEF TurnFrame, IInv, TypeOK

LEMMA PostStep ==
  ASSUME IInv, NEW w \in Workers, Post(w)
  PROVE  IInv'
<1>0. /\ workers[w].step = "post" /\ workers[w].step \in AI
      /\ UNCHANGED <<jobs, receipts, launches, blocked, faults, turns>>
  BY DEF Post, AI
<1> PICK j \in Messages : j = workers[w].job
  BY <1>0, AtTurn
<1>1. Turning(w) /\ Telling(w) /\ Withheld(w) /\ workers[w].ending \in Terminal
  BY <1>0, AtTurn, Holder, TaskFields
<1>2. CASE /\ Taken(w) \/ UNCHANGED <<runs, heard>>
           /\ Ends(w, "delivery_unknown") \/ Ends(w, "failed")
  <2> PICK ending \in {"delivery_unknown", "failed"} : Ends(w, ending)
    BY <1>2
  <2>1. Acts(w, "end") /\ Tells(w, workers[w].says, ending) /\ Judged(w)
    BY EndsActs DEF Terminal, IInv, TypeOK
  <2> QED
    BY <1>0, <1>2, <2>1, TakenFrame, ToEnd DEF Terminal
<1>3. CASE Taken(w) /\ workers[w].says # "reply" /\ Goto(w, "end")
  <2>1. Acts(w, "end") /\ Tells(w, workers[w].says, workers[w].ending) /\ Judged(w)
    BY <1>3, GotoActs DEF Goto, Busy, AI, IInv, TypeOK
  <2>2. workers[w].says \in {"nothing", "apology"}
    BY <1>0, <1>3, AtTurn, Holder, TaskFields
  <2>3. workers[w].ending = "sent" => heard'[j] = <<"reply">> /\ jobs'[j].kept
    <3>1. workers[w].ending = "sent" =>
            workers[w].says = "nothing" /\ heard[j] = <<"reply">> /\ jobs[j].kept
      BY <1>0, <1>1, <2>2 DEF Telling
    <3> QED
      BY <1>0, <1>3, <3>1, TakenFrame
  <2> QED
    BY <1>0, <1>1, <1>3, <2>1, <2>3, TakenFrame, ToEnd
<1>4. CASE Taken(w) /\ workers[w].says = "reply" /\ Goto(w, "store")
  <2>1. Acts(w, "store") /\ Tells(w, workers[w].says, workers[w].ending) /\ Judged(w)
    BY <1>4, GotoActs DEF Goto, Busy, AI, IInv, TypeOK
  <2>2. /\ TurnFrame(j) /\ turns'[j] \in {0, 1} /\ Onward(w, j)
        /\ heard'[j] = <<"reply">>
        /\ heard'[j] \in {<<>>, <<"reply">>, <<"apology">>}
        /\ jobs'[j].kept => heard'[j] = <<"reply">>
        /\ jobs[j].kept => jobs'[j].kept
    BY <1>0, <1>4, TakenFrame
  <2>3. workers[w].ending = "sent" /\ ~workers[w].held
    BY <1>0, <1>1, <1>4 DEF Telling, Withheld
  <2>4. Turning(w)' /\ Launching(w)'
    <3>1. HasLease(w) => Is(j, {"continuing"})'
      BY <1>0, <1>1 DEF Turning, Is
    <3> QED
      BY <1>0, <1>1, <2>1, <2>2, <3>1, TurningOn DEF AI
  <2>5. Telling(w)' /\ Withheld(w)'
    BY <2>1, <2>3 DEF Telling, Withheld, Acts, Tells, Judged
  <2> QED
    BY <1>0, <2>1, <2>2, <2>4, <2>5, ToNext DEF AI
<1> QED
  BY <1>2, <1>3, <1>4 DEF Post

LEMMA StoreStep ==
  ASSUME IInv, NEW w \in Workers, Store(w)
  PROVE  IInv'
<1>0. /\ workers[w].step = "store" /\ workers[w].step \in AI
      /\ UNCHANGED <<receipts, runs, launches, blocked, faults, turns, heard>>
  BY DEF Store, AI
<1> PICK j \in Messages : j = workers[w].job
  BY <1>0, AtTurn
<1>1. Turning(w) /\ Telling(w) /\ RowOK(j) /\ workers[w].ending \in Terminal
  BY <1>0, AtTurn, Holder, TaskFields
<1>2. heard'[j] = <<"reply">> /\ jobs[j].run \in DOMAIN runs /\ jobs \in [Messages -> Job]
  BY <1>0, <1>1 DEF Turning, IInv, TypeOK
<1>3. ASSUME Leased(j), jobs'[j].st = jobs[j].st, jobs[j].kept => jobs'[j].kept,
             NEW ending \in Terminal, Ends(w, ending) \/ (Goto(w, "end") /\ ending = workers[w].ending),
             ending = "sent" /\ HasLease(w) => jobs'[j].kept
      PROVE  IInv'
  <2>1. Acts(w, "end") /\ Tells(w, workers[w].says, ending) /\ Judged(w)
    BY <1>3, EndsActs, GotoActs DEF Goto, Busy, AI, IInv, TypeOK
  <2>2. /\ TurnFrame(j) /\ turns'[j] \in {0, 1}
        /\ heard'[j] \in {<<>>, <<"reply">>, <<"apology">>}
    BY <1>0, <1>2, <1>3, QuietFrame
  <2> QED
    BY <1>0, <1>2, <1>3, <2>1, <2>2, ToEnd
<1>4. CASE Ends(w, "delivery_unknown") /\ UNCHANGED jobs
  BY <1>3, <1>4, QuietLeased DEF Terminal
<1>5. CASE Goto(w, "end") /\ Continuing(w) /\ jobs' = [jobs EXCEPT ![j].kept = TRUE]
  <2>1. Leased(j) /\ jobs'[j].st = jobs[j].st /\ jobs'[j].kept
    BY <1>2, <1>5, KeptWrites DEF Writes, Leased
  <2> QED
    BY <1>1, <1>3, <1>5, <2>1
<1>6. CASE Goto(w, "end") /\ ~Continuing(w) /\ UNCHANGED jobs
  <2>1. ~HasLease(w)
    BY <1>0, <1>1, <1>6 DEF Turning, Continuing, Is
  <2> QED
    BY <1>1, <1>3, <1>6, <2>1, QuietLeased
<1> QED
  BY <1>4, <1>5, <1>6 DEF Store

LEMMA EndStep ==
  ASSUME IInv, NEW w \in Workers, End(w)
  PROVE  IInv'
<1>0. /\ workers[w].step = "end" /\ workers[w].step \in AI /\ workers[w].step \in Busy
      /\ Done(w) /\ UNCHANGED <<receipts, runs, launches, blocked, faults, turns, heard>>
  BY DEF End, AI, Busy
<1>1. Telling(w) /\ workers[w].ending \in Terminal
  BY <1>0, AtTurn, Holder, TaskFields
<1>2. CASE UNCHANGED jobs
  BY <1>0, <1>2, LeaveStep
<1>3. CASE MarkJob(w, workers[w].ending)
  <2>1. workers[w].ending = "sent" => (HasLease(w) => jobs[workers[w].job].kept)
    BY <1>0, <1>1 DEF Telling
  <2> QED
    BY <1>0, <1>1, <1>3, <2>1, MarkJobStep
<1> QED
  BY <1>2, <1>3 DEF End

-----------------------------------------------------------------------------
(* What others do to a row                                                 *)

\* Nobody is in the AI turn of a row that waits for it.
LEMMA NoTurn ==
  ASSUME IInv, NEW j \in Messages, Unasked(j) \/ Is(j, {"waiting_for_salesbot", "ready"})
  PROVE  \A v \in Workers : workers[v].step \in AI => workers[v].job # j
  BY AtTurn

\* The tasks go on when a row changes under them.
LEMMA OthersHands ==
  ASSUME IInv, NEW rest \in SUBSET Workers, NEW j \in Messages,
         \A v \in rest : workers'[v] = workers[v],
         jobs' \in [Messages -> Job],
         \A k \in Messages : k # j => jobs'[k] = jobs[k],
         jobs'[j].attempts >= jobs[j].attempts,
         jobs[j].launched # 0 => jobs'[j].launched # 0,
         UNCHANGED <<runs, blocked, turns, heard>>,
         \/ Alike(j) /\ Unturned(j)
         \/ /\ jobs'[j].lease \in {0, jobs[j].attempts + 1}
            /\ \/ Unasked(j) \/ Is(j, {"waiting_for_salesbot", "ready"})
               \/ /\ Is(j, Terminal)' /\ Unturned(j) /\ jobs'[j].lease = 0
                  /\ jobs'[j].attempts = jobs[j].attempts
  PROVE  \A v \in rest : HandOK(v)'
<1> SUFFICES ASSUME NEW v \in rest PROVE HandOK(v)'
  OBVIOUS
<1>1. HandOK(v) /\ workers'[v] = workers[v] /\ workers[v] \in Task
  BY DEF IInv, JobsInv, TypeOK
<1>2. \A k \in Messages : RunsKnown(k) /\ Unposted(k)
  <2>1. \A k \in Messages : RunsKnown(k)
    BY DEF RunsKnown
  <2>2. \A k \in Messages : Unposted(k)
    BY DEF Unposted
  <2> QED
    BY <2>1, <2>2
<1>3. CASE workers[v].step \notin Busy
  BY <1>1, <1>3, HandIdle
<1>4. CASE workers[v].step \in Busy
  <2> PICK i \in Messages : i = workers[v].job
    BY <1>1, <1>4 DEF HandOK
  <2>1. /\ workers[v].lease \in 1..jobs[i].attempts /\ jobs[i].attempts \in Nat
        /\ jobs'[i].attempts \in Nat
    BY <1>1, <1>4, JobFields DEF HandOK, IInv, TypeOK
  <2>2. CASE i # j \/ (Alike(j) /\ Unturned(j))
    <3>1. Alike(i) /\ Unturned(i)
      BY <2>2 DEF Alike, Unturned
    <3> QED
      BY <1>1, <1>2, <1>4, <3>1, HandStill
  <2>3. CASE /\ i = j /\ jobs'[j].lease \in {0, jobs[j].attempts + 1}
             /\ workers[v].step \notin AI
    <3>1. jobs'[i].lease # workers[v].lease
      BY <2>1, <2>3
    <3>2. workers[v].step \in {"launch", "run"}
      BY <1>4, <2>3 DEF Busy
    <3> QED
      BY <1>1, <1>2, <2>1, <2>3, <3>1, <3>2, HandPassed
  <2>4. CASE /\ i = j /\ workers[v].step \in AI
             /\ Is(j, Terminal)' /\ Unturned(j) /\ jobs'[j].lease = 0
             /\ jobs'[j].attempts = jobs[j].attempts
    BY <1>1, <1>2, <2>4, HandClosed
  <2>5. CASE /\ i = j /\ workers[v].step \in AI
             /\ Unasked(j) \/ Is(j, {"waiting_for_salesbot", "ready"})
    BY <2>5, NoTurn
  <2> QED
    BY <2>2, <2>3, <2>4, <2>5
<1> QED
  BY <1>3, <1>4

\* A statement outside the tasks.
LEMMA OutsideInv ==
  ASSUME IInv, NEW j \in Messages, jobs' \in [Messages -> Job],
         \A k \in Messages : k # j => jobs'[k] = jobs[k],
         jobs'[j].attempts = jobs[j].attempts, jobs'[j].launched = jobs[j].launched,
         UNCHANGED <<workers, runs, launches, blocked, turns, heard>>,
         \/ Alike(j) /\ Unturned(j)
         \/ /\ jobs'[j].lease = 0
            /\ \/ Unasked(j) \/ Is(j, {"waiting_for_salesbot", "ready"})
               \/ Is(j, Terminal)' /\ Unturned(j),
         faults' \in 0..MaxFaults, receipts' \subseteq Messages,
         ChatsInv', RowOK(j)', RunsOK'
  PROVE  IInv'
<1>1. TypeOK'
  BY DEF IInv, TypeOK
<1>2. Apart'
  BY DEF IInv, JobsInv, Apart
<1>3. jobs'[j].attempts >= jobs[j].attempts
  <2>1. jobs[j].attempts \in Nat
    BY JobFields DEF IInv, TypeOK
  <2> QED
    BY <2>1
<1>4. \A v \in Workers : HandOK(v)'
  BY <1>3, OthersHands
<1>5. \A k \in Messages : k # j => RowOK(k)'
  <2> SUFFICES ASSUME NEW k \in Messages, k # j PROVE RowOK(k)'
    OBVIOUS
  <2>1. Alike(k) /\ Unturned(k) /\ Unposted(k) /\ RowOK(k)
    BY DEF Alike, Unturned, Unposted, IInv, JobsInv
  <2> QED
    BY <2>1, RowStill
<1> QED
  BY <1>1, <1>2, <1>4, <1>5 DEF IInv, JobsInv

LEMMA Earliest ==
  ASSUME NEW S \in SUBSET Nat, S # {}
  PROVE  Min(S) \in S
<1> DEFINE R == OpToRel(<, Nat)
<1>1. IsWellFoundedOn(R, Nat)
  BY NatLessThanWellFounded
<1>2. \A x, y \in Nat : <<y, x>> \in R <=> y < x
  BY DEF OpToRel
<1> HIDE DEF R
<1>3. \E x \in S : \A y \in S : ~(<<y, x>> \in R)
  BY <1>1, WFMin
<1>4. \E x \in S : \A y \in S : x =< y
  <2> PICK x \in S : \A y \in S : ~(<<y, x>> \in R)
    BY <1>3
  <2>1. \A y \in S : x \in Nat /\ y \in Nat /\ ~(y < x)
    BY <1>2
  <2>2. \A y \in S : x =< y
    BY <2>1
  <2> QED
    BY <2>2
<1> QED
  BY <1>4 DEF Min

LEMMA OutsideRuns ==
  ASSUME IInv, UNCHANGED runs,
         \A k \in Messages : jobs'[k].run = jobs[k].run /\ jobs'[k].launched = jobs[k].launched
  PROVE  RunsOK'
  BY RunsStill, RunNumbers DEF IInv, JobsInv

LEMMA RecordStep ==
  ASSUME IInv, NEW m \in Messages, RecordIncoming(m)
  PROVE  IInv'
<1>0. TypeOK /\ ChatsInv /\ jobs \in [Messages -> Job] /\ receipts \subseteq Messages
  BY DEF IInv, TypeOK
<1>1. UNCHANGED <<workers, runs, launches, blocked, faults, turns, heard>>
      /\ receipts' \subseteq Messages
  BY <1>0 DEF RecordIncoming
<1>2. ChatsInv'
  BY <1>0, RecordChats
<1> PICK p \in Messages :
      /\ jobs' \in [Messages -> Job]
      /\ \A k \in Messages : k # p => jobs'[k] = jobs[k]
      /\ jobs'[p].st = "pending"
      /\ \/ /\ jobs'[p] = [NoJob EXCEPT !.st = "pending", !.parts = {m}]
            /\ Is(p, {"absent"})
         \/ /\ Is(p, {"pending"}) /\ Keeps(p)
            /\ jobs'[p].lease = jobs[p].lease /\ jobs'[p].ai = jobs[p].ai
  BY <1>0, RecordWrites
<1>3. RowOK(p) /\ Unasked(p) /\ Unasked(p)' /\ \A S : Is(p, S)' <=> "pending" \in S
  BY DEF IInv, JobsInv, Unasked, Is
<1>4. /\ jobs'[p].attempts = jobs[p].attempts /\ jobs'[p].launched = jobs[p].launched
      /\ jobs'[p].run = jobs[p].run /\ jobs'[p].kept = jobs[p].kept
      /\ jobs'[p].lease = 0
  <2>1. CASE /\ jobs'[p] = [NoJob EXCEPT !.st = "pending", !.parts = {m}]
             /\ Is(p, {"absent"})
    <3>1. jobs[p] = NoJob
      BY <1>0, <2>1 DEF ChatsInv, Filled
    <3> QED
      BY <2>1, <3>1 DEF NoJob
  <2>2. CASE Is(p, {"pending"}) /\ Keeps(p) /\ jobs'[p].lease = jobs[p].lease
    BY <1>3, <2>2 DEF Keeps, RowOK, Is
  <2> QED
    BY <2>1, <2>2
<1>5. RowOK(p)'
  BY <1>1, <1>3, <1>4 DEF RowOK, Fresh
<1>6. RunsOK'
  BY <1>1, <1>4, OutsideRuns
<1> QED
  BY <1>0, <1>1, <1>2, <1>3, <1>4, <1>5, <1>6, OutsideInv DEF TypeOK

\* A row that is not absent changes its status, or its timer runs out.
LEMMA OutsideChats ==
  ASSUME IInv, NEW j \in Messages, NEW st, NEW lease, NEW ai, Writes(j, st, lease, ai),
         Turn(j), ~Is(j, {"absent"}), UNCHANGED <<receipts, workers>>
  PROVE  ChatsInv'
<1>1. jobs[j].st \in {"absent", "pending"} \cup Active \cup Terminal
  BY JobFields DEF IInv, TypeOK
<1>2. /\ \A k \in Messages : jobs'[k].parts = jobs[k].parts
      /\ \A k \in Messages : k # j => jobs'[k] = jobs[k]
  BY DEF Writes
<1> QED
  BY <1>1, <1>2, TurnChats DEF IInv, SeenLess

LEMMA TimeStep ==
  ASSUME IInv, NEW j \in Messages, TimePasses(j)
  PROVE  IInv'
<1>0. /\ jobs \in [Messages -> Job] /\ faults \in 0..MaxFaults /\ receipts \subseteq Messages
      /\ jobs' = [jobs EXCEPT ![j].timed = TRUE]
      /\ UNCHANGED <<receipts, workers, runs, launches, blocked, turns, heard>>
      /\ ~Is(j, {"absent"})
  BY DEF TimePasses, IInv, TypeOK, Is
<1>1. Writes(j, jobs[j].st, jobs[j].lease, jobs[j].ai) /\ Keeps(j)
  BY <1>0, TimedWrites
<1>2. Alike(j) /\ Unturned(j) /\ Unposted(j) /\ Turn(j)
  BY <1>0, <1>1 DEF Alike, Unturned, Unposted, Turn, Writes, Keeps
<1>3. faults' \in 0..MaxFaults
  BY <1>0, KommoAssumption DEF TimePasses, Fault
<1>4. ChatsInv'
  BY <1>0, <1>1, <1>2, OutsideChats
<1>5. RowOK(j)'
  <2>1. RowOK(j)
    BY DEF IInv, JobsInv
  <2> QED
    BY <1>1, <1>2, <2>1, RowStill DEF Keeps
<1>6. RunsOK'
  BY <1>0, <1>1, OutsideRuns DEF Writes, Keeps
<1> QED
  BY <1>0, <1>1, <1>2, <1>3, <1>4, <1>5, <1>6, OutsideInv DEF Writes, Keeps

\* The recovery closes a row, or puts one back whose turn has not begun.
LEMMA RecoverStep ==
  ASSUME IInv, NEW j \in Messages, RecoverStale(j)
  PROVE  IInv'
<1>0. /\ jobs \in [Messages -> Job] /\ faults \in 0..MaxFaults /\ receipts \subseteq Messages
      /\ UNCHANGED <<receipts, workers, runs, launches, blocked, faults, turns, heard>>
      /\ RowOK(j)
  BY DEF RecoverStale, IInv, TypeOK, JobsInv
<1>1. ASSUME NEW s \in {"failed", "delivery_unknown"}, jobs' = Finish(j, s), Is(j, Active)
      PROVE  IInv'
  <2>1. Writes(j, s, 0, jobs[j].ai) /\ Keeps(j)
    BY <1>0, <1>1, FinishWrites DEF Terminal
  <2>2. Is(j, Terminal)' /\ Unturned(j) /\ Turn(j) /\ ~Is(j, {"absent"})
    BY <1>0, <1>1, <2>1, Statuses DEF Is, Terminal, Unturned, Turn, Writes, Keeps, Active
  <2>3. ChatsInv'
    BY <1>0, <2>1, <2>2, OutsideChats
  <2>4. RunsOK'
    BY <1>0, <2>1, OutsideRuns DEF Writes, Keeps
  <2>5. RowOK(j)'
    <3>1. /\ ~Unasked(j)' /\ ~Is(j, {"sent"})'
          /\ ~Is(j, {"waiting_for_salesbot", "ready"})' /\ ~Is(j, {"waiting_for_salesbot"})'
          /\ ~Is(j, {"ready"})' /\ ~Is(j, {"continuing"})' /\ ~Is(j, {"processing", "continuing"})'
      BY <2>1 DEF Is, Unasked, Writes
    <3> QED
      BY <1>0, <2>1, <3>1 DEF RowOK, Writes, Keeps
  <2> QED
    BY <1>0, <2>1, <2>2, <2>3, <2>4, <2>5, OutsideInv DEF Writes, Keeps
<1>2. CASE TakeBack(j)
  <2>1. Is(j, {"processing"}) /\ ~jobs[j].ai /\ ~Is(j, {"absent"}) /\ Unasked(j)
    BY <1>2 DEF TakeBack, Unstarted, Stale, Is, Unasked
  <2>2. jobs[j].run = 0 /\ jobs[j].launched = 0 /\ Fresh(j)
    BY <1>0, <2>1 DEF RowOK
  <2>3. jobs' = [Finish(j, "pending") EXCEPT ![j].timed = TRUE]
    BY <1>2, <2>2 DEF TakeBack
  <2>4. Writes(j, "pending", 0, jobs[j].ai) /\ Keeps(j)
    BY <1>0, <2>3, FinishWrites
  <2>5. \A k \in Messages : Related(j, k) => ~Is(k, {"pending"})
    <3>1. PendingOf(Chat(j)) = {}
      BY <1>2, <2>2 DEF TakeBack, Wedged, Collides
    <3> QED
      BY <3>1 DEF PendingOf, Related, Is
  <2>6. Turn(j)
    BY <2>1, <2>4, <2>5 DEF Turn, Is, Active, Writes
  <2>7. ChatsInv'
    BY <1>0, <2>1, <2>4, <2>6, OutsideChats
  <2>8. RunsOK'
    BY <1>0, <2>4, OutsideRuns DEF Writes, Keeps
  <2>9. RowOK(j)'
    <3>1. /\ Unasked(j)' /\ Fresh(j)' /\ \A S : Is(j, S)' <=> "pending" \in S
      BY <1>0, <2>2, <2>4 DEF Is, Unasked, Fresh, Writes, Keeps
    <3> QED
      BY <1>0, <2>2, <2>4, <3>1 DEF RowOK, Fresh, Writes, Keeps
  <2> QED
    BY <1>0, <2>1, <2>4, <2>7, <2>8, <2>9, OutsideInv DEF Writes, Keeps
<1>3. CASE FailWaiting(j) \/ GiveUp(j) \/ Exhausted(j)
  <2>1. Is(j, Active)
    BY <1>3 DEF FailWaiting, GiveUp, Exhausted, Unstarted, Stale, Is, Active
  <2>2. jobs' = Finish(j, "failed") \/ jobs' = Finish(j, "delivery_unknown")
    BY <1>3 DEF FailWaiting, GiveUp, Exhausted
  <2> QED
    BY <1>1, <2>1, <2>2
<1> QED
  BY <1>2, <1>3 DEF RecoverStale

LEMMA CallbackStep ==
  ASSUME IInv, NEW r \in DOMAIN runs, Callback(r)
  PROVE  IInv'
<1>0. /\ jobs \in [Messages -> Job] /\ faults \in 0..MaxFaults /\ receipts \subseteq Messages
      /\ UNCHANGED <<receipts, workers, runs, launches, blocked, faults, turns, heard>>
      /\ r \in Nat /\ r # 0 /\ ~Consumed(r) /\ RunsOK
  BY RunNumbers DEF Callback, IInv, TypeOK, JobsInv
<1> PICK iat \in {runs[r].iat, runs[r].iat + 1} : \E j \in Waiting(r, iat) :
      jobs' = [jobs EXCEPT ![j].st = "ready", ![j].run = r, ![j].lease = 0,
                           ![j].ai = FALSE, ![j].timed = FALSE]
  BY DEF Callback
<1> PICK j \in Messages :
      /\ Is(j, {"waiting_for_salesbot"})
      /\ jobs' = [jobs EXCEPT ![j].st = "ready", ![j].run = r, ![j].lease = 0,
                              ![j].ai = FALSE, ![j].timed = FALSE]
  BY DEF Waiting, Is
<1>1. /\ Writes(j, "ready", 0, FALSE)
      /\ jobs'[j].attempts = jobs[j].attempts /\ jobs'[j].launched = jobs[j].launched
      /\ jobs'[j].run = r /\ jobs'[j].kept = jobs[j].kept
  BY <1>0, ReadyWrites
<1>2. /\ RowOK(j) /\ Is(j, {"waiting_for_salesbot", "ready"}) /\ ~Is(j, {"absent"})
      /\ \A S : Is(j, S)' <=> "ready" \in S
  BY <1>1 DEF IInv, JobsInv, Is, Writes
<1>3. Fresh(j) /\ jobs[j].run = 0
  BY <1>2 DEF RowOK
<1>4. Turn(j)
  BY <1>2 DEF Turn, Is, Active
<1>5. ChatsInv'
  BY <1>0, <1>1, <1>2, <1>4, OutsideChats
<1>6. runs[r].posts = 0
  BY <1>0 DEF RunsOK
<1>7. RunsOK'
  <2>1. \A k \in Messages : k # j => jobs'[k] = jobs[k]
    BY <1>1 DEF Writes
  <2>2. \A k \in Messages : jobs'[k].launched = jobs[k].launched
    BY <1>1, <2>1
  <2>3. \A s : s # 0 /\ Consumed(s) => Consumed(s)'
    BY <1>3, <2>1 DEF Consumed
  <2>4. \A k \in Messages : k # j => jobs[k].run # r
    BY <1>0 DEF Consumed
  <2>5. \A i, k \in Messages : jobs'[i].run = jobs'[k].run /\ jobs'[i].run # 0 => i = k
    <3> SUFFICES ASSUME NEW i \in Messages, NEW k \in Messages,
                        jobs'[i].run = jobs'[k].run, jobs'[i].run # 0
                 PROVE  i = k
      OBVIOUS
    <3>1. CASE i # j /\ k # j
      <4>1. jobs[i].run = jobs[k].run /\ jobs[i].run # 0
        BY <2>1, <3>1
      <4> QED
        BY <1>0, <4>1 DEF RunsOK
    <3>2. CASE i = j \/ k = j
      <4>1. \A l \in Messages : l # j => jobs'[l].run # r
        BY <2>1, <2>4
      <4> QED
        BY <1>1, <3>2, <4>1
    <3> QED
      BY <3>1, <3>2
  <2>6. \A s \in DOMAIN runs : runs[s].job \in Messages /\ s # 0
    BY RunNumbers DEF IInv
  <2> QED
    BY <1>0, <2>2, <2>3, <2>5, <2>6 DEF RunsOK
<1>8. RowOK(j)'
  <2>1. Fresh(j)' /\ ~Unasked(j)'
    BY <1>0, <1>1, <1>2, <1>3 DEF Fresh, Unasked
  <2> QED
    BY <1>0, <1>1, <1>2, <1>6, <2>1 DEF RowOK, Fresh, Writes
<1> QED
  BY <1>0, <1>1, <1>2, <1>5, <1>7, <1>8, OutsideInv DEF Writes

-----------------------------------------------------------------------------
(* Claims, Kommo's side of a run, operators and crashes                    *)

LEMMA ClaimInv ==
  ASSUME IInv, NEW w \in Workers, NEW j \in Messages, NEW step \in {"launch", "prepare"},
         workers[w].step \in {"free", "claim"}, Claim(w, j, step),
         \/ /\ step = "launch" /\ Is(j, {"pending"})
            /\ \A k \in Messages : Related(j, k) => ~Is(k, Active)
         \/ step = "prepare" /\ Is(j, {"ready"})
  PROVE  IInv'
<1>0. /\ jobs \in [Messages -> Job] /\ workers \in [Workers -> Task]
      /\ RowOK(j) /\ step \in Busy
      /\ UNCHANGED <<receipts, runs, launches, blocked, faults, turns, heard>>
  BY DEF Claim, IInv, TypeOK, JobsInv, Busy, AI
<1>1. /\ Writes(j, "processing", jobs[j].attempts + 1, step = "prepare")
      /\ jobs'[j].attempts = jobs[j].attempts + 1
      /\ jobs'[j].launched = jobs[j].launched
      /\ jobs'[j].run = jobs[j].run /\ jobs'[j].kept = jobs[j].kept
  BY <1>0, ClaimWrites
<1>2. Takes(w, j, step)
  BY <1>0, ClaimActs
<1>3. jobs[j].attempts \in Nat /\ \A S : Is(j, S)' <=> "processing" \in S
  BY <1>0, <1>1, JobFields DEF Is, Writes
<1>4. Unasked(j) \/ Is(j, {"waiting_for_salesbot", "ready"})
  BY DEF Unasked, Is
<1>5. jobs'[j].ai <=> step = "prepare"
  BY <1>1 DEF Writes
<1>6. \A v \in Workers : v # w => HandOK(v)'
  <2> DEFINE rest == Workers \ {w}
  <2>1. \A v \in rest : workers'[v] = workers[v]
    BY <1>2 DEF Takes
  <2> HIDE DEF rest
  <2>2. rest \in SUBSET Workers
    BY DEF rest
  <2>3. jobs'[j].attempts >= jobs[j].attempts
    BY <1>1, <1>3
  <2>4. jobs'[j].lease \in {0, jobs[j].attempts + 1} /\ jobs' \in [Messages -> Job]
        /\ \A k \in Messages : k # j => jobs'[k] = jobs[k]
    BY <1>1 DEF Writes
  <2>5. \A v \in rest : HandOK(v)'
    BY <1>0, <1>1, <1>4, <2>1, <2>2, <2>3, <2>4, OthersHands
  <2> QED
    BY <2>5 DEF rest
<1>7. TypeOK'
  BY <1>0, <1>1, <1>2 DEF IInv, TypeOK, Writes, Takes
<1>8. ChatsInv'
  <2>1. SeenLess
    BY <1>2 DEF SeenLess, Takes
  <2>2. Turn(j) /\ ~Is(j, {"absent"})
    BY <1>3 DEF Turn, Is, Active
  <2>3. /\ jobs[j].st \in {"absent", "pending"} \cup Active \cup Terminal
        /\ \A k \in Messages : jobs'[k].parts = jobs[k].parts
        /\ \A k \in Messages : k # j => jobs'[k] = jobs[k]
    BY <1>0, <1>1, JobFields DEF Writes
  <2> QED
    BY <1>0, <2>1, <2>2, <2>3, TurnChats DEF IInv
<1>9. RunsOK'
  <2>1. \A k \in Messages : jobs'[k].run = jobs[k].run /\ jobs'[k].launched = jobs[k].launched
    BY <1>1 DEF Writes
  <2> QED
    BY <1>0, <2>1, OutsideRuns
<1>10. Fresh(j)
  BY <1>0, <1>4 DEF RowOK
<1>11. Fresh(j)' /\ turns'[j] = 0 /\ heard'[j] = <<>>
  BY <1>0, <1>1, <1>10 DEF Fresh
<1>12. RowOK(j)'
  <2>1. /\ ~Is(j, {"waiting_for_salesbot"})' /\ ~Is(j, {"ready"})' /\ ~Is(j, {"continuing"})'
        /\ ~Is(j, {"sent"})' /\ ~Is(j, {"waiting_for_salesbot", "ready"})'
        /\ Is(j, {"processing", "waiting_for_salesbot", "continuing"})'
        /\ Is(j, {"processing"})' /\ ~Is(j, {"absent", "pending"})'
    BY <1>3
  <2>2. CASE step = "launch" /\ Is(j, {"pending"})
    <3>1. Unasked(j) /\ ~jobs'[j].ai
      BY <1>5, <2>2 DEF Unasked, Is
    <3> QED
      BY <1>0, <1>1, <1>11, <2>1, <3>1 DEF RowOK, Fresh, Writes
  <2>3. CASE step = "prepare" /\ Is(j, {"ready"})
    <3>1. ~Unasked(j)' /\ jobs[j].run # 0
      BY <1>0, <1>5, <2>1, <2>3 DEF RowOK, Unasked
    <3> QED
      BY <1>0, <1>1, <1>11, <2>1, <3>1 DEF RowOK, Fresh, Writes
  <2> QED
    BY <2>2, <2>3
<1>13. HandOK(w)'
  <2>1. /\ workers'[w].job = j /\ workers'[w].lease \in 1..jobs'[j].attempts
        /\ workers'[w].step = step /\ ~workers'[w].held /\ HasLease(w)'
    BY <1>1, <1>2, <1>3 DEF Takes, Writes, HasLease
  <2>2. step \notin {"free", "claim"} /\ step # "run" /\ Is(j, {"processing"})'
        /\ Is(j, {"processing", "continuing"})'
    BY <1>3
  <2>3. Launching(w)'
    BY <1>5, <2>1, <2>2 DEF Launching
  <2>4. Turning(w)'
    <3>1. CASE step = "prepare" /\ Is(j, {"ready"})
      <4>1. jobs[j].run \in DOMAIN runs /\ runs[jobs[j].run].posts = 0
        BY <1>0, <3>1 DEF RowOK
      <4> QED
        BY <1>0, <1>1, <1>5, <1>11, <2>1, <2>2, <3>1, <4>1 DEF Turning
    <3>2. CASE step = "launch"
      BY <2>1, <3>2 DEF Turning, AI
    <3> QED
      BY <3>1, <3>2
  <2>5. Telling(w)' /\ ~workers'[w].escalated
    BY <2>1, <1>2 DEF Telling, Takes
  <2>6. Withheld(w)'
    BY <2>1, <2>5 DEF Withheld
  <2> QED
    BY <2>1, <2>2, <2>3, <2>4, <2>5, <2>6 DEF HandOK
<1>14. Apart'
  <2>1. \A v \in Workers : v # w => workers'[v] = workers[v]
    BY <1>2 DEF Takes
  <2>2. \A v \in Workers : v # w /\ workers[v].step \in Busy /\ workers[v].job = j =>
          workers[v].lease # jobs[j].attempts + 1 /\ workers[v].step \notin AI
    <3> SUFFICES ASSUME NEW v \in Workers, workers[v].step \in Busy, workers[v].job = j
                 PROVE  workers[v].lease # jobs[j].attempts + 1 /\ workers[v].step \notin AI
      OBVIOUS
    <3>1. workers[v].lease \in 1..jobs[j].attempts
      BY DEF IInv, JobsInv, HandOK
    <3> QED
      BY <1>3, <1>4, <3>1, NoTurn
  <2>3. workers'[w].job = j /\ workers'[w].lease = jobs[j].attempts + 1 /\ workers'[w].step # "run"
    BY <1>2 DEF Takes
  <2> SUFFICES ASSUME NEW u \in Workers, NEW v \in Workers, u # v,
                      workers'[u].step \in Busy, workers'[v].step \in Busy,
                      workers'[u].job = workers'[v].job
               PROVE  /\ workers'[u].lease # workers'[v].lease
                      /\ ~(workers'[u].step \in AI /\ workers'[v].step \in AI)
                      /\ ~(workers'[u].step = "run" /\ workers'[v].step = "run")
    BY DEF Apart
  <2>4. CASE u # w /\ v # w
    BY <2>1, <2>4 DEF IInv, JobsInv, Apart
  <2>5. CASE u = w
    BY <2>1, <2>2, <2>3, <2>5
  <2>6. CASE v = w
    BY <2>1, <2>2, <2>3, <2>6
  <2> QED
    BY <2>4, <2>5, <2>6
<1>15. \A k \in Messages : k # j => RowOK(k)'
  <2> SUFFICES ASSUME NEW k \in Messages, k # j PROVE RowOK(k)'
    OBVIOUS
  <2>1. Alike(k) /\ Unturned(k) /\ Unposted(k) /\ RowOK(k) /\ jobs'[k] = jobs[k]
    BY <1>0, <1>1 DEF Alike, Unturned, Unposted, IInv, JobsInv, Writes
  <2> QED
    BY <2>1, RowStill
<1> QED
  BY <1>6, <1>7, <1>8, <1>9, <1>12, <1>13, <1>14, <1>15 DEF IInv, JobsInv

\* No row changes, and no run but for its iat.
StillRows ==
    /\ UNCHANGED <<jobs, turns, heard>> /\ DOMAIN runs' = DOMAIN runs
    /\ \A r \in DOMAIN runs : runs'[r].job = runs[r].job /\ runs'[r].posts = runs[r].posts

LEMMA StillInv ==
  ASSUME IInv, StillRows
  PROVE  RunsOK' /\ \A k \in Messages : RowOK(k)'
<1>1. ASSUME NEW k \in Messages PROVE RowOK(k)'
  <2>1. Alike(k) /\ Unturned(k) /\ Unposted(k) /\ RowOK(k)
    BY DEF StillRows, Alike, Unturned, Unposted, IInv, JobsInv
  <2> QED
    BY <2>1, RowStill DEF StillRows
<1>2. RunsOK'
  <2>1. \A r : Consumed(r)' <=> Consumed(r)
    BY DEF Consumed, StillRows
  <2> QED
    BY <2>1 DEF RunsOK, StillRows, IInv, JobsInv
<1> QED
  BY <1>1, <1>2

LEMMA StillHands ==
  ASSUME IInv, StillRows, NEW v \in Workers, workers'[v] = workers[v], blocked \subseteq blocked'
  PROVE  HandOK(v)'
<1>1. HandOK(v) /\ workers[v] \in Task
  BY DEF IInv, JobsInv, TypeOK
<1>2. CASE workers[v].step \notin Busy
  BY <1>1, <1>2, HandIdle
<1>3. CASE workers[v].step \in Busy
  <2> PICK j \in Messages : j = workers[v].job
    BY <1>1, <1>3 DEF HandOK
  <2>1. Alike(j) /\ Unturned(j) /\ Unposted(j) /\ RunsKnown(j)
    BY DEF StillRows, Alike, Unturned, Unposted, RunsKnown
  <2> QED
    BY <1>1, <1>3, <2>1, HandStill
<1> QED
  BY <1>2, <1>3

LEMMA ApartLess ==
  ASSUME Apart, \A v \in Workers : workers'[v] = workers[v] \/ workers'[v].step \notin Busy
  PROVE  Apart'
  BY DEF Apart

LEMMA SameRows ==
  ASSUME IInv, UNCHANGED <<jobs, receipts>>, SeenLess
  PROVE  ChatsInv'
  BY SameChats DEF IInv

LEMMA IdleHand ==
  ASSUME NEW w \in Workers, workers'[w].step \in {"free", "claim"}, ~workers'[w].held
  PROVE  HandOK(w)' /\ workers'[w].step \notin Busy
  BY DEF HandOK, Launching, Turning, Telling, Withheld, AI, Busy

\* The candidates of the snapshot are gone.
LEMMA NothingStep ==
  ASSUME IInv, NEW w \in Workers, Done(w),
         UNCHANGED <<jobs, receipts, runs, launches, blocked, faults, turns, heard>>
  PROVE  IInv'
<1>1. Leaves(w)
  BY DoneActs DEF IInv, TypeOK
<1>2. StillRows
  BY DEF StillRows
<1>3. HandOK(w)' /\ workers'[w].seen = {} /\ workers'[w].step \notin Busy
  BY <1>1, FreeHand
<1>4. \A v \in Workers : HandOK(v)'
  BY <1>1, <1>2, <1>3, StillHands DEF Leaves
<1>5. Apart'
  BY <1>1, <1>3, ApartLess DEF Leaves, IInv, JobsInv
<1>6. ChatsInv'
  BY <1>1, <1>3, SameRows DEF SeenLess, Leaves
<1>7. TypeOK'
  BY <1>1 DEF IInv, TypeOK, Leaves
<1> QED
  BY <1>2, <1>4, <1>5, <1>6, <1>7, StillInv DEF IInv, JobsInv

LEMMA ClaimSteps ==
  ASSUME IInv, NEW w \in Workers, ClaimPending(w) \/ ClaimReady(w)
  PROVE  IInv'
<1>1. CASE ClaimReady(w)
  <2> PICK j \in Messages : Is(j, {"ready"}) /\ Claim(w, j, "prepare")
    BY <1>1 DEF ClaimReady, Is
  <2> QED
    BY <1>1, ClaimInv DEF ClaimReady
<1>2. CASE ClaimPending(w)
  <2> DEFINE open == {j \in workers[w].seen : Due(j)}
  <2>0. workers[w].seen \in SUBSET Messages /\ workers[w].step = "claim"
    BY <1>2, TaskFields DEF ClaimPending, IInv, TypeOK
  <2>1. CASE open # {}
    <3>1. open \in SUBSET Nat
      BY <2>0 DEF Messages
    <3>2. Min(open) \in open
      BY <2>1, <3>1, Earliest
    <3> PICK j \in Messages : j = Min(open) /\ j \in open
      BY <2>0, <3>2
    <3>3. Is(j, {"pending"}) /\ j \in workers[w].seen
      BY DEF Due, Is
    <3>4. \A k \in Messages : Related(j, k) => ~Is(k, Active)
      BY <3>3 DEF IInv, ChatsInv, Current
    <3>5. Claim(w, j, "launch")
      BY <1>2, <2>1 DEF ClaimPending
    <3> QED
      BY <2>0, <3>3, <3>4, <3>5, ClaimInv
  <2>2. CASE open = {}
    <3>1. Done(w) /\ UNCHANGED <<jobs, receipts, runs, launches, blocked, faults, turns, heard>>
      BY <1>2, <2>2 DEF ClaimPending, Done
    <3> QED
      BY <3>1, NothingStep
  <2> QED
    BY <2>1, <2>2
<1> QED
  BY <1>1, <1>2

LEMMA StartsStep ==
  ASSUME IInv, NEW w \in Workers, ClaimStarts(w)
  PROVE  IInv'
<1>0. workers[w].step = "free" /\ workers[w] \in Task /\ HandOK(w)
      /\ UNCHANGED <<jobs, receipts, runs, launches, blocked, faults, turns, heard>>
  BY DEF ClaimStarts, IInv, TypeOK, JobsInv
<1>1. ChatsInv' /\ workers' \in [Workers -> Task]
  BY StartsChats DEF IInv, TypeOK
<1>2. /\ \A v \in Workers : v # w => workers'[v] = workers[v]
      /\ workers'[w].step = "claim"
      /\ ~workers'[w].held
  <2> PICK t \in Task : t = workers[w]
    BY <1>0
  <2> DEFINE new == [t EXCEPT !.step = "claim", !.seen = Claimable]
  <2>1. new.step = "claim" /\ new.held = t.held
    BY DEF Task
  <2>2. workers' = [workers EXCEPT ![w] = new]
    BY DEF ClaimStarts, Task
  <2> HIDE DEF new
  <2>3. workers \in [Workers -> Task]
    BY DEF IInv, TypeOK
  <2>4. workers'[w] = new /\ \A v \in Workers : v # w => workers'[v] = workers[v]
    BY <2>2, <2>3
  <2> QED
    BY <1>0, <2>1, <2>4 DEF HandOK
<1>3. StillRows
  BY <1>0 DEF StillRows
<1>4. HandOK(w)' /\ workers'[w].step \notin Busy
  BY <1>2, IdleHand
<1>5. \A v \in Workers : HandOK(v)'
  BY <1>0, <1>2, <1>3, <1>4, StillHands
<1>6. Apart'
  BY <1>2, <1>4, ApartLess DEF IInv, JobsInv
<1>7. TypeOK'
  BY <1>0, <1>1 DEF IInv, TypeOK
<1> QED
  BY <1>1, <1>3, <1>5, <1>6, <1>7, StillInv DEF IInv, JobsInv

LEMMA BotStep ==
  ASSUME IInv, NEW r \in DOMAIN runs, BotStarts(r)
  PROVE  IInv'
<1> DEFINE R == [job : Messages, iat : Nat, posts : Nat]
<1>0. UNCHANGED <<jobs, receipts, workers, launches, blocked, faults, turns, heard>>
      /\ runs' = [runs EXCEPT ![r].iat = launches]
  BY DEF BotStarts
<1>1. runs \in Seq(R) /\ launches \in Nat
  BY DEF IInv, TypeOK
<1> HIDE DEF R
<1>2. Len(runs) \in Nat /\ DOMAIN runs = 1..Len(runs) /\ runs[r] \in R
  BY <1>1
<1> PICK run \in R : run = runs[r]
  BY <1>2
<1> DEFINE new == [run EXCEPT !.iat = launches]
<1>3. new \in R /\ new.job = run.job /\ new.posts = run.posts
  BY <1>1 DEF R
<1>4. runs' = [runs EXCEPT ![r] = new]
  BY <1>0 DEF R
<1> HIDE DEF new
<1>5. runs' \in Seq(R) /\ DOMAIN runs' = DOMAIN runs
  BY <1>1, <1>2, <1>3, <1>4
<1>6. runs'[r] = new /\ \A s \in DOMAIN runs : s # r => runs'[s] = runs[s]
  BY <1>2, <1>4
<1>7. StillRows
  BY <1>0, <1>3, <1>5, <1>6 DEF StillRows
<1>8. \A v \in Workers : HandOK(v)'
  BY <1>0, <1>7, StillHands
<1>9. TypeOK' /\ Apart'
  BY <1>0, <1>5, ApartLess DEF IInv, TypeOK, JobsInv, R
<1>10. ChatsInv'
  BY <1>0, SameRows DEF SeenLess
<1> QED
  BY <1>7, <1>8, <1>9, <1>10, StillInv DEF IInv, JobsInv

LEMMA TakeOverStep ==
  ASSUME IInv, NEW l \in Leads, TakeOver(l)
  PROVE  IInv'
<1>0. UNCHANGED <<jobs, receipts, workers, runs, launches, turns, heard>>
      /\ blocked' = blocked \cup {l}
  BY DEF TakeOver
<1>1. StillRows
  BY <1>0 DEF StillRows
<1>2. faults' \in 0..MaxFaults
  BY KommoAssumption DEF TakeOver, Fault, IInv, TypeOK
<1>3. \A v \in Workers : HandOK(v)'
  BY <1>0, <1>1, StillHands
<1>4. TypeOK' /\ Apart'
  BY <1>0, <1>2, ApartLess DEF IInv, TypeOK, JobsInv
<1>5. ChatsInv'
  BY <1>0, SameRows DEF SeenLess
<1> QED
  BY <1>1, <1>3, <1>4, <1>5, StillInv DEF IInv, JobsInv

\* The operator hands the lead back: what was withheld may be sent.
LEMMA HandBackStep ==
  ASSUME IInv, NEW l \in Leads, HandBack(l)
  PROVE  IInv'
<1>0. UNCHANGED <<jobs, receipts, runs, launches, faults, turns, heard>>
      /\ blocked' = blocked \ {l}
  BY DEF HandBack
<1>1. ASSUME NEW v \in Workers
      PROVE  /\ workers'[v] \in Task
             /\ workers'[v].step = workers[v].step /\ workers'[v].job = workers[v].job
             /\ workers'[v].lease = workers[v].lease /\ workers'[v].seen = workers[v].seen
             /\ workers'[v].says = workers[v].says /\ workers'[v].ending = workers[v].ending
             /\ workers'[v].escalated = workers[v].escalated
             /\ workers'[v].held => workers[v].held /\ Lead(workers[v].job) # l
  <2> PICK t \in Task : t = workers[v]
    BY DEF IInv, TypeOK
  <2>1. CASE t.held /\ Lead(t.job) = l
    <3> DEFINE new == [t EXCEPT !.held = FALSE]
    <3>1. /\ new \in Task /\ new.step = t.step /\ new.job = t.job /\ new.lease = t.lease
          /\ new.seen = t.seen /\ new.says = t.says /\ new.ending = t.ending
          /\ new.escalated = t.escalated /\ new.held = FALSE
      BY DEF Task
    <3>2. workers'[v] = new
      BY <2>1 DEF HandBack
    <3> QED
      BY <3>1, <3>2
  <2>2. CASE ~(t.held /\ Lead(t.job) = l)
    <3>1. workers'[v] = t
      BY <2>2 DEF HandBack
    <3> QED
      BY <2>2, <3>1
  <2> QED
    BY <2>1, <2>2
<1>2. StillRows
  BY <1>0 DEF StillRows
<1>3. ASSUME NEW v \in Workers PROVE HandOK(v)'
  <2>0. HandOK(v)
    BY DEF IInv, JobsInv
  <2>1. HasLease(v)' <=> HasLease(v)
    BY <1>0, <1>1 DEF HasLease
  <2>2. \A j, S : Is(j, S)' <=> Is(j, S)
    BY <1>0 DEF Is
  <2>3. Launching(v)'
    BY <1>0, <1>1, <2>0, <2>1, <2>2 DEF HandOK, Launching, Is
  <2>4. Turning(v)'
    BY <1>0, <1>1, <2>0, <2>1, <2>2 DEF HandOK, Turning, Is
  <2>5. Telling(v)'
    BY <1>0, <1>1, <2>0, <2>1 DEF HandOK, Telling
  <2>6. Withheld(v)'
    BY <1>0, <1>1, <2>0 DEF HandOK, Withheld, Lead, Chat
  <2> QED
    BY <1>0, <1>1, <2>0, <2>3, <2>4, <2>5, <2>6 DEF HandOK
<1>4. Apart'
  BY <1>1 DEF IInv, JobsInv, Apart
<1>5. ChatsInv'
  <2>1. SeenLess
    BY <1>1 DEF SeenLess
  <2> QED
    BY <1>0, <2>1, SameRows
<1>6. TypeOK'
  <2>1. workers' \in [Workers -> Task]
    BY <1>1 DEF HandBack
  <2> QED
    BY <1>0, <2>1 DEF IInv, TypeOK
<1> QED
  BY <1>2, <1>3, <1>4, <1>5, <1>6, StillInv DEF IInv, JobsInv

LEMMA CrashStep ==
  ASSUME IInv, Crash
  PROVE  IInv'
<1>0. UNCHANGED <<jobs, receipts, runs, launches, blocked, turns, heard>>
      /\ workers' = [w \in Workers |-> Free]
  BY DEF Crash
<1>1. \A v \in Workers : workers'[v].step = "free" /\ ~workers'[v].held /\ workers'[v].seen = {}
  BY <1>0 DEF Free
<1>2. StillRows
  BY <1>0 DEF StillRows
<1>3. \A v \in Workers : HandOK(v)' /\ workers'[v].step \notin Busy
  BY <1>1, IdleHand
<1>4. Apart'
  BY <1>3, ApartLess DEF IInv, JobsInv
<1>5. ChatsInv'
  BY <1>0, <1>1, SameRows DEF SeenLess
<1>6. TypeOK'
  BY <1>0, FreeTask, KommoAssumption DEF Crash, Fault, IInv, TypeOK
<1> QED
  BY <1>2, <1>3, <1>4, <1>5, <1>6, StillInv DEF IInv, JobsInv

LEMMA QuietStep ==
  ASSUME IInv, UNCHANGED vars
  PROVE  IInv'
<1>0. UNCHANGED <<jobs, receipts, workers, runs, launches, blocked, faults, turns, heard>>
  BY DEF vars
<1>1. StillRows
  BY <1>0 DEF StillRows
<1>2. \A v \in Workers : HandOK(v)'
  BY <1>0, <1>1, StillHands
<1>3. TypeOK' /\ Apart'
  BY <1>0, ApartLess DEF IInv, TypeOK, JobsInv
<1>4. ChatsInv'
  BY <1>0, SameRows DEF SeenLess
<1> QED
  BY <1>1, <1>2, <1>3, <1>4, StillInv DEF IInv, JobsInv

-----------------------------------------------------------------------------
(* The invariant                                                           *)

LEMMA InitIInv == Init => IInv
<1> SUFFICES ASSUME Init PROVE IInv
  OBVIOUS
<1>0. /\ \A j \in Messages : jobs[j] = NoJob /\ turns[j] = 0 /\ heard[j] = <<>>
      /\ \A w \in Workers : workers[w] = Free
      /\ runs = <<>> /\ receipts = {} /\ DOMAIN runs = {}
  BY DEF Init
<1>1. NoJob \in Job /\ NoJob.st = "absent" /\ NoJob.parts = {} /\ NoJob.lease = 0
      /\ NoJob.attempts = 0 /\ NoJob.launched = 0 /\ NoJob.run = 0 /\ ~NoJob.kept
  BY DEF NoJob, Job
<1>2. Free.step = "free" /\ Free.seen = {} /\ ~Free.held
  BY DEF Free
<1>3. TypeOK
  <2>1. /\ jobs \in [Messages -> Job] /\ workers \in [Workers -> Task]
        /\ turns \in [Messages -> Nat]
    BY <1>1, FreeTask DEF Init
  <2>2. heard \in [Messages -> Seq({"reply", "apology"})]
    BY DEF Init
  <2>3. runs \in Seq([job : Messages, iat : Nat, posts : Nat])
    BY DEF Init
  <2>4. receipts \subseteq Messages /\ launches \in Nat /\ blocked \subseteq Leads
        /\ faults \in 0..MaxFaults
    BY KommoAssumption DEF Init
  <2> QED
    BY <2>1, <2>2, <2>3, <2>4 DEF TypeOK
<1>4. \A j \in Messages : \A S : Is(j, S) <=> "absent" \in S
  BY <1>0, <1>1 DEF Is
<1>5. ChatsInv
  <2>1. Numbered /\ Filled /\ Placed
    BY <1>0, <1>1, <1>4 DEF Numbered, Filled, Placed
  <2>2. Single /\ Ordered /\ Current
    BY <1>0, <1>2, <1>4, Statuses DEF Single, Ordered, Current
  <2> QED
    BY <2>1, <2>2 DEF ChatsInv
<1>6. ASSUME NEW j \in Messages PROVE RowOK(j)
  <2>1. Unasked(j) /\ Fresh(j)
    BY <1>0, <1>1, <1>4 DEF Unasked, Fresh
  <2> QED
    BY <1>0, <1>1, <1>4, <2>1 DEF RowOK, Fresh
<1>7. RunsOK
  BY <1>0, <1>1 DEF RunsOK
<1>8. \A w \in Workers : HandOK(w) /\ workers[w].step \notin Busy
  BY <1>0, <1>2 DEF HandOK, Launching, Turning, Telling, Withheld, AI, Busy
<1>9. Apart
  BY <1>8 DEF Apart
<1> QED
  BY <1>3, <1>5, <1>6, <1>7, <1>8, <1>9 DEF IInv, JobsInv

LEMMA StepIInv == IInv /\ [Next]_vars => IInv'
<1> SUFFICES ASSUME IInv, [Next]_vars PROVE IInv'
  OBVIOUS
<1>1. CASE \E m \in Messages : RecordIncoming(m) \/ TimePasses(m) \/ RecoverStale(m)
  BY <1>1, RecordStep, TimeStep, RecoverStep
<1>2. CASE \E w \in Workers : ClaimStarts(w) \/ ClaimReady(w) \/ TaskStep(w)
  <2> PICK w \in Workers : ClaimStarts(w) \/ ClaimReady(w) \/ TaskStep(w)
    BY <1>2
  <2>1. CASE ClaimStarts(w)
    BY <2>1, StartsStep
  <2>2. CASE ClaimReady(w) \/ ClaimPending(w)
    BY <2>2, ClaimSteps
  <2>3. CASE Launch(w) \/ RunSalesbot(w)
    BY <2>3, LaunchStep, RunStep
  <2>4. CASE Prepare(w) \/ Generate(w) \/ Check(w) \/ Media(w) \/ KeepMedia(w)
    BY <2>4, PrepareStep, GenerateStep, CheckStep, MediaStep, KeepStep
  <2>5. CASE MarkContinuing(w) \/ Post(w) \/ Store(w) \/ End(w)
    BY <2>5, MarkStep, PostStep, StoreStep, EndStep
  <2> QED
    BY <2>1, <2>2, <2>3, <2>4, <2>5 DEF TaskStep
<1>3. CASE \E r \in DOMAIN runs : BotStarts(r) \/ Callback(r)
  BY <1>3, BotStep, CallbackStep
<1>4. CASE \E l \in Leads : TakeOver(l) \/ HandBack(l)
  BY <1>4, TakeOverStep, HandBackStep
<1>5. CASE Crash
  BY <1>5, CrashStep
<1>6. CASE UNCHANGED vars
  BY <1>6, QuietStep
<1> QED
  BY <1>1, <1>2, <1>3, <1>4, <1>5, <1>6 DEF Next

\* jobs.py: whatever tasks, callbacks, recoveries, operators and crashes come
\* in between, the rows respect the queue's indexes and the order of their chat,
\* and a task finds its row as it left it, closed, or out of its lease.
THEOREM KommoInvariant == Spec => []IInv
<1> QED
  BY InitIInv, StepIInv, PTL DEF Spec

\* kommo/jobs.py: one AI turn, one Salesbot run and one answer to a job at most,
\* and one continuation of a run, whatever crashes and callbacks come again.
THEOREM JobsRunOnce == Spec => []AtMostOnce
<1>1. IInv => AtMostOnce
  <2> SUFFICES ASSUME IInv PROVE AtMostOnce
    OBVIOUS
  <2>1. ASSUME NEW j \in Messages PROVE turns[j] <= 1 /\ Len(heard[j]) <= 1
    <3>1. turns[j] \in {0, 1} /\ heard[j] \in {<<>>, <<"reply">>, <<"apology">>}
      BY DEF IInv, JobsInv, RowOK
    <3>2. turns[j] <= 1
      BY <3>1
    <3>3. CASE heard[j] = <<>>
      <4>1. Len(heard[j]) = 0
        BY <3>3
      <4> QED
        BY <3>2, <4>1
    <3>4. CASE heard[j] = <<"reply">>
      <4>1. Len(heard[j]) = 1
        BY <3>4
      <4> QED
        BY <3>2, <4>1
    <3>5. CASE heard[j] = <<"apology">>
      <4>1. Len(heard[j]) = 1
        BY <3>5
      <4> QED
        BY <3>2, <4>1
    <3> QED
      BY <3>1, <3>3, <3>4, <3>5
  <2>2. /\ \A r, s \in DOMAIN runs : runs[r].job = runs[s].job => r = s
        /\ \A r \in DOMAIN runs : runs[r].posts <= 1
    BY DEF IInv, JobsInv, RunsOK
  <2> QED
    BY <2>1, <2>2 DEF AtMostOnce, IInv
<1> QED
  BY <1>1, KommoInvariant, PTL

\* kommo/jobs.py: "sent" is only written when Kommo took the reply and the
\* history has it, and the history has no reply the customer did not receive.
THEOREM SentIsTrue == Spec => []Truthful
<1>1. IInv => Truthful
  BY DEF IInv, JobsInv, RowOK, Truthful, Is
<1> QED
  BY <1>1, KommoInvariant, PTL

\* _claim_due_pending_job, recover_stale_jobs: the statement of a claim, which
\* checks the other rows of the chat in an old snapshot, meets no active one.
THEOREM ChatsAreServedAlone == Spec => []OneActivePerChat
<1>1. IInv => OneActivePerChat
  BY DEF IInv, ChatsInv, Single, Related, Is, OneActivePerChat
<1> QED
  BY <1>1, KommoInvariant, PTL

-----------------------------------------------------------------------------
(* Closed rows                                                             *)

\* No row leaves or enters a final status, and all keep their messages.
Stays == \A k \in Messages :
    /\ jobs'[k].parts = jobs[k].parts
    /\ Is(k, Terminal) \/ Is(k, Terminal)' => jobs'[k].st = jobs[k].st

\* Row j, which was active, is closed; the others stay as they are.
Closing(j) ==
    /\ Is(j, Active) /\ Is(j, Terminal)'
    /\ \A k \in Messages : /\ jobs'[k].parts = jobs[k].parts
                           /\ k # j => jobs'[k].st = jobs[k].st
Course == Stays \/ \E j \in Messages : Closing(j)

LEMMA WriteStays ==
  ASSUME NEW j \in Messages, NEW st, NEW lease, NEW ai, Writes(j, st, lease, ai),
         st = jobs[j].st \/ (~Is(j, Terminal) /\ st \notin Terminal)
  PROVE  Course
  BY DEF Writes, Is, Course, Stays

LEMMA FinishCloses ==
  ASSUME IInv, NEW j \in Messages, Is(j, Active), NEW s \in Terminal, jobs' = Finish(j, s)
  PROVE  Course
<1>1. Writes(j, s, 0, jobs[j].ai)
  BY FinishWrites DEF IInv, TypeOK
<1>2. Is(j, Terminal)'
  BY <1>1 DEF Writes, Is
<1>3. \A k \in Messages : /\ jobs'[k].parts = jobs[k].parts
                          /\ k # j => jobs'[k].st = jobs[k].st
  BY <1>1 DEF Writes
<1> QED
  BY <1>2, <1>3 DEF Course, Closing

LEMMA MarkJobCourse ==
  ASSUME IInv, NEW w \in Workers, workers[w].step \in Busy, NEW s \in Terminal, MarkJob(w, s)
  PROVE  Course
<1>1. CASE HasLease(w)
  <2>1. Is(workers[w].job, Active) /\ workers[w].job \in Messages
    BY <1>1, Holder DEF Is, Active
  <2> QED
    BY <1>1, <2>1, FinishCloses DEF MarkJob
<1>2. CASE ~HasLease(w)
  BY <1>2 DEF MarkJob, Course, Stays
<1> QED
  BY <1>1, <1>2

LEMMA ClaimCourse ==
  ASSUME IInv, NEW w \in Workers, ClaimPending(w) \/ ClaimReady(w)
  PROVE  Course
<1>0. jobs \in [Messages -> Job]
  BY DEF IInv, TypeOK
<1>1. ASSUME NEW j \in Messages, NEW s, Is(j, {"pending", "ready"}), Claim(w, j, s)
      PROVE  Course
  <2>1. Writes(j, "processing", jobs[j].attempts + 1, s = "prepare")
    BY <1>0, <1>1, ClaimWrites
  <2>2. ~Is(j, Terminal) /\ "processing" \notin Terminal
    BY <1>1 DEF Is, Terminal
  <2> QED
    BY <2>1, <2>2, WriteStays
<1>2. CASE ClaimReady(w)
  BY <1>1, <1>2 DEF ClaimReady, Is
<1>3. CASE ClaimPending(w)
  <2> DEFINE open == {j \in workers[w].seen : Due(j)}
  <2>0. workers[w].seen \in SUBSET Messages
    BY TaskFields DEF IInv, TypeOK
  <2>1. CASE open # {}
    <3>1. open \in SUBSET Nat
      BY <2>0 DEF Messages
    <3>2. Min(open) \in open
      BY <2>1, <3>1, Earliest
    <3> PICK j \in Messages : j = Min(open) /\ j \in open
      BY <2>0, <3>2
    <3>3. Is(j, {"pending", "ready"})
      BY DEF Due, Is
    <3>4. Claim(w, j, "launch")
      BY <1>3, <2>1 DEF ClaimPending
    <3> QED
      BY <1>1, <3>3, <3>4
  <2>2. CASE open = {}
    BY <1>3, <2>2 DEF ClaimPending, Course, Stays
  <2> QED
    BY <2>1, <2>2
<1> QED
  BY <1>2, <1>3

LEMMA RecoverCourse ==
  ASSUME IInv, NEW j \in Messages, RecoverStale(j)
  PROVE  Course
<1>1. CASE TakeBack(j)
  <2>1. ~Is(j, Terminal) /\ "pending" \notin Terminal /\ "ready" \notin Terminal
    BY <1>1 DEF TakeBack, Unstarted, Stale, Is, Terminal
  <2> PICK s \in {"pending", "ready"} : jobs' = [Finish(j, s) EXCEPT ![j].timed = TRUE]
    BY <1>1 DEF TakeBack
  <2>2. Writes(j, s, 0, jobs[j].ai)
    BY FinishWrites DEF IInv, TypeOK
  <2> QED
    BY <2>1, <2>2, WriteStays
<1>2. CASE FailWaiting(j) \/ GiveUp(j) \/ Exhausted(j)
  <2>1. Is(j, Active)
    BY <1>2 DEF FailWaiting, GiveUp, Exhausted, Unstarted, Stale, Is, Active
  <2>2. jobs' = Finish(j, "failed") \/ jobs' = Finish(j, "delivery_unknown")
    BY <1>2 DEF FailWaiting, GiveUp, Exhausted
  <2>3. "failed" \in Terminal /\ "delivery_unknown" \in Terminal
    BY DEF Terminal
  <2> QED
    BY <2>1, <2>2, <2>3, FinishCloses
<1> QED
  BY <1>1, <1>2 DEF RecoverStale

LEMMA TurnCourse ==
  ASSUME IInv, NEW w \in Workers,
         \/ Prepare(w) \/ Generate(w) \/ Check(w) \/ Media(w) \/ KeepMedia(w)
         \/ MarkContinuing(w) \/ Post(w) \/ Store(w) \/ End(w)
  PROVE  Course
<1>0. workers[w].step \in Busy /\ jobs \in [Messages -> Job]
  BY DEF Prepare, Generate, Check, Media, KeepMedia, MarkContinuing, Post, Store, End,
         Busy, AI, IInv, TypeOK
<1> PICK j \in Messages : j = workers[w].job
  BY <1>0, Holder
<1>1. CASE UNCHANGED jobs
  BY <1>1 DEF Course, Stays
<1>2. CASE jobs' = [jobs EXCEPT ![j].kept = TRUE]
  BY <1>0, <1>2, KeptWrites, WriteStays
<1>3. CASE Owns(w) /\ jobs' = [jobs EXCEPT ![j].st = "continuing", ![j].timed = FALSE]
  <2>1. ~Is(j, Terminal) /\ "continuing" \notin Terminal
    BY <1>3 DEF Owns, Is, Terminal
  <2> QED
    BY <1>0, <1>3, <2>1, ContinuingWrites, WriteStays
<1>4. CASE Owns(w) /\ Retry(w)
  <2>1. ~Is(j, Terminal) /\ "ready" \notin Terminal
    BY <1>4 DEF Owns, Is, Terminal
  <2>2. jobs' = [jobs EXCEPT ![j].st = "ready", ![j].lease = 0, ![j].ai = FALSE,
                             ![j].timed = FALSE]
    BY <1>4 DEF Retry
  <2>3. jobs[j].run \in Nat
    BY <1>0, JobFields
  <2>4. Writes(j, "ready", 0, FALSE)
    BY <1>0, <2>2, <2>3, ReadyWrites
  <2> QED
    BY <2>1, <2>4, WriteStays
<1>5. CASE \E s \in Terminal : MarkJob(w, s)
  BY <1>0, <1>5, MarkJobCourse
<1>6. workers[w].ending \in Terminal
  BY TaskFields DEF IInv, TypeOK
<1>7. CASE Prepare(w)
  BY <1>1, <1>4, <1>7 DEF Prepare, Retry
<1>8. CASE Generate(w) \/ Check(w) \/ Media(w) \/ Post(w)
  BY <1>1, <1>8 DEF Generate, Check, Media, Post
<1>9. CASE KeepMedia(w) \/ Store(w)
  BY <1>1, <1>2, <1>9 DEF KeepMedia, Store
<1>10. CASE MarkContinuing(w)
  BY <1>1, <1>3, <1>10 DEF MarkContinuing
<1>11. CASE End(w)
  BY <1>1, <1>5, <1>6, <1>11 DEF End
<1> QED
  BY <1>7, <1>8, <1>9, <1>10, <1>11

LEMMA LaunchCourse ==
  ASSUME IInv, NEW w \in Workers, Launch(w) \/ RunSalesbot(w)
  PROVE  Course
<1>0. workers[w].step \in Busy /\ jobs \in [Messages -> Job] /\ launches \in Nat
  BY DEF Launch, RunSalesbot, Busy, IInv, TypeOK
<1> PICK j \in Messages : j = workers[w].job
  BY <1>0, Holder
<1>1. CASE UNCHANGED jobs
  BY <1>1 DEF Course, Stays
<1>2. CASE \E s \in {"failed", "discarded"} : MarkJob(w, s)
  BY <1>0, <1>2, MarkJobCourse DEF Terminal
<1>3. CASE Owns(w) /\ MarkWaiting(w)
  <2>1. ~Is(j, Terminal) /\ "waiting_for_salesbot" \notin Terminal
    BY <1>3 DEF Owns, Is, Terminal
  <2> QED
    BY <1>0, <1>3, <2>1, MarkWrites, WriteStays
<1>4. CASE Launch(w)
  BY <1>1, <1>2, <1>3, <1>4 DEF Launch
<1>5. CASE RunSalesbot(w)
  <2>1. UNCHANGED jobs \/ (jobs[j].st = "waiting_for_salesbot" /\ jobs' = Finish(j, "failed"))
    BY <1>5 DEF RunSalesbot
  <2>2. jobs[j].st = "waiting_for_salesbot" => Is(j, Active)
    BY DEF Is, Active
  <2>3. "failed" \in Terminal
    BY DEF Terminal
  <2> QED
    BY <1>1, <2>1, <2>2, <2>3, FinishCloses
<1> QED
  BY <1>4, <1>5

LEMMA CallbackCourse ==
  ASSUME IInv, NEW r \in DOMAIN runs, Callback(r)
  PROVE  Course
<1> PICK j \in Messages :
      /\ Is(j, {"waiting_for_salesbot"})
      /\ jobs' = [jobs EXCEPT ![j].st = "ready", ![j].run = r, ![j].lease = 0,
                              ![j].ai = FALSE, ![j].timed = FALSE]
  BY DEF Callback, Waiting, Is
<1>1. r \in Nat /\ jobs \in [Messages -> Job]
  BY RunNumbers DEF IInv, TypeOK
<1>2. Writes(j, "ready", 0, FALSE)
  BY <1>1, ReadyWrites
<1>3. ~Is(j, Terminal) /\ "ready" \notin Terminal
  BY DEF Is, Terminal
<1> QED
  BY <1>2, <1>3, WriteStays

LEMMA StepCourse ==
  ASSUME IInv, [Next]_vars, ~\E m \in Messages : RecordIncoming(m)
  PROVE  Course
<1>1. CASE UNCHANGED jobs
  BY <1>1 DEF Course, Stays
<1>2. CASE \E m \in Messages : TimePasses(m)
  <2> PICK m \in Messages : TimePasses(m)
    BY <1>2
  <2>1. jobs \in [Messages -> Job] /\ jobs' = [jobs EXCEPT ![m].timed = TRUE]
    BY DEF TimePasses, IInv, TypeOK
  <2> QED
    BY <2>1, TimedWrites, WriteStays
<1>3. CASE \E m \in Messages : RecoverStale(m)
  BY <1>3, RecoverCourse
<1>4. CASE \E w \in Workers : ClaimStarts(w)
  BY <1>1, <1>4 DEF ClaimStarts
<1>5. CASE \E w \in Workers : ClaimReady(w) \/ TaskStep(w)
  BY <1>5, ClaimCourse, LaunchCourse, TurnCourse DEF TaskStep
<1>6. CASE \E r \in DOMAIN runs : Callback(r)
  BY <1>6, CallbackCourse
<1>7. CASE \/ \E r \in DOMAIN runs : BotStarts(r)
           \/ \E l \in Leads : TakeOver(l) \/ HandBack(l)
           \/ Crash \/ UNCHANGED vars
  BY <1>1, <1>7 DEF BotStarts, TakeOver, HandBack, Crash, vars
<1> QED
  BY <1>2, <1>3, <1>4, <1>5, <1>6, <1>7 DEF Next

LEMMA RecordStays ==
  ASSUME IInv, NEW m \in Messages, RecordIncoming(m)
  PROVE  \A k \in Messages : Is(k, Terminal) \/ Is(k, Terminal)' => jobs'[k] = jobs[k]
<1> PICK p \in Messages :
      /\ \A k \in Messages : k # p => jobs'[k] = jobs[k]
      /\ jobs'[p].st = "pending" /\ Is(p, {"absent", "pending"})
  BY RecordWrites DEF IInv, TypeOK, Is
<1>1. ~Is(p, Terminal) /\ ~Is(p, Terminal)'
  BY DEF Is, Terminal
<1> QED
  BY <1>1

\* kommo/jobs.py: no late task, callback or recovery reopens a closed job or
\* writes another outcome over it: the lease of a final status is cleared, and
\* every other statement wants an open one.
THEOREM ClosedForGood == Spec => ClosedStaysClosed
<1>1. IInv /\ [Next]_vars =>
        [\A j \in Messages : jobs[j].st \in Terminal => jobs'[j].st = jobs[j].st]_vars
  <2> SUFFICES ASSUME IInv, [Next]_vars, NEW j \in Messages, Is(j, Terminal)
               PROVE  jobs'[j].st = jobs[j].st
    BY DEF Is
  <2>1. CASE \E m \in Messages : RecordIncoming(m)
    BY <2>1, RecordStays
  <2>2. CASE ~\E m \in Messages : RecordIncoming(m)
    <3>1. Course
      BY <2>2, StepCourse
    <3>2. ~Is(j, Active)
      BY DEF Is, Terminal, Active
    <3> QED
      BY <3>1, <3>2 DEF Course, Stays, Closing
  <2> QED
    BY <2>1, <2>2
<1> QED
  BY <1>1, KommoInvariant, PTL DEF Spec, ClosedStaysClosed

-----------------------------------------------------------------------------
(* What the customer hears                                                 *)

\* Task w tells its customer something, for the first time.
Speaks(w, what) ==
    /\ workers[w].step \in {"media", "post"} /\ workers[w].job \in Messages
    /\ workers[w].step = "post" => workers[w].says = what
    /\ heard[workers[w].job] = <<>> /\ Hears(w, what)
    /\ UNCHANGED <<jobs, receipts>>

LEMMA StepHears ==
  ASSUME IInv, [Next]_vars
  PROVE  UNCHANGED heard \/ \E w \in Workers : \E what \in {"reply", "apology"} : Speaks(w, what)
<1>1. CASE \E w \in Workers : Media(w)
  <2> PICK w \in Workers : Media(w)
    BY <1>1
  <2>1. workers[w].step = "media" /\ workers[w].step \in AI /\ UNCHANGED <<jobs, receipts>>
    BY DEF Media, AI
  <2>2. Turning(w) /\ workers[w].job \in Messages
    BY <2>1, AtTurn
  <2>3. heard[workers[w].job] = <<>>
    BY <2>1, <2>2 DEF Turning
  <2>4. Hears(w, "reply") \/ UNCHANGED heard
    BY DEF Media
  <2> QED
    BY <2>1, <2>2, <2>3, <2>4 DEF Speaks
<1>2. CASE \E w \in Workers : Post(w)
  <2> PICK w \in Workers : Post(w)
    BY <1>2
  <2>1. workers[w].step = "post" /\ workers[w].step \in AI /\ UNCHANGED <<jobs, receipts>>
    BY DEF Post, AI
  <2>2. Telling(w) /\ workers[w].job \in Messages
    BY <2>1, AtTurn
  <2>3. \/ UNCHANGED heard
        \/ workers[w].says # "nothing" /\ Hears(w, workers[w].says)
    BY DEF Post, Taken
  <2>4. workers[w].says # "nothing" => heard[workers[w].job] = <<>>
    BY <2>1, <2>2 DEF Telling
  <2>5. workers[w].says \in {"nothing", "reply", "apology"}
    BY TaskFields DEF IInv, TypeOK
  <2> QED
    BY <2>1, <2>2, <2>3, <2>4, <2>5 DEF Speaks
<1>3. CASE \E m \in Messages : RecordIncoming(m) \/ TimePasses(m) \/ RecoverStale(m)
  BY <1>3 DEF RecordIncoming, TimePasses, RecoverStale
<1>4. CASE \E w \in Workers : ClaimStarts(w) \/ ClaimReady(w) \/ ClaimPending(w)
  BY <1>4 DEF ClaimStarts, ClaimReady, ClaimPending, Claim
<1>5. CASE \E w \in Workers : \/ Launch(w) \/ RunSalesbot(w) \/ Prepare(w) \/ Generate(w)
                              \/ Check(w) \/ KeepMedia(w) \/ MarkContinuing(w)
                              \/ Store(w) \/ End(w)
  BY <1>5 DEF Launch, RunSalesbot, Prepare, Generate, Check, KeepMedia, MarkContinuing,
              Store, End
<1>6. CASE \/ \E r \in DOMAIN runs : BotStarts(r) \/ Callback(r)
           \/ \E l \in Leads : TakeOver(l) \/ HandBack(l)
           \/ Crash \/ UNCHANGED vars
  BY <1>6 DEF BotStarts, Callback, TakeOver, HandBack, Crash, vars
<1> QED
  BY <1>1, <1>2, <1>3, <1>4, <1>5, <1>6 DEF Next, TaskStep

LEMMA Words ==
  /\ \A x : Append(<<>>, x) = <<x>>
  /\ <<"apology">> # <<"reply">>
  /\ \A s \in {<<>>, <<"reply">>, <<"apology">>} : s # Append(s, "reply")
<1>1. \A x : Append(<<>>, x) = <<x>>
  OBVIOUS
<1>2. <<"apology">> # <<"reply">>
  <2>1. <<"apology">>[1] # <<"reply">>[1]
    OBVIOUS
  <2> QED
    BY <2>1
<1>3. ASSUME NEW s \in {<<>>, <<"reply">>, <<"apology">>} PROVE s # Append(s, "reply")
  <2>1. s \in Seq({"reply", "apology"})
    <3>1. <<"reply">> \in Seq({"reply", "apology"}) /\ <<"apology">> \in Seq({"reply", "apology"})
      OBVIOUS
    <3>2. <<>> \in Seq({"reply", "apology"})
      OBVIOUS
    <3> QED
      BY <3>1, <3>2
  <2>2. Len(Append(s, "reply")) = Len(s) + 1 /\ Len(s) \in Nat
    BY <2>1
  <2> QED
    BY <2>2
<1> QED
  BY <1>1, <1>2, <1>3

\* kommo/jobs.py: a reply generated while the lead was taken over is withheld
\* by the second decision, whatever the same job's other tasks do meanwhile.
THEOREM HandoffKept == Spec => HandoffRespected
<1>1. IInv /\ [Next]_vars =>
        [\A w \in Workers : workers[w].held =>
           heard'[workers[w].job] # Append(heard[workers[w].job], "reply")]_vars
  <2> SUFFICES ASSUME IInv, [Next]_vars, NEW w \in Workers, workers[w].held
               PROVE  heard'[workers[w].job] # Append(heard[workers[w].job], "reply")
    OBVIOUS
  <2>1. HandOK(w) /\ workers[w] \in Task
    BY DEF IInv, JobsInv, TypeOK
  <2>2. workers[w].step \in {"check", "mark", "post", "end"}
        /\ (workers[w].step = "post" => workers[w].says # "reply")
    BY <2>1 DEF HandOK, Withheld
  <2>3. workers[w].step \in AI /\ workers[w].step \in Busy
    BY <2>2 DEF AI, Busy
  <2> PICK j \in Messages : j = workers[w].job
    BY <2>3, Holder
  <2>4. heard[j] \in {<<>>, <<"reply">>, <<"apology">>} /\ heard \in [Messages -> Seq({"reply", "apology"})]
    BY DEF IInv, JobsInv, RowOK, TypeOK
  <2>5. CASE heard'[j] = heard[j]
    BY <2>4, <2>5, Words
  <2>6. CASE heard'[j] # heard[j]
    <3>1. PICK v \in Workers, what \in {"reply", "apology"} : Speaks(v, what)
      BY <2>6, StepHears
    <3>2. workers[v].job = j /\ heard'[j] = Append(heard[j], what)
      BY <2>4, <2>6, <3>1 DEF Speaks, Hears
    <3>3. workers[v].step \in AI /\ workers[v].step \in Busy
      BY <3>1 DEF Speaks, AI, Busy
    <3>4. v = w
      BY <2>3, <3>2, <3>3 DEF IInv, JobsInv, Apart
    <3>5. what = "apology" /\ heard[j] = <<>>
      BY <2>2, <3>1, <3>4 DEF Speaks
    <3> QED
      BY <3>2, <3>5, Words
  <2> QED
    BY <2>5, <2>6
<1> QED
  BY <1>1, KommoInvariant, PTL DEF Spec, HandoffRespected

-----------------------------------------------------------------------------
(* The jobs implement the promise of Answers                               *)

\* The row of a message, whichever it is chosen from.
LEMMA HomeOf ==
  ASSUME NEW rows, NEW m, NEW j \in Messages, m \in rows[j].parts,
         \A k \in Messages : m \in rows[k].parts => k = j
  PROVE  (CHOOSE k \in Messages : m \in rows[k].parts) = j
  OBVIOUS

\* Every recorded message has a row, and hears what is said to it.
LEMMA Home ==
  ASSUME IInv, NEW m \in Messages, m \in receipts
  PROVE  \E j \in Messages :
           /\ m \in jobs[j].parts /\ ~Is(j, {"absent"})
           /\ \A k \in Messages : m \in jobs[k].parts => k = j
           /\ Copies[m] = Len(heard[j])
<1> PICK j \in Messages : m \in jobs[j].parts
  BY DEF IInv, ChatsInv, Placed
<1>1. \A k \in Messages : m \in jobs[k].parts => k = j
  BY DEF IInv, ChatsInv, Placed
<1>2. ~Is(j, {"absent"})
  BY DEF IInv, ChatsInv, Filled, NoJob
<1>3. (CHOOSE k \in Messages : m \in jobs[k].parts) = j
  BY <1>1, HomeOf
<1>4. Copies[m] = Len(heard[j])
  BY <1>3 DEF Copies
<1> QED
  BY <1>1, <1>2, <1>4

\* A step that keeps the messages of every row changes copies as it says.
LEMMA CopiesNext ==
  ASSUME IInv, UNCHANGED receipts, \A k \in Messages : jobs'[k].parts = jobs[k].parts
  PROVE  Copies' = [m \in Messages |-> IF m \notin receipts THEN 0
                      ELSE Len(heard'[CHOOSE j \in Messages : m \in jobs[j].parts])]
<1> DEFINE was(m) == IF m \notin receipts THEN 0
                     ELSE Len(heard'[CHOOSE j \in Messages : m \in jobs[j].parts])
           is(m) == IF m \notin receipts' THEN 0
                    ELSE Len(heard'[CHOOSE j \in Messages : m \in jobs'[j].parts])
<1>1. ASSUME NEW m \in Messages PROVE is(m) = was(m)
  <2>1. CASE m \in receipts
    <3> PICK j \in Messages : /\ m \in jobs[j].parts
                              /\ \A k \in Messages : m \in jobs[k].parts => k = j
      BY <2>1, Home
    <3>1. (CHOOSE k \in Messages : m \in jobs[k].parts) = j
      BY HomeOf
    <3>2. (CHOOSE k \in Messages : m \in jobs'[k].parts) = j
      BY HomeOf
    <3>3. was(m) = Len(heard'[j])
      BY <2>1, <3>1
    <3>4. is(m) = Len(heard'[j])
      BY <2>1, <3>2
    <3> QED
      BY <3>3, <3>4
  <2>2. CASE m \notin receipts
    BY <2>2
  <2> QED
    BY <2>1, <2>2
<1>2. Copies' = [m \in Messages |-> is(m)]
  BY DEF Copies
<1> HIDE DEF is, was
<1>3. Copies' = [m \in Messages |-> was(m)]
  BY <1>1, <1>2
<1> QED
  BY <1>3 DEF was

LEMMA CopiesStill ==
  ASSUME IInv, UNCHANGED <<receipts, heard>>, \A k \in Messages : jobs'[k].parts = jobs[k].parts
  PROVE  Copies' = Copies
<1>1. Copies = [m \in Messages |-> IF m \notin receipts THEN 0
                  ELSE Len(heard'[CHOOSE j \in Messages : m \in jobs[j].parts])]
  BY DEF Copies
<1> QED
  BY <1>1, CopiesNext

LEMMA StaysPhases ==
  ASSUME UNCHANGED receipts, Stays
  PROVE  Phases' = Phases
<1>1. \A m \in Messages : Closes(m)' <=> Closes(m)
  BY DEF Closes, Stays, Is
<1> QED
  BY <1>1 DEF Phases

LEMMA ClosingPhases ==
  ASSUME IInv, UNCHANGED <<receipts, heard>>, NEW j \in Messages, Closing(j)
  PROVE  Promise!Next
<1> DEFINE batch == jobs[j].parts
<1>0. jobs[j] \in Job
  BY DEF IInv, TypeOK
<1>1. /\ Is(j, Active) /\ Is(j, Terminal)' /\ jobs'[j].parts = batch
      /\ \A k \in Messages : jobs'[k].parts = jobs[k].parts /\ (k # j => jobs'[k].st = jobs[k].st)
  BY DEF Closing
<1>2. ~Is(j, {"absent"}) /\ ~Is(j, Terminal)
  BY <1>1 DEF Is, Active, Terminal
<1>3. batch \in (SUBSET Messages) \ {{}} /\ \A m \in batch : m \in receipts
  BY <1>0, <1>2, JobFields DEF IInv, ChatsInv, Filled
<1>4. \A m \in batch : ~Closes(m)
  BY <1>2, <1>3 DEF IInv, ChatsInv, Placed, Closes, Is
<1>5. \A m \in batch : Closes(m)'
  BY <1>1 DEF Closes, Is
<1>6. \A m \in Messages \ batch : Closes(m)' <=> Closes(m)
  BY <1>1 DEF Closes
<1>7. \A m \in batch : Phases[m] = "open"
  BY <1>3, <1>4 DEF Phases
<1>8. Phases' = [m \in Messages |-> IF m \in batch THEN "closed" ELSE Phases[m]]
  BY <1>3, <1>5, <1>6 DEF Phases
<1>9. Copies' = Copies
  BY <1>1, CopiesStill
<1> HIDE DEF batch
<1>10. Promise!Close(batch)
  BY <1>7, <1>8, <1>9 DEF Promise!Close, Promise!Messages, Messages
<1> QED
  BY <1>3, <1>10 DEF Promise!Next, Promise!Messages, Messages

LEMMA RecordAccepts ==
  ASSUME IInv, NEW m \in Messages, RecordIncoming(m)
  PROVE  Promise!Accept(m)
<1>1. /\ m \notin receipts /\ 1..(m - 1) \subseteq receipts /\ receipts' = receipts \cup {m}
      /\ UNCHANGED heard /\ jobs \in [Messages -> Job] /\ ChatsInv
  BY DEF RecordIncoming, IInv, TypeOK
<1>2. PICK p \in Messages :
        /\ \A k \in Messages : k # p => jobs'[k] = jobs[k]
        /\ jobs'[p].st = "pending" /\ jobs'[p].parts = jobs[p].parts \cup {m}
        /\ Is(p, {"absent", "pending"})
  BY <1>1, RecordWrites DEF Is
<1>3. heard[p] = <<>>
  <2>1. Unasked(p)
    BY <1>2 DEF Unasked
  <2> QED
    BY <2>1 DEF IInv, JobsInv, RowOK, Fresh
<1>4. \A k \in Messages : m \notin jobs[k].parts
  BY <1>1 DEF ChatsInv, Filled
<1>5. \A i \in Messages : Closes(i)' <=> Closes(i)
  <2>1. "pending" \notin Terminal /\ ~Is(p, Terminal)
    BY <1>2 DEF Is, Terminal
  <2>2. \A k \in Messages : jobs'[k].st \in Terminal <=> jobs[k].st \in Terminal
    BY <1>2, <2>1 DEF Is
  <2>3. \A k \in Messages : jobs[k].st \in Terminal => jobs'[k] = jobs[k]
    BY <1>2, <2>1 DEF Is
  <2> QED
    BY <2>2, <2>3 DEF Closes
<1>6. ~Closes(m)
  BY <1>4 DEF Closes
<1>7. Phases[m] = "none" /\ \A i \in 1..(m - 1) : i \in Messages => Phases[i] # "none"
  BY <1>1 DEF Phases
<1>8. Phases' = [Phases EXCEPT ![m] = "open"]
  BY <1>1, <1>5, <1>6 DEF Phases
<1>9. Copies' = Copies
  <2>1. ASSUME NEW i \in Messages
        PROVE  (IF i \notin receipts' THEN 0
                ELSE Len(heard'[CHOOSE j \in Messages : i \in jobs'[j].parts])) = Copies[i]
    <3>1. CASE i \in receipts
      <4> PICK j \in Messages : /\ i \in jobs[j].parts
                                /\ \A k \in Messages : i \in jobs[k].parts => k = j
                                /\ Copies[i] = Len(heard[j])
        BY <3>1, Home
      <4>1. \A k \in Messages : i \in jobs'[k].parts <=> i \in jobs[k].parts
        BY <1>1, <1>2, <3>1
      <4>2. (CHOOSE k \in Messages : i \in jobs'[k].parts) = j
        BY <4>1, HomeOf
      <4> QED
        BY <1>1, <3>1, <4>2
    <3>2. CASE i = m
      <4>1. m \in jobs'[p].parts /\ \A k \in Messages : m \in jobs'[k].parts => k = p
        BY <1>2, <1>4
      <4>2. (CHOOSE k \in Messages : m \in jobs'[k].parts) = p
        BY <4>1, HomeOf
      <4>3. Len(heard'[p]) = 0
        BY <1>1, <1>3
      <4>4. Copies[m] = 0
        BY <1>1 DEF Copies
      <4> QED
        BY <1>1, <3>2, <4>2, <4>3, <4>4
    <3>3. CASE i \notin receipts /\ i # m
      BY <1>1, <3>3 DEF Copies
    <3> QED
      BY <3>1, <3>2, <3>3
  <2>2. Copies = [i \in Messages |-> Copies[i]]
    BY DEF Copies
  <2>3. Copies' = [i \in Messages |-> IF i \notin receipts' THEN 0
                     ELSE Len(heard'[CHOOSE j \in Messages : i \in jobs'[j].parts])]
    BY DEF Copies
  <2> QED
    BY <2>1, <2>2, <2>3
<1>10. 1..(m - 1) \subseteq Messages
  BY KommoAssumption DEF Messages
<1> QED
  BY <1>1, <1>7, <1>8, <1>9, <1>10 DEF Promise!Accept, Promise!Earlier

\* Whatever is said answers all messages of a row, of which the older ones of
\* the chat are in closed rows.
LEMMA SpeaksAnswers ==
  ASSUME IInv, NEW w \in Workers, NEW what \in {"reply", "apology"}, Speaks(w, what)
  PROVE  Promise!Next
<1> PICK j \in Messages : j = workers[w].job
  BY DEF Speaks
<1> DEFINE batch == jobs[j].parts
<1>0. /\ heard[j] = <<>> /\ heard' = [heard EXCEPT ![j] = Append(heard[j], what)]
      /\ UNCHANGED <<jobs, receipts>> /\ workers[w].step \in AI
      /\ heard \in [Messages -> Seq({"reply", "apology"})] /\ jobs[j] \in Job
  BY DEF Speaks, Hears, AI, IInv, TypeOK
<1>1. Is(j, Active \cup Terminal)
  <2>1. Turning(w)
    BY <1>0, AtTurn
  <2> QED
    BY <1>0, <2>1 DEF Turning, Is, Active
<1>2. Phases' = Phases
  BY <1>0, StaysPhases DEF Stays
<1>3. batch \in (SUBSET Messages) \ {{}} /\ \A m \in batch : m \in receipts
  <2>1. ~Is(j, {"absent"})
    BY <1>1, Statuses DEF Is
  <2> QED
    BY <1>0, <2>1, JobFields DEF IInv, ChatsInv, Filled
<1>4. ASSUME NEW m \in Messages, m \in receipts, NEW k \in Messages, m \in jobs[k].parts
      PROVE  (CHOOSE i \in Messages : m \in jobs[i].parts) = k
  <2>1. \A i \in Messages : m \in jobs[i].parts => i = k
    BY <1>4 DEF IInv, ChatsInv, Placed
  <2> QED
    BY <1>4, <2>1, HomeOf
<1>5. \A m \in batch : Phases[m] # "none" /\ Copies[m] = 0
  <2> SUFFICES ASSUME NEW m \in batch PROVE Phases[m] # "none" /\ Copies[m] = 0
    OBVIOUS
  <2>1. m \in Messages /\ m \in receipts
    BY <1>3
  <2>2. Copies[m] = Len(heard[j])
    BY <1>4, <2>1 DEF Copies
  <2>3. Len(heard[j]) = 0
    BY <1>0
  <2> QED
    BY <2>1, <2>2, <2>3 DEF Phases
<1>6. ASSUME NEW m \in batch, NEW i \in Messages, i < m, Chat(i) = Chat(m), i \notin batch
      PROVE  Phases[i] = "closed"
  <2>1. i \in receipts
    <3>1. i \in 1..(m - 1) /\ m \in receipts
      BY <1>3, <1>6, KommoAssumption DEF Messages
    <3> QED
      BY <3>1 DEF IInv, ChatsInv, Numbered
  <2> PICK k \in Messages : i \in jobs[k].parts /\ ~Is(k, {"absent"})
    BY <2>1, Home
  <2>2. Related(j, k)
    <3>1. Chat(i) = Chat(k) /\ Chat(m) = Chat(j)
      BY <1>3 DEF IInv, ChatsInv, Filled
    <3> QED
      BY <1>6, <3>1 DEF Related
  <2>3. ~Before(j, k)
    <3>1. m \in Int /\ i \in Int
      BY <1>3, KommoAssumption DEF Messages
    <3> QED
      BY <1>6, <3>1 DEF Before
  <2>4. ~Is(k, {"pending"})
    BY <1>1, <2>2, <2>3 DEF IInv, ChatsInv, Ordered
  <2>5. ~Is(k, Active)
    <3>1. Is(j, Active) => ~Is(k, Active)
      BY <2>2 DEF IInv, ChatsInv, Single
    <3>2. Is(j, Terminal) => ~Is(k, Active)
      BY <2>2, <2>3 DEF IInv, ChatsInv, Ordered
    <3> QED
      BY <1>1, <3>1, <3>2 DEF Is
  <2>6. jobs[k].st \in Terminal
    <3>1. jobs[k].st \in {"absent", "pending"} \cup Active \cup Terminal
      BY JobFields DEF IInv, TypeOK
    <3> QED
      BY <2>4, <2>5, <3>1 DEF Is
  <2>7. Closes(i)
    BY <2>6 DEF Closes
  <2> QED
    BY <2>1, <2>7 DEF Phases
<1>7. Copies' = [m \in Messages |-> IF m \in batch THEN 1 ELSE Copies[m]]
  <2>1. ASSUME NEW m \in Messages
        PROVE  (IF m \notin receipts THEN 0
                ELSE Len(heard'[CHOOSE k \in Messages : m \in jobs[k].parts]))
               = IF m \in batch THEN 1 ELSE Copies[m]
    <3>1. CASE m \in batch
      <4>1. (CHOOSE k \in Messages : m \in jobs[k].parts) = j /\ m \in receipts
        BY <1>3, <1>4, <3>1
      <4>2. heard'[j] = <<what>>
        BY <1>0, Words
      <4>3. Len(heard'[j]) = 1
        BY <4>2
      <4> QED
        BY <3>1, <4>1, <4>3
    <3>2. CASE m \notin batch /\ m \in receipts
      <4> PICK k \in Messages : m \in jobs[k].parts /\ Copies[m] = Len(heard[k])
        BY <3>2, Home
      <4>1. (CHOOSE i \in Messages : m \in jobs[i].parts) = k /\ k # j
        BY <1>4, <3>2
      <4>2. heard'[k] = heard[k]
        BY <1>0, <4>1
      <4> QED
        BY <3>2, <4>1, <4>2
    <3>3. CASE m \notin batch /\ m \notin receipts
      BY <3>3 DEF Copies
    <3> QED
      BY <3>1, <3>2, <3>3
  <2>2. Copies' = [m \in Messages |-> IF m \notin receipts THEN 0
                      ELSE Len(heard'[CHOOSE k \in Messages : m \in jobs[k].parts])]
    BY <1>0, CopiesNext
  <2> HIDE DEF batch
  <2> QED
    BY <2>1, <2>2
<1>8. \A m \in batch : \A i \in Promise!Earlier(m) \ batch : Phases[i] = "closed"
  <2> SUFFICES ASSUME NEW m \in batch, NEW i \in Promise!Earlier(m) \ batch
               PROVE  Phases[i] = "closed"
    OBVIOUS
  <2>1. i \in Messages /\ i < m /\ Chat(i) = Chat(m)
    <3>1. m \in 1..MaxMessages /\ MaxMessages \in Nat
      BY <1>3, KommoAssumption DEF Messages
    <3> QED
      BY <3>1 DEF Promise!Earlier, Messages, Chat
  <2> QED
    BY <1>6, <2>1
<1> HIDE DEF batch
<1>9. Promise!Answer(batch)
  BY <1>2, <1>5, <1>7, <1>8 DEF Promise!Answer, Promise!Messages, Messages
<1> QED
  BY <1>3, <1>9 DEF Promise!Next, Promise!Messages, Messages

LEMMA StepReceipts ==
  ASSUME [Next]_vars, ~\E m \in Messages : RecordIncoming(m)
  PROVE  UNCHANGED receipts
<1>1. CASE \E m \in Messages : TimePasses(m) \/ RecoverStale(m)
  BY <1>1 DEF TimePasses, RecoverStale
<1>2. CASE \E w \in Workers : ClaimStarts(w) \/ ClaimReady(w) \/ ClaimPending(w)
  BY <1>2 DEF ClaimStarts, ClaimReady, ClaimPending, Claim
<1>3. CASE \E w \in Workers : \/ Launch(w) \/ RunSalesbot(w) \/ Prepare(w) \/ Generate(w)
                              \/ Check(w) \/ Media(w) \/ KeepMedia(w) \/ MarkContinuing(w)
                              \/ Post(w) \/ Store(w) \/ End(w)
  BY <1>3 DEF Launch, RunSalesbot, Prepare, Generate, Check, Media, KeepMedia,
              MarkContinuing, Post, Store, End
<1>4. CASE \/ \E r \in DOMAIN runs : BotStarts(r) \/ Callback(r)
           \/ \E l \in Leads : TakeOver(l) \/ HandBack(l)
           \/ Crash \/ UNCHANGED vars
  BY <1>4 DEF BotStarts, Callback, TakeOver, HandBack, Crash, vars
<1> QED
  BY <1>1, <1>2, <1>3, <1>4 DEF Next, TaskStep

LEMMA StepAnswers == IInv /\ [Next]_vars => [Promise!Next]_<<Phases, Copies>>
<1> SUFFICES ASSUME IInv, [Next]_vars
             PROVE  Promise!Next \/ UNCHANGED <<Phases, Copies>>
  OBVIOUS
<1>1. CASE \E m \in Messages : RecordIncoming(m)
  BY <1>1, RecordAccepts DEF Promise!Next, Promise!Messages, Messages
<1>2. CASE \E w \in Workers : \E what \in {"reply", "apology"} : Speaks(w, what)
  BY <1>2, SpeaksAnswers
<1>3. CASE ~(\E m \in Messages : RecordIncoming(m)) /\ UNCHANGED heard
  <2>1. UNCHANGED receipts
    BY <1>3, StepReceipts
  <2>2. CASE Stays
    <3>1. Copies' = Copies
      <4>1. \A k \in Messages : jobs'[k].parts = jobs[k].parts
        BY <2>2 DEF Stays
      <4> QED
        BY <1>3, <2>1, <4>1, CopiesStill
    <3> QED
      BY <2>1, <2>2, <3>1, StaysPhases
  <2>3. CASE \E j \in Messages : Closing(j)
    BY <1>3, <2>1, <2>3, ClosingPhases
  <2> QED
    BY <1>3, <2>2, <2>3, StepCourse DEF Course
<1> QED
  BY <1>1, <1>2, <1>3, StepHears

LEMMA InitAnswers == Init => Promise!Init
  BY DEF Init, Phases, Copies, Promise!Init, Promise!Messages, Messages

\* kommo/jobs.py: the jobs, their tasks, callbacks and recoveries implement the
\* promise of Answers: a message is answered once at most, in the order of its
\* chat, together with the messages of its job, and closed for good.
THEOREM JobsImplement == Spec => AnswersImplemented
<1> QED
  BY KommoInvariant, InitAnswers, StepAnswers, PTL DEF Spec, AnswersImplemented, Promise!Spec
=============================================================================
