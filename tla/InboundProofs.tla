---------------------------- MODULE InboundProofs ----------------------------
(***************************************************************************)
(* Theorems about MetaInbound for any messages, senders, workers and       *)
(* bounds: the queue implements the promise of module Answers, and leases  *)
(* protect who holds them.                                                 *)
(***************************************************************************)
EXTENDS MetaInbound, FiniteSetTheorems, SequenceTheorems, TLAPS

Has(j, m) == Contains(jobs[j].parts, m)
Is(j, S) == jobs[j].st \in S
Ended == Terminal \ {"merged"}      \* closed for good
Live == Open \cup Ended             \* rows a message is placed in

-----------------------------------------------------------------------------
(* The rows                                                                *)

TaskShape == [step : {"free", "generate", "fence", "send", "record", "complete", "requeue"},
              job : Messages \cup {0}, lease : Nat, parts : Seq(Messages),
              left : Int, tries : Int, hit : BOOLEAN, safe : BOOLEAN]
Shape ==
    /\ jobs \in [Messages -> Job]
    /\ workers \in [Workers -> TaskShape]
    /\ answers \in [Messages -> Nat]
    /\ receipts \subseteq Messages /\ leases \in Nat

\* Messages are accepted in the order of their numbers; a row is named by one.
Numbered == \A m \in receipts : 1..(m - 1) \subseteq receipts
Inserted == \A j \in Messages : ~Is(j, {"absent"}) => j \in receipts

\* What is in a row was accepted, and is of the row's sender.
Filled ==
    \A j \in Messages : ~Is(j, {"absent"}) =>
        /\ \E m \in Messages : Has(j, m)
        /\ \A m \in Messages : Has(j, m) => m \in receipts /\ From[m] = From[j]

\* Every accepted message has one place.
Placed ==
    /\ \A m \in receipts : \E j \in Messages : Is(j, Live) /\ Has(j, m)
    /\ \A j, k, m \in Messages : Is(j, Live) /\ Is(k, Live) /\ Has(j, m) /\ Has(k, m) => j = k

\* The two partial unique indexes, and the batch at work before the one that waits.
Unique == \A j, k \in Messages : From[j] = From[k] /\ Is(j, Open) /\ jobs[j].st = jobs[k].st => j = k
InOrder ==
    \A j, k, m, n \in Messages :
        From[j] = From[k] /\ Is(j, {"processing"}) /\ Is(k, {"pending"}) /\ Has(j, m) /\ Has(k, n) => m < n

RowsInv == Numbered /\ Inserted /\ Filled /\ Placed /\ Unique /\ InOrder

-----------------------------------------------------------------------------
(* Sequences                                                               *)

LEMMA ContainsOne ==
  ASSUME NEW m \in Messages, NEW x
  PROVE  Contains(<<m>>, x) <=> x = m
  BY DEF Contains

LEMMA ContainsAppend ==
  ASSUME NEW s \in Seq(Messages), NEW m \in Messages, NEW x
  PROVE  Contains(Append(s, m), x) <=> Contains(s, x) \/ x = m
<1>1. /\ Len(Append(s, m)) = Len(s) + 1 /\ Len(s) \in Nat
      /\ Append(s, m)[Len(s) + 1] = m
      /\ \A i \in 1..Len(s) : Append(s, m)[i] = s[i]
  OBVIOUS
<1>2. ASSUME Contains(Append(s, m), x) PROVE Contains(s, x) \/ x = m
  BY <1>1, <1>2 DEF Contains
<1>3. ASSUME Contains(s, x) PROVE Contains(Append(s, m), x)
  BY <1>1, <1>3 DEF Contains
<1>4. Contains(Append(s, m), m)
  BY <1>1 DEF Contains
<1> QED
  BY <1>2, <1>3, <1>4

LEMMA ContainsConcat ==
  ASSUME NEW s \in Seq(Messages), NEW t \in Seq(Messages), NEW x
  PROVE  Contains(s \o t, x) <=> Contains(s, x) \/ Contains(t, x)
<1>1. /\ Len(s) \in Nat /\ Len(t) \in Nat /\ Len(s \o t) = Len(s) + Len(t)
      /\ \A i \in 1..Len(s) : (s \o t)[i] = s[i]
      /\ \A i \in 1..(Len(s) + Len(t)) : i > Len(s) => (s \o t)[i] = t[i - Len(s)]
  BY ConcatProperties
<1>2. ASSUME Contains(s \o t, x) PROVE Contains(s, x) \/ Contains(t, x)
  <2> PICK i \in 1..(Len(s) + Len(t)) : (s \o t)[i] = x
    BY <1>1, <1>2 DEF Contains
  <2>1. CASE i <= Len(s)
    BY <1>1, <2>1 DEF Contains
  <2>2. CASE i > Len(s)
    <3>1. i - Len(s) \in 1..Len(t) /\ t[i - Len(s)] = x
      BY <1>1, <2>2
    <3> QED
      BY <3>1 DEF Contains
  <2> QED
    BY <1>1, <2>1, <2>2
<1>3. ASSUME Contains(s, x) PROVE Contains(s \o t, x)
  BY <1>1, <1>3 DEF Contains
<1>4. ASSUME Contains(t, x) PROVE Contains(s \o t, x)
  <2> PICK i \in 1..Len(t) : t[i] = x
    BY <1>4 DEF Contains
  <2>1. /\ Len(s) + i \in 1..(Len(s) + Len(t)) /\ Len(s) + i > Len(s)
        /\ (Len(s) + i) - Len(s) = i
    BY <1>1
  <2>2. (s \o t)[Len(s) + i] = x
    BY <1>1, <2>1
  <2> QED
    BY <1>1, <2>1, <2>2 DEF Contains
<1> QED
  BY <1>2, <1>3, <1>4

-----------------------------------------------------------------------------
(* What a transaction does to the rows                                     *)

\* Row j keeps its status and its messages.
Alike(j) == jobs'[j].st = jobs[j].st /\ jobs'[j].parts = jobs[j].parts

LEMMA AlikeRows ==
  ASSUME RowsInv, UNCHANGED receipts, \A j \in Messages : Alike(j)
  PROVE  RowsInv'
<1>1. \A j \in Messages : jobs'[j].st = jobs[j].st /\ jobs'[j].parts = jobs[j].parts
  BY DEF Alike
<1>2. Numbered' /\ Inserted'
  BY <1>1 DEF RowsInv, Numbered, Inserted, Is
<1>3. Filled'
  BY <1>1 DEF RowsInv, Filled, Is, Has
<1>4. Placed'
  BY <1>1 DEF RowsInv, Placed, Is, Has
<1>5. Unique' /\ InOrder'
  BY <1>1 DEF RowsInv, Unique, InOrder, Is, Has
<1> QED
  BY <1>2, <1>3, <1>4, <1>5 DEF RowsInv

\* A claim, an end, or a return to pending with nothing newer there.
LEMMA StatusRows ==
  ASSUME RowsInv, UNCHANGED receipts, NEW j \in Messages,
         \A k \in Messages \ {j} : Alike(k),
         jobs'[j].parts = jobs[j].parts,
         \/ /\ jobs[j].st = "pending" /\ jobs'[j].st = "processing"
            /\ \A k \in Messages : From[k] = From[j] => jobs[k].st # "processing"
         \/ jobs[j].st = "processing" /\ jobs'[j].st \in Ended
         \/ /\ jobs[j].st = "processing" /\ jobs'[j].st = "pending"
            /\ \A k \in Messages : From[k] = From[j] => jobs[k].st # "pending"
  PROVE  RowsInv'
<1>1. /\ \A k \in Messages : jobs'[k].parts = jobs[k].parts
      /\ \A k \in Messages : k # j => jobs'[k].st = jobs[k].st
  BY DEF Alike
<1>2. jobs[j].st \in Open /\ jobs'[j].st \in Live
  BY DEF Open, Live
<1>3. Numbered' /\ Inserted'
  BY <1>1, <1>2 DEF RowsInv, Numbered, Inserted, Is, Open
<1>4. Filled'
  BY <1>1, <1>2 DEF RowsInv, Filled, Is, Has, Open
<1>5. Placed'
  BY <1>1, <1>2 DEF RowsInv, Placed, Is, Has, Live
<1>6. Unique'
  <2> SUFFICES ASSUME NEW k \in Messages, NEW l \in Messages, From[k] = From[l],
                      jobs'[k].st \in Open, jobs'[k].st = jobs'[l].st
               PROVE  k = l
    BY DEF Unique, Is
  <2>1. CASE k # j /\ l # j
    BY <1>1, <2>1 DEF RowsInv, Unique, Is
  <2>2. CASE k = j /\ l # j
    BY <1>1, <2>2 DEF Open, Ended, Terminal, Failures
  <2>3. CASE k # j /\ l = j
    BY <1>1, <2>3 DEF Open, Ended, Terminal, Failures
  <2> QED
    BY <2>1, <2>2, <2>3
<1>7. InOrder'
  <2> SUFFICES ASSUME NEW k \in Messages, NEW l \in Messages, NEW m \in Messages, NEW n \in Messages,
                      From[k] = From[l], jobs'[k].st = "processing", jobs'[l].st = "pending",
                      Has(k, m), Has(l, n)
               PROVE  m < n
    BY <1>1 DEF InOrder, Is, Has
  <2>1. CASE k # j /\ l # j
    BY <1>1, <2>1 DEF RowsInv, InOrder, Is
  <2>2. CASE k = j
    <3>1. jobs[j].st = "pending" /\ l # j /\ jobs[l].st = "pending"
      BY <1>1, <2>2 DEF Ended, Terminal, Failures
    <3> QED
      BY <2>2, <3>1 DEF RowsInv, Unique, Is, Open
  <2>3. CASE l = j
    <3>1. jobs[j].st = "processing" /\ k # j /\ jobs[k].st = "processing"
      BY <1>1, <2>3 DEF Ended, Terminal, Failures
    <3> QED
      BY <2>3, <3>1 DEF RowsInv, Unique, Is, Open
  <2> QED
    BY <2>1, <2>2, <2>3
<1> QED
  BY <1>3, <1>4, <1>5, <1>6, <1>7 DEF RowsInv

LEMMA MergeRows ==
  ASSUME Shape, RowsInv, UNCHANGED receipts, NEW j \in Messages, NEW p \in Messages,
         jobs[j].st = "processing", jobs[p].st = "pending", From[j] = From[p],
         \A k \in Messages \ {j, p} : Alike(k),
         jobs'[j].st = "merged", jobs'[j].parts = jobs[j].parts,
         jobs'[p].st = "pending", jobs'[p].parts = jobs[j].parts \o jobs[p].parts
  PROVE  RowsInv'
<1>1. /\ j # p
      /\ \A k \in Messages : k # p => jobs'[k].parts = jobs[k].parts
      /\ \A k \in Messages : k # j => jobs'[k].st = jobs[k].st
  BY DEF Alike
<1>2. \A m : Contains(jobs'[p].parts, m) <=> Has(j, m) \/ Has(p, m)
  BY ContainsConcat DEF Shape, Job, Has
<1>3. Numbered' /\ Inserted'
  BY <1>1 DEF RowsInv, Numbered, Inserted, Is
<1>4. Filled'
  BY <1>1, <1>2 DEF RowsInv, Filled, Is, Has
<1>5. Placed'
  <2>1. ASSUME NEW m \in receipts PROVE \E k \in Messages : jobs'[k].st \in Live /\ Contains(jobs'[k].parts, m)
    <3> PICK k \in Messages : Is(k, Live) /\ Has(k, m)
      BY DEF RowsInv, Placed
    <3>1. CASE k \in {j, p}
      <4>1. jobs'[p].st \in Live /\ Contains(jobs'[p].parts, m)
        BY <1>2, <3>1 DEF Live, Open
      <4> QED
        BY <4>1
    <3>2. CASE k \notin {j, p}
      BY <1>1, <3>2 DEF Is, Has
    <3> QED
      BY <3>1, <3>2
  <2>2. ASSUME NEW k \in Messages, NEW l \in Messages, NEW m \in Messages,
               jobs'[k].st \in Live, jobs'[l].st \in Live,
               Contains(jobs'[k].parts, m), Contains(jobs'[l].parts, m)
        PROVE  k = l
    <3>1. k # j /\ l # j /\ Is(k, Live) /\ Is(l, Live) /\ Is(j, Live)
      BY <1>1, <2>2 DEF Live, Open, Ended, Terminal, Failures, Is
    <3>2. CASE k # p /\ l # p
      BY <1>1, <2>2, <3>1, <3>2 DEF RowsInv, Placed, Has
    <3>3. CASE k = p /\ l # p
      <4>1. Has(l, m) /\ (Has(j, m) \/ Has(p, m))
        BY <1>1, <1>2, <2>2, <3>3 DEF Has
      <4> QED
        BY <3>1, <3>3, <4>1 DEF RowsInv, Placed
    <3>4. CASE k # p /\ l = p
      <4>1. Has(k, m) /\ (Has(j, m) \/ Has(p, m))
        BY <1>1, <1>2, <2>2, <3>4 DEF Has
      <4> QED
        BY <3>1, <3>4, <4>1 DEF RowsInv, Placed
    <3> QED
      BY <3>2, <3>3, <3>4
  <2> QED
    BY <2>1, <2>2 DEF Placed, Is, Has
<1>6. Unique'
  BY <1>1 DEF RowsInv, Unique, Is, Open
<1>7. InOrder'
  <2> SUFFICES ASSUME NEW k \in Messages, NEW l \in Messages, NEW m \in Messages, NEW n \in Messages,
                      From[k] = From[l], jobs'[k].st = "processing", jobs'[l].st = "pending",
                      Contains(jobs'[k].parts, m), Contains(jobs'[l].parts, n)
               PROVE  m < n
    BY DEF InOrder, Is, Has
  <2>1. k # j /\ k # p /\ l # j /\ jobs[k].st = "processing" /\ jobs[l].st = "pending"
    BY <1>1
  <2>2. CASE l = p
    BY <2>1, <2>2 DEF RowsInv, Unique, Is, Open
  <2>3. CASE l # p
    BY <1>1, <2>1, <2>3 DEF RowsInv, InOrder, Is, Has
  <2> QED
    BY <2>2, <2>3
<1> QED
  BY <1>3, <1>4, <1>5, <1>6, <1>7 DEF RowsInv

\* A message joins the pending batch of its sender.
LEMMA AppendRows ==
  ASSUME Shape, RowsInv, NEW m \in Messages, m \notin receipts, 1..(m - 1) \subseteq receipts,
         receipts' = receipts \cup {m},
         NEW j \in Messages, jobs[j].st = "pending", From[j] = From[m],
         \A k \in Messages \ {j} : Alike(k),
         jobs'[j].st = "pending", jobs'[j].parts = Append(jobs[j].parts, m)
  PROVE  RowsInv'
<1>1. /\ \A k \in Messages : k # j => jobs'[k].parts = jobs[k].parts
      /\ \A k \in Messages : jobs'[k].st = jobs[k].st
  BY DEF Alike
<1>2. \A n : Contains(jobs'[j].parts, n) <=> Has(j, n) \/ n = m
  BY ContainsAppend DEF Shape, Job, Has
<1>3. Numbered' /\ Inserted'
  <2>1. Numbered'
    BY DEF RowsInv, Numbered
  <2> QED
    BY <1>1, <2>1 DEF RowsInv, Inserted, Is
<1>4. \A k \in Messages : jobs[k].st # "absent" => ~Has(k, m)
  BY DEF RowsInv, Filled, Is
<1>5. Filled'
  <2> SUFFICES ASSUME NEW k \in Messages, jobs'[k].st # "absent"
               PROVE  /\ \E n \in Messages : Contains(jobs'[k].parts, n)
                      /\ \A n \in Messages : Contains(jobs'[k].parts, n)
                                             => n \in receipts' /\ From[n] = From[k]
    BY DEF Filled, Is, Has
  <2>1. CASE k = j
    BY <1>1, <1>2, <2>1 DEF RowsInv, Filled, Is
  <2>2. CASE k # j
    BY <1>1, <2>2 DEF RowsInv, Filled, Is, Has
  <2> QED
    BY <2>1, <2>2
<1>6. Placed'
  <2>1. ASSUME NEW n \in receipts' PROVE \E k \in Messages : jobs'[k].st \in Live /\ Contains(jobs'[k].parts, n)
    <3>1. CASE n = m
      BY <1>2, <3>1 DEF Live, Open
    <3>2. CASE n # m
      <4> PICK k \in Messages : Is(k, Live) /\ Has(k, n)
        BY <3>2 DEF RowsInv, Placed
      <4>1. jobs'[k].st \in Live /\ Contains(jobs'[k].parts, n)
        BY <1>1, <1>2 DEF Is, Has
      <4> QED
        BY <4>1
    <3> QED
      BY <3>1, <3>2
  <2>2. ASSUME NEW k \in Messages, NEW l \in Messages, NEW n \in Messages,
               jobs'[k].st \in Live, jobs'[l].st \in Live,
               Contains(jobs'[k].parts, n), Contains(jobs'[l].parts, n)
        PROVE  k = l
    <3>1. /\ Is(k, Live) /\ Is(l, Live) /\ jobs[k].st # "absent" /\ jobs[l].st # "absent"
      BY <1>1, <2>2 DEF Live, Open, Ended, Terminal, Failures, Is
    <3>2. CASE n = m
      BY <1>1, <1>4, <2>2, <3>1, <3>2 DEF Has
    <3>3. CASE n # m
      <4>1. Has(k, n) /\ Has(l, n)
        BY <1>1, <1>2, <2>2, <3>3 DEF Has
      <4> QED
        BY <3>1, <4>1 DEF RowsInv, Placed
    <3> QED
      BY <3>2, <3>3
  <2> QED
    BY <2>1, <2>2 DEF Placed, Is, Has
<1>7. Unique'
  BY <1>1 DEF RowsInv, Unique, Is
<1>8. InOrder'
  <2> SUFFICES ASSUME NEW k \in Messages, NEW l \in Messages, NEW i \in Messages, NEW n \in Messages,
                      From[k] = From[l], jobs'[k].st = "processing", jobs'[l].st = "pending",
                      Contains(jobs'[k].parts, i), Contains(jobs'[l].parts, n)
               PROVE  i < n
    BY DEF InOrder, Is, Has
  <2>1. k # j /\ Has(k, i) /\ i \in receipts /\ jobs[k].st = "processing" /\ jobs[l].st = "pending"
    BY <1>1 DEF RowsInv, Filled, Is, Has
  <2>2. CASE Has(l, n)
    BY <2>1, <2>2 DEF RowsInv, InOrder, Is
  <2>3. CASE n = m
    <3>1. i # m /\ ~(m < i)
      BY <2>1 DEF RowsInv, Numbered, Messages
    <3> QED
      BY <2>3, <3>1, InboundAssumption DEF Messages
  <2> QED
    BY <1>1, <1>2, <2>2, <2>3 DEF Has
<1> QED
  BY <1>3, <1>5, <1>6, <1>7, <1>8 DEF RowsInv

\* A message opens a batch.
LEMMA InsertRows ==
  ASSUME Shape, RowsInv, NEW m \in Messages, m \notin receipts, 1..(m - 1) \subseteq receipts,
         receipts' = receipts \cup {m},
         \A k \in Messages : From[k] = From[m] => jobs[k].st # "pending",
         \A k \in Messages \ {m} : Alike(k),
         jobs'[m].st = "pending", jobs'[m].parts = <<m>>
  PROVE  RowsInv'
<1>1. /\ \A k \in Messages : k # m => jobs'[k].parts = jobs[k].parts
      /\ \A k \in Messages : k # m => jobs'[k].st = jobs[k].st
      /\ jobs[m].st = "absent"
  BY DEF Alike, RowsInv, Inserted, Is
<1>2. \A n : Contains(jobs'[m].parts, n) <=> n = m
  BY ContainsOne
<1>3. Numbered' /\ Inserted'
  <2>1. Numbered'
    BY DEF RowsInv, Numbered
  <2> QED
    BY <1>1, <2>1 DEF RowsInv, Inserted, Is
<1>4. \A k \in Messages : jobs[k].st # "absent" => ~Has(k, m)
  BY DEF RowsInv, Filled, Is
<1>5. Filled'
  <2> SUFFICES ASSUME NEW k \in Messages, jobs'[k].st # "absent"
               PROVE  /\ \E n \in Messages : Contains(jobs'[k].parts, n)
                      /\ \A n \in Messages : Contains(jobs'[k].parts, n)
                                             => n \in receipts' /\ From[n] = From[k]
    BY DEF Filled, Is, Has
  <2>1. CASE k = m
    BY <1>2, <2>1
  <2>2. CASE k # m
    BY <1>1, <2>2 DEF RowsInv, Filled, Is, Has
  <2> QED
    BY <2>1, <2>2
<1>6. Placed'
  <2>1. ASSUME NEW n \in receipts' PROVE \E k \in Messages : jobs'[k].st \in Live /\ Contains(jobs'[k].parts, n)
    <3>1. CASE n = m
      BY <1>2, <3>1 DEF Live, Open
    <3>2. CASE n # m
      <4> PICK k \in Messages : Is(k, Live) /\ Has(k, n)
        BY <3>2 DEF RowsInv, Placed
      <4>1. k # m
        BY <1>1 DEF Is, Live, Open, Ended, Terminal, Failures
      <4>2. jobs'[k].st \in Live /\ Contains(jobs'[k].parts, n)
        BY <1>1, <4>1 DEF Is, Has
      <4> QED
        BY <4>2
    <3> QED
      BY <3>1, <3>2
  <2>2. ASSUME NEW k \in Messages, NEW l \in Messages, NEW n \in Messages,
               jobs'[k].st \in Live, jobs'[l].st \in Live,
               Contains(jobs'[k].parts, n), Contains(jobs'[l].parts, n)
        PROVE  k = l
    <3>1. \A i \in Messages : i # m /\ jobs'[i].st \in Live => Is(i, Live) /\ jobs[i].st # "absent"
      BY <1>1 DEF Live, Open, Ended, Terminal, Failures, Is
    <3>2. CASE k # m /\ l # m
      BY <1>1, <2>2, <3>1, <3>2 DEF RowsInv, Placed, Has
    <3>3. CASE k = m /\ l # m
      BY <1>1, <1>2, <1>4, <2>2, <3>1, <3>3 DEF Has
    <3>4. CASE k # m /\ l = m
      BY <1>1, <1>2, <1>4, <2>2, <3>1, <3>4 DEF Has
    <3> QED
      BY <3>2, <3>3, <3>4
  <2> QED
    BY <2>1, <2>2 DEF Placed, Is, Has
<1>7. Unique'
  BY <1>1 DEF RowsInv, Unique, Is, Open
<1>8. InOrder'
  <2> SUFFICES ASSUME NEW k \in Messages, NEW l \in Messages, NEW i \in Messages, NEW n \in Messages,
                      From[k] = From[l], jobs'[k].st = "processing", jobs'[l].st = "pending",
                      Contains(jobs'[k].parts, i), Contains(jobs'[l].parts, n)
               PROVE  i < n
    BY DEF InOrder, Is, Has
  <2>1. k # m /\ Has(k, i) /\ i \in receipts /\ jobs[k].st = "processing"
    BY <1>1 DEF RowsInv, Filled, Is, Has
  <2>2. CASE l # m
    BY <1>1, <2>1, <2>2 DEF RowsInv, InOrder, Is, Has
  <2>3. CASE l = m
    <3>1. n = m /\ i # m /\ ~(m < i)
      BY <1>2, <2>1, <2>3 DEF RowsInv, Numbered, Messages
    <3> QED
      BY <3>1, InboundAssumption DEF Messages
  <2> QED
    BY <2>2, <2>3
<1> QED
  BY <1>3, <1>5, <1>6, <1>7, <1>8 DEF RowsInv

-----------------------------------------------------------------------------
(* The workers                                                             *)

Busy(w) == workers[w].step # "free"
Row(w) == jobs[workers[w].job]
Held(w) == Row(w).st = "processing" /\ Row(w).lease = workers[w].lease

\* Past the fence, with a send begun, recorded or accepted.
Fenced(w) == workers[w].step \in {"send", "record"} \/ workers[w].hit

\* Tokens are issued once; whoever holds the lease knows the whole batch.
Leased ==
    /\ \A j \in Messages : jobs[j].lease <= leases
    /\ \A w \in Workers : workers[w].hit => Busy(w)
    /\ \A w \in Workers : Busy(w) =>
         /\ workers[w].job \in Messages /\ workers[w].lease \in 1..leases
         /\ Held(w) => workers[w].parts = Row(w).parts
    /\ \A v, w \in Workers : Busy(v) /\ Busy(w) /\ workers[v].lease = workers[w].lease => v = w

\* A worker past the fence keeps its batch from everybody else for good: while
\* its lease lasts the row is marked as started, then the row is closed.
Exclusive ==
    /\ \A w \in Workers : Fenced(w) =>
         /\ workers[w].parts = Row(w).parts
         /\ (Held(w) /\ Row(w).started) \/ Row(w).st \in Ended
    /\ \A v, w \in Workers : Fenced(v) /\ Fenced(w) /\ workers[v].job = workers[w].job => v = w

\* Where an answered message is, and what the row and the worker know of it.
Known ==
    /\ \A m \in Messages : answers[m] # 0 =>
         \E j \in Messages :
           /\ Has(j, m)
           /\ \/ Is(j, Ended)
              \/ /\ Is(j, {"processing"}) /\ jobs[j].started
                 /\ \A w \in Workers : Busy(w) /\ workers[w].job = j /\ Held(w) => workers[w].hit
    /\ \A w \in Workers : workers[w].hit /\ Held(w) =>
         \/ Row(w).sent \/ workers[w].step = "record"
         \/ workers[w].step = "requeue" /\ ~workers[w].safe

\* What is past the fence may be answered now: once, and in the chat's order.
Answerable ==
    \A w \in Workers : Fenced(w) =>
        /\ ~workers[w].hit => \A m \in Messages : Contains(workers[w].parts, m) => answers[m] = 0
        /\ \A m, i \in Messages :
             Contains(workers[w].parts, m) /\ i < m /\ From[i] = From[m] /\ ~Contains(workers[w].parts, i)
             => \E k \in Messages : Is(k, Ended) /\ Has(k, i)

WorkInv == Leased /\ Exclusive /\ Known /\ Answerable
IInv == Shape /\ RowsInv /\ WorkInv

\* What can become of a row in a step that serves no worker, or its last one.
Unmoved(j) == /\ jobs'[j].st = jobs[j].st /\ jobs'[j].parts = jobs[j].parts
              /\ jobs'[j].lease = jobs[j].lease
              /\ jobs'[j].started = jobs[j].started /\ jobs'[j].sent = jobs[j].sent
Closed(j) == /\ jobs[j].st = "processing" /\ jobs'[j].st \in Ended
             /\ jobs'[j].parts = jobs[j].parts /\ jobs'[j].lease = 0
Waits(j) == /\ jobs[j].st \in {"absent", "pending"} /\ jobs'[j].st = "pending"
            /\ jobs'[j].lease <= leases
Returned(j) == /\ jobs[j].st = "processing" /\ jobs'[j].st \in {"pending", "merged"}
               /\ jobs'[j].parts = jobs[j].parts /\ jobs'[j].lease = 0
               /\ \A m \in Messages : Has(j, m) => answers[m] = 0
               /\ \A w \in Workers : Fenced(w) /\ workers[w].job = j => workers'[w] = Free

LEMMA RowStep ==
  ASSUME Shape, WorkInv, UNCHANGED <<leases, answers>>,
         \A w \in Workers : workers'[w] \in {workers[w], Free},
         \A j \in Messages : Unmoved(j) \/ Closed(j) \/ Waits(j) \/ Returned(j)
  PROVE  WorkInv'
<1>0. Free.step = "free" /\ ~Free.hit
  BY DEF Free
\* Who is busy after the step was so before, with the same task.
<1>1. /\ \A w \in Workers : Busy(w)' => workers'[w] = workers[w] /\ Busy(w)
      /\ \A w \in Workers : Fenced(w)' => workers'[w] = workers[w] /\ Fenced(w) /\ Busy(w)
  BY <1>0 DEF Busy, Fenced, WorkInv, Leased
<1>2. \A w \in Workers : Busy(w) => workers[w].job \in Messages /\ workers[w].lease \in 1..leases
  BY DEF WorkInv, Leased
<1>3. leases \in Nat /\ \A j \in Messages : jobs[j].lease \in Nat
  BY DEF Shape, Job
\* A lease that is held was held, of a row that did not move.
<1>4. ASSUME NEW w \in Workers, Busy(w)', Held(w)'
      PROVE  Held(w) /\ Unmoved(workers[w].job)
  <2> DEFINE j == workers[w].job
  <2>1. /\ workers'[w] = workers[w] /\ j \in Messages /\ workers[w].lease \in 1..leases
        /\ jobs'[j].st = "processing" /\ jobs'[j].lease = workers[w].lease
    BY <1>1, <1>2, <1>4 DEF Held, Row
  <2>2. Unmoved(j)
    BY <1>3, <2>1 DEF Closed, Waits, Returned, Ended, Terminal, Failures
  <2> QED
    BY <2>1, <2>2 DEF Unmoved, Held, Row
\* What is closed stays what it is.
<1>5. ASSUME NEW j \in Messages, jobs[j].st \in Ended
      PROVE  jobs'[j].st = jobs[j].st /\ jobs'[j].parts = jobs[j].parts
  BY <1>5 DEF Unmoved, Closed, Waits, Returned, Ended, Terminal, Failures
<1>6. Leased'
  <2>1. \A j \in Messages : jobs'[j].lease <= leases'
    BY <1>3 DEF Unmoved, Closed, Waits, Returned, WorkInv, Leased
  <2>2. \A w \in Workers : Busy(w)' => /\ workers'[w].job \in Messages /\ workers'[w].lease \in 1..leases'
                                       /\ Held(w)' => workers'[w].parts = Row(w)'.parts
    BY <1>1, <1>2, <1>4 DEF Unmoved, WorkInv, Leased, Row
  <2>3. \A w \in Workers : workers'[w].hit => Busy(w)'
    BY <1>0 DEF WorkInv, Leased, Busy
  <2>4. \A v, w \in Workers : Busy(v)' /\ Busy(w)' /\ workers'[v].lease = workers'[w].lease => v = w
    BY <1>1 DEF WorkInv, Leased
  <2> QED
    BY <2>1, <2>2, <2>3, <2>4 DEF Leased
<1>7. Exclusive'
  <2>1. ASSUME NEW w \in Workers, Fenced(w)'
        PROVE  /\ workers'[w].parts = Row(w)'.parts
               /\ (Held(w)' /\ Row(w)'.started) \/ Row(w)'.st \in Ended
    <3> DEFINE j == workers[w].job
    <3>1. workers'[w] = workers[w] /\ Fenced(w) /\ Busy(w) /\ j \in Messages
      BY <1>1, <1>2, <2>1
    <3>2. /\ workers[w].parts = jobs[j].parts
          /\ (Held(w) /\ jobs[j].started) \/ jobs[j].st \in Ended
      BY <3>1 DEF WorkInv, Exclusive, Row
    <3>3. CASE jobs[j].st \in Ended
      BY <1>5, <3>1, <3>2, <3>3 DEF Row
    <3>4. CASE Held(w) /\ jobs[j].started
      <4>1. jobs[j].st = "processing" /\ workers'[w] # Free
        BY <1>0, <3>1, <3>4 DEF Held, Row, Fenced
      <4>2. Unmoved(j) \/ Closed(j)
        BY <3>1, <4>1 DEF Waits, Returned
      <4> QED
        BY <3>1, <3>2, <3>4, <4>2 DEF Unmoved, Closed, Held, Row
    <3> QED
      BY <3>2, <3>3, <3>4
  <2>2. \A v, w \in Workers : Fenced(v)' /\ Fenced(w)' /\ workers'[v].job = workers'[w].job => v = w
    BY <1>1 DEF WorkInv, Exclusive
  <2> QED
    BY <2>1, <2>2 DEF Exclusive
<1>8. Known'
  <2>1. ASSUME NEW m \in Messages, answers'[m] # 0
        PROVE  \E j \in Messages :
                 /\ Has(j, m)'
                 /\ \/ Is(j, Ended)'
                    \/ /\ Is(j, {"processing"})' /\ jobs'[j].started
                       /\ \A w \in Workers : Busy(w)' /\ workers'[w].job = j /\ Held(w)' => workers'[w].hit
    <3> PICK j \in Messages :
           /\ Has(j, m)
           /\ \/ Is(j, Ended)
              \/ /\ Is(j, {"processing"}) /\ jobs[j].started
                 /\ \A w \in Workers : Busy(w) /\ workers[w].job = j /\ Held(w) => workers[w].hit
      BY <2>1 DEF WorkInv, Known
    <3>1. CASE jobs[j].st \in Ended
      <4>1. Has(j, m)' /\ Is(j, Ended)'
        BY <1>5, <3>1 DEF Has, Is
      <4> QED
        BY <4>1
    <3>2. CASE jobs[j].st \notin Ended
      <4>1. /\ jobs[j].st = "processing" /\ jobs[j].started
            /\ \A w \in Workers : Busy(w) /\ workers[w].job = j /\ Held(w) => workers[w].hit
        BY <3>2 DEF Is
      <4>2. Unmoved(j) \/ Closed(j)
        BY <2>1, <4>1 DEF Waits, Returned
      <4>3. CASE Closed(j)
        <5>1. Has(j, m)' /\ Is(j, Ended)'
          BY <4>3 DEF Closed, Has, Is
        <5> QED
          BY <5>1
      <4>4. CASE Unmoved(j)
        <5>1. Has(j, m)' /\ Is(j, {"processing"})' /\ jobs'[j].started
          BY <4>1, <4>4 DEF Unmoved, Has, Is
        <5>2. ASSUME NEW w \in Workers, Busy(w)', workers'[w].job = j, Held(w)'
              PROVE  workers'[w].hit
          BY <1>1, <1>4, <4>1, <5>2
        <5> QED
          BY <5>1, <5>2
      <4> QED
        BY <4>2, <4>3, <4>4
    <3> QED
      BY <3>1, <3>2
  <2>2. ASSUME NEW w \in Workers, workers'[w].hit, Held(w)'
        PROVE  \/ Row(w)'.sent \/ workers'[w].step = "record"
               \/ workers'[w].step = "requeue" /\ ~workers'[w].safe
    <3>1. Busy(w)' /\ workers'[w] = workers[w]
      BY <1>1, <2>2 DEF Fenced, Busy, WorkInv, Leased
    <3>2. Held(w) /\ Unmoved(workers[w].job)
      BY <1>4, <2>2, <3>1
    <3> QED
      BY <2>2, <3>1, <3>2 DEF WorkInv, Known, Unmoved, Row
  <2> QED
    BY <2>1, <2>2 DEF Known
<1>9. Answerable'
  <2> SUFFICES ASSUME NEW w \in Workers, Fenced(w)'
               PROVE  /\ ~workers'[w].hit =>
                         \A m \in Messages : Contains(workers'[w].parts, m) => answers'[m] = 0
                      /\ \A m, i \in Messages :
                           Contains(workers'[w].parts, m) /\ i < m /\ From[i] = From[m]
                           /\ ~Contains(workers'[w].parts, i)
                           => \E k \in Messages : Is(k, Ended)' /\ Has(k, i)'
    BY DEF Answerable
  <2>1. workers'[w] = workers[w] /\ Fenced(w)
    BY <1>1
  <2>2. \A k, i \in Messages : Is(k, Ended) /\ Has(k, i) => Is(k, Ended)' /\ Has(k, i)'
    BY <1>5 DEF Is, Has
  <2> QED
    BY <2>1, <2>2 DEF WorkInv, Answerable
<1> QED
  BY <1>6, <1>7, <1>8, <1>9 DEF WorkInv

\* A step of a worker w that stays at work on its row.
LEMMA WorkerMoves ==
  ASSUME Shape, RowsInv, WorkInv, UNCHANGED leases,
         NEW w \in Workers, NEW new, Busy(w),
         workers' = [workers EXCEPT ![w] = new],
         new.step # "free", new.job = workers[w].job, new.lease = workers[w].lease,
         new.parts = workers[w].parts,
         \A j \in Messages : /\ jobs'[j].st = jobs[j].st /\ jobs'[j].parts = jobs[j].parts
                             /\ jobs'[j].lease = jobs[j].lease
                             /\ jobs[j].started => jobs'[j].started
                             /\ jobs[j].sent => jobs'[j].sent,
         new.step \in {"send", "record"} \/ new.hit
           => Fenced(w) \/ (Held(w) /\ jobs'[workers[w].job].started),
         workers[w].hit => new.hit,
         new.hit /\ Held(w) => \/ jobs'[workers[w].job].sent \/ new.step = "record"
                               \/ new.step = "requeue" /\ ~new.safe,
         \/ UNCHANGED answers /\ (new.hit => workers[w].hit)
         \/ /\ Fenced(w) /\ new.hit
            /\ \A m \in Messages : answers'[m] # answers[m]
                                   => ~workers[w].hit /\ Contains(workers[w].parts, m)
  PROVE  WorkInv'
<1> DEFINE row == workers[w].job
<1>1. /\ \A v \in Workers \ {w} : workers'[v] = workers[v]
      /\ workers'[w] = new
  BY DEF Shape
<1>2. /\ \A v \in Workers : Busy(v)' <=> Busy(v)
      /\ \A v \in Workers : /\ workers'[v].job = workers[v].job /\ workers'[v].lease = workers[v].lease
                            /\ workers'[v].parts = workers[v].parts
      /\ row \in Messages
      /\ \A v \in Workers : Busy(v) => workers[v].job \in Messages
  BY <1>1 DEF Busy, WorkInv, Leased
<1>3. \A v \in Workers : Busy(v) => (Held(v)' <=> Held(v))
  BY <1>2 DEF Held, Row
<1>4. \A v \in Workers : Fenced(v) => Busy(v)
  BY DEF Fenced, Busy, WorkInv, Leased
<1>5. \A v \in Workers : v # w => (Fenced(v)' <=> Fenced(v))
  BY <1>1 DEF Fenced
<1>6. Fenced(w)' => Fenced(w) \/ (Held(w) /\ jobs'[row].started)
  BY <1>1 DEF Fenced
<1>7. Leased'
  <2>1. \A v \in Workers : workers'[v].hit => Busy(v)'
    BY <1>1, <1>2 DEF WorkInv, Leased, Busy
  <2>2. \A v \in Workers : Busy(v)' => /\ workers'[v].job \in Messages /\ workers'[v].lease \in 1..leases'
                                       /\ Held(v)' => workers'[v].parts = Row(v)'.parts
    BY <1>2, <1>3 DEF WorkInv, Leased, Row
  <2> QED
    BY <1>2, <2>1, <2>2 DEF Leased, WorkInv
\* Past the fence nobody shares a row.
<1>8. ASSUME NEW v \in Workers, v # w, Fenced(v), Fenced(w)'
      PROVE  workers[v].job # row
  <2>1. CASE Fenced(w)
    BY <1>8, <2>1 DEF WorkInv, Exclusive
  <2>2. CASE Held(w)
    <3>1. jobs[row].st = "processing" /\ jobs[row].lease = workers[w].lease
      BY <2>2 DEF Held, Row
    <3>2. SUFFICES ASSUME workers[v].job = row PROVE FALSE
      OBVIOUS
    <3>3. Held(v)
      BY <1>8, <3>1, <3>2 DEF WorkInv, Exclusive, Row, Ended, Terminal, Failures
    <3>4. Busy(v) /\ workers[v].lease = workers[w].lease
      BY <1>4, <1>8, <3>1, <3>2, <3>3 DEF Held, Row
    <3> QED
      BY <1>8, <3>4 DEF WorkInv, Leased
  <2> QED
    BY <1>6, <1>8, <2>1, <2>2
<1>9. Exclusive'
  <2>1. ASSUME NEW v \in Workers, Fenced(v)'
        PROVE  /\ workers'[v].parts = Row(v)'.parts
               /\ (Held(v)' /\ Row(v)'.started) \/ Row(v)'.st \in Ended
    <3>1. CASE Fenced(v)
      <4>1. /\ workers[v].parts = jobs[workers[v].job].parts /\ workers[v].job \in Messages /\ Busy(v)
            /\ (Held(v) /\ jobs[workers[v].job].started) \/ jobs[workers[v].job].st \in Ended
        BY <1>2, <1>4, <3>1 DEF WorkInv, Exclusive, Row
      <4> QED
        BY <1>2, <1>3, <4>1 DEF Row
    <3>2. CASE v = w /\ Held(w) /\ jobs'[row].started
      BY <1>2, <1>3, <3>2 DEF Row, WorkInv, Leased
    <3> QED
      BY <1>5, <1>6, <2>1, <3>1, <3>2
  <2>2. \A u, v \in Workers : Fenced(u)' /\ Fenced(v)' /\ workers'[u].job = workers'[v].job => u = v
    BY <1>2, <1>5, <1>8 DEF WorkInv, Exclusive
  <2> QED
    BY <2>1, <2>2 DEF Exclusive
<1>10. Known'
  <2>1. ASSUME NEW m \in Messages, answers'[m] # 0
        PROVE  \E j \in Messages :
                 /\ Has(j, m)'
                 /\ \/ Is(j, Ended)'
                    \/ /\ Is(j, {"processing"})' /\ jobs'[j].started
                       /\ \A v \in Workers : Busy(v)' /\ workers'[v].job = j /\ Held(v)' => workers'[v].hit
    <3>1. CASE answers[m] # 0
      <4> PICK j \in Messages :
             /\ Has(j, m)
             /\ \/ Is(j, Ended)
                \/ /\ Is(j, {"processing"}) /\ jobs[j].started
                   /\ \A v \in Workers : Busy(v) /\ workers[v].job = j /\ Held(v) => workers[v].hit
        BY <3>1 DEF WorkInv, Known
      <4>1. Has(j, m)' /\ (Is(j, Ended)' <=> Is(j, Ended)) /\ (Is(j, {"processing"})' <=> Is(j, {"processing"}))
        BY DEF Has, Is
      <4>2. \A v \in Workers : workers[v].hit => workers'[v].hit
        BY <1>1
      <4> QED
        BY <1>2, <1>3, <4>1, <4>2
    <3>2. CASE answers[m] = 0
      <4>1. Fenced(w) /\ new.hit /\ Contains(workers[w].parts, m)
        BY <2>1, <3>2
      <4>2. /\ workers[w].parts = jobs[row].parts
            /\ (Held(w) /\ jobs[row].started) \/ jobs[row].st \in Ended
        BY <4>1 DEF WorkInv, Exclusive, Row
      <4>3. Has(row, m)' /\ jobs'[row].st = jobs[row].st
        BY <1>2, <4>1, <4>2 DEF Has
      <4>4. CASE jobs[row].st \in Ended
        BY <1>2, <4>3, <4>4 DEF Is
      <4>5. CASE Held(w) /\ jobs[row].started
        <5>1. Is(row, {"processing"})' /\ jobs'[row].started
          BY <1>2, <4>3, <4>5 DEF Is, Held, Row
        <5>2. ASSUME NEW v \in Workers, Busy(v)', workers'[v].job = row, Held(v)'
              PROVE  workers'[v].hit
          <6>1. Busy(v) /\ workers[v].job = row /\ Held(v)
            BY <1>2, <1>3, <5>2
          <6>2. workers[v].lease = workers[w].lease
            BY <4>5, <6>1 DEF Held, Row
          <6>3. v = w
            BY <6>1, <6>2 DEF WorkInv, Leased
          <6> QED
            BY <1>1, <4>1, <6>3
        <5> QED
          BY <1>2, <4>3, <5>1, <5>2
      <4> QED
        BY <4>2, <4>4, <4>5
    <3> QED
      BY <3>1, <3>2
  <2>2. ASSUME NEW v \in Workers, workers'[v].hit, Held(v)'
        PROVE  \/ Row(v)'.sent \/ workers'[v].step = "record"
               \/ workers'[v].step = "requeue" /\ ~workers'[v].safe
    <3>1. Busy(v) /\ Held(v)
      BY <1>1, <1>2, <1>3, <2>2 DEF WorkInv, Leased
    <3>2. CASE v = w
      BY <1>1, <2>2, <3>1, <3>2 DEF Row
    <3>3. CASE v # w
      BY <1>1, <1>2, <2>2, <3>1, <3>3 DEF Row, WorkInv, Known
    <3> QED
      BY <3>2, <3>3
  <2> QED
    BY <2>1, <2>2 DEF Known
<1>11. Answerable'
  <2>1. \A k, i \in Messages : Is(k, Ended) /\ Has(k, i) => Is(k, Ended)' /\ Has(k, i)'
    BY DEF Is, Has
  <2>2. ASSUME NEW v \in Workers, Fenced(v), Fenced(v)', NEW m \in Messages,
               ~workers'[v].hit, Contains(workers[v].parts, m)
        PROVE  answers'[m] = 0
    <3>1. ~workers[v].hit /\ answers[m] = 0
      BY <1>1, <2>2 DEF WorkInv, Answerable
    <3>2. CASE UNCHANGED answers
      BY <3>1, <3>2
    <3>3. CASE Fenced(w) /\ new.hit /\ Contains(workers[w].parts, m)
      <4>1. v # w /\ workers[v].job # row
        BY <1>1, <2>2, <3>3 DEF WorkInv, Exclusive
      <4>2. /\ workers[v].job \in Messages
            /\ Has(workers[v].job, m) /\ Has(row, m)
            /\ Is(workers[v].job, Live) /\ Is(row, Live)
        BY <1>2, <1>4, <2>2, <3>3 DEF WorkInv, Exclusive, Row, Held, Has, Is, Live, Open
      <4> QED
        BY <1>2, <4>1, <4>2 DEF RowsInv, Placed
    <3>4. CASE answers'[m] = answers[m]
      BY <3>1, <3>4
    <3> QED
      BY <3>2, <3>3, <3>4
\* At its fence, a batch is the oldest of its chat and unanswered.
  <2>3. ASSUME Held(w), jobs'[row].started
        PROVE  /\ ~new.hit => \A m \in Messages : Contains(workers[w].parts, m) => answers[m] = 0
               /\ \A m, i \in Messages :
                    Contains(workers[w].parts, m) /\ i < m /\ From[i] = From[m] /\ ~Contains(workers[w].parts, i)
                    => \E k \in Messages : Is(k, Ended) /\ Has(k, i)
    <3>1. workers[w].parts = jobs[row].parts /\ jobs[row].st = "processing"
      BY <2>3 DEF WorkInv, Leased, Held, Row
    <3>2. ASSUME NEW m \in Messages, Has(row, m), answers[m] # 0
          PROVE  workers[w].hit
      <4> PICK j \in Messages :
             /\ Has(j, m)
             /\ \/ Is(j, Ended)
                \/ /\ Is(j, {"processing"}) /\ jobs[j].started
                   /\ \A v \in Workers : Busy(v) /\ workers[v].job = j /\ Held(v) => workers[v].hit
        BY <3>2 DEF WorkInv, Known
      <4>1. Is(row, Live) /\ Is(j, Live)
        BY <3>1 DEF Is, Live, Open
      <4>2. j = row
        BY <1>2, <3>2, <4>1 DEF RowsInv, Placed
      <4> QED
        BY <2>3, <3>1, <4>2 DEF Is, Ended, Terminal, Failures
    <3>3. ASSUME NEW m \in Messages, NEW i \in Messages, Has(row, m), i < m, From[i] = From[m], ~Has(row, i)
          PROVE  \E k \in Messages : Is(k, Ended) /\ Has(k, i)
      <4>1. m \in receipts /\ From[m] = From[row]
        BY <1>2, <3>1, <3>3 DEF RowsInv, Filled, Is
      <4>2. i \in receipts
        BY <3>3, <4>1, InboundAssumption DEF RowsInv, Numbered, Messages
      <4> PICK k \in Messages : Is(k, Live) /\ Has(k, i)
        BY <4>2 DEF RowsInv, Placed
      <4>3. From[k] = From[row] /\ k # row
        BY <3>3, <4>1 DEF RowsInv, Filled, Is, Live, Open, Ended, Terminal, Failures
      <4>4. CASE jobs[k].st = "processing"
        BY <1>2, <3>1, <4>3, <4>4 DEF RowsInv, Unique, Is, Open
      <4>5. CASE jobs[k].st = "pending"
        <5>1. m < i
          BY <1>2, <3>1, <3>3, <4>3, <4>5 DEF RowsInv, InOrder, Is
        <5> QED
          BY <3>3, <5>1, InboundAssumption DEF Messages
      <4> QED
        BY <4>4, <4>5 DEF Is, Live, Open
    <3> QED
      BY <3>1, <3>2, <3>3 DEF Has
  <2> SUFFICES ASSUME NEW v \in Workers, Fenced(v)'
               PROVE  /\ ~workers'[v].hit =>
                         \A m \in Messages : Contains(workers'[v].parts, m) => answers'[m] = 0
                      /\ \A m, i \in Messages :
                           Contains(workers'[v].parts, m) /\ i < m /\ From[i] = From[m]
                           /\ ~Contains(workers'[v].parts, i)
                           => \E k \in Messages : Is(k, Ended)' /\ Has(k, i)'
    BY DEF Answerable
  <2>4. CASE Fenced(v)
    <3>1. \A m, i \in Messages :
            Contains(workers[v].parts, m) /\ i < m /\ From[i] = From[m] /\ ~Contains(workers[v].parts, i)
            => \E k \in Messages : Is(k, Ended) /\ Has(k, i)
      BY <2>4 DEF WorkInv, Answerable
    <3> QED
      BY <1>2, <2>1, <2>2, <2>4, <3>1
  <2>5. CASE ~Fenced(v)
    <3>1. v = w /\ Held(w) /\ jobs'[row].started /\ ~Fenced(w)
      BY <1>5, <1>6, <2>5
    <3>2. UNCHANGED answers
      BY <3>1
    <3> QED
      BY <1>1, <1>2, <2>1, <2>3, <3>1, <3>2
  <2> QED
    BY <2>4, <2>5
<1> QED
  BY <1>7, <1>9, <1>10, <1>11 DEF WorkInv

\* A claim.
LEMMA ClaimWork ==
  ASSUME Shape, RowsInv, WorkInv, NEW w \in Workers, ~Busy(w), NEW j \in Messages,
         jobs[j].st = "pending", Lease(w, j)
  PROVE  WorkInv'
<1>1. /\ leases' = leases + 1 /\ leases \in Nat /\ answers' = answers
      /\ \A k \in Messages \ {j} : jobs'[k] = jobs[k]
      /\ jobs'[j].st = "processing" /\ jobs'[j].lease = leases + 1
      /\ jobs'[j].parts = jobs[j].parts
      /\ \A v \in Workers \ {w} : workers'[v] = workers[v]
  BY DEF Lease, Shape, Job
<1>2. /\ workers'[w].step = "generate" /\ workers'[w].job = j /\ workers'[w].lease = leases + 1
      /\ workers'[w].parts = jobs[j].parts /\ workers'[w].hit = FALSE
  BY DEF Lease, Shape, Free
<1>3. \A v \in Workers : v # w => /\ Busy(v)' <=> Busy(v)
                                  /\ Fenced(v)' <=> Fenced(v)
  BY <1>1 DEF Busy, Fenced
<1>4. Busy(w)' /\ ~Fenced(w)'
  BY <1>2 DEF Busy, Fenced
<1>5. \A v \in Workers : Fenced(v) => Busy(v)
  BY DEF Fenced, Busy, WorkInv, Leased
<1>6. \A v \in Workers : Busy(v) => workers[v].job \in Messages /\ workers[v].lease \in 1..leases
  BY DEF WorkInv, Leased
\* The lease of another worker is neither won nor lost, and not on this row.
<1>7. ASSUME NEW v \in Workers, v # w, Busy(v)
      PROVE  /\ Held(v)' <=> Held(v)
             /\ Held(v) => workers[v].job # j
             /\ Held(v)' => workers[v].job # j
  <2>1. workers'[v] = workers[v] /\ workers[v].job \in Messages /\ workers[v].lease # leases + 1
    BY <1>1, <1>6, <1>7
  <2>2. CASE workers[v].job = j
    BY <1>1, <2>1, <2>2 DEF Held, Row
  <2>3. CASE workers[v].job # j
    BY <1>1, <2>1, <2>3 DEF Held, Row
  <2> QED
    BY <2>2, <2>3
<1>8. \A k, m \in Messages : Is(k, Ended) /\ Has(k, m) => Is(k, Ended)' /\ Has(k, m)'
  BY <1>1 DEF Is, Has, Ended, Terminal, Failures
<1>9. Leased'
  <2>1. ASSUME NEW k \in Messages PROVE jobs'[k].lease <= leases'
    <3>1. jobs[k].lease \in Nat /\ jobs[k].lease <= leases
      BY DEF WorkInv, Leased, Shape, Job
    <3>2. CASE k = j
      BY <1>1, <3>2
    <3>3. CASE k # j
      <4>1. jobs'[k].lease = jobs[k].lease
        BY <1>1, <3>3
      <4> QED
        BY <1>1, <3>1, <4>1
    <3> QED
      BY <3>2, <3>3
  <2>2. \A v \in Workers : workers'[v].hit => Busy(v)'
    BY <1>1, <1>2, <1>3 DEF WorkInv, Leased
  <2>3. ASSUME NEW v \in Workers, Busy(v)'
        PROVE  /\ workers'[v].job \in Messages /\ workers'[v].lease \in 1..leases'
               /\ Held(v)' => workers'[v].parts = Row(v)'.parts
    <3>1. CASE v = w
      BY <1>1, <1>2, <3>1 DEF Row
    <3>2. CASE v # w
      <4>1. Busy(v) /\ workers'[v] = workers[v]
        BY <1>1, <1>3, <2>3, <3>2
      <4>2. workers'[v].job \in Messages /\ workers'[v].lease \in 1..leases'
        BY <1>1, <1>6, <4>1
      <4>3. Held(v)' => workers'[v].parts = Row(v)'.parts
        BY <1>1, <1>6, <1>7, <3>2, <4>1 DEF Row, WorkInv, Leased
      <4> QED
        BY <4>2, <4>3
    <3> QED
      BY <3>1, <3>2
  <2>4. \A u, v \in Workers : Busy(u)' /\ Busy(v)' /\ workers'[u].lease = workers'[v].lease => u = v
    BY <1>1, <1>2, <1>3, <1>6 DEF WorkInv, Leased
  <2> QED
    BY <2>1, <2>2, <2>3, <2>4 DEF Leased
<1>10. Exclusive'
  <2>1. ASSUME NEW v \in Workers, Fenced(v)'
        PROVE  /\ workers'[v].parts = Row(v)'.parts
               /\ (Held(v)' /\ Row(v)'.started) \/ Row(v)'.st \in Ended
    <3>1. v # w /\ Fenced(v) /\ Busy(v) /\ workers'[v] = workers[v] /\ workers[v].job \in Messages
      BY <1>1, <1>3, <1>4, <1>5, <1>6, <2>1
    <3>2. /\ workers[v].parts = jobs[workers[v].job].parts
          /\ (Held(v) /\ jobs[workers[v].job].started) \/ jobs[workers[v].job].st \in Ended
      BY <3>1 DEF WorkInv, Exclusive, Row
    <3>3. workers[v].job # j
      BY <1>7, <3>1, <3>2 DEF Ended, Terminal, Failures
    <3>4. jobs'[workers[v].job] = jobs[workers[v].job]
      BY <1>1, <3>1, <3>3
    <3> QED
      BY <1>7, <3>1, <3>2, <3>4 DEF Row
  <2>2. \A u, v \in Workers : Fenced(u)' /\ Fenced(v)' /\ workers'[u].job = workers'[v].job => u = v
    BY <1>1, <1>3, <1>4 DEF WorkInv, Exclusive
  <2> QED
    BY <2>1, <2>2 DEF Exclusive
<1>11. Known'
  <2>1. ASSUME NEW m \in Messages, answers'[m] # 0
        PROVE  \E k \in Messages :
                 /\ Has(k, m)'
                 /\ \/ Is(k, Ended)'
                    \/ /\ Is(k, {"processing"})' /\ jobs'[k].started
                       /\ \A v \in Workers : Busy(v)' /\ workers'[v].job = k /\ Held(v)' => workers'[v].hit
    <3> PICK k \in Messages :
           /\ Has(k, m)
           /\ \/ Is(k, Ended)
              \/ /\ Is(k, {"processing"}) /\ jobs[k].started
                 /\ \A v \in Workers : Busy(v) /\ workers[v].job = k /\ Held(v) => workers[v].hit
      BY <1>1, <2>1 DEF WorkInv, Known
    <3>1. k # j
      BY DEF Is, Ended, Terminal, Failures
    <3>2. jobs'[k] = jobs[k]
      BY <1>1, <3>1
    <3>3. ASSUME NEW v \in Workers, Busy(v)', workers'[v].job = k, Held(v)'
          PROVE  v # w /\ Busy(v) /\ workers[v].job = k /\ Held(v) /\ workers'[v] = workers[v]
      BY <1>1, <1>2, <1>3, <1>7, <3>1, <3>3
    <3> QED
      BY <3>2, <3>3 DEF Is, Has
  <2>2. ASSUME NEW v \in Workers, workers'[v].hit, Held(v)'
        PROVE  \/ Row(v)'.sent \/ workers'[v].step = "record"
               \/ workers'[v].step = "requeue" /\ ~workers'[v].safe
    <3>1. v # w /\ Busy(v) /\ workers'[v] = workers[v]
      BY <1>1, <1>2, <2>2 DEF WorkInv, Leased
    <3>2. Held(v) /\ jobs'[workers[v].job] = jobs[workers[v].job]
      BY <1>1, <1>6, <1>7, <2>2, <3>1
    <3> QED
      BY <2>2, <3>1, <3>2 DEF WorkInv, Known, Row
  <2> QED
    BY <2>1, <2>2 DEF Known
<1>12. Answerable'
  <2> SUFFICES ASSUME NEW v \in Workers, Fenced(v)'
               PROVE  /\ ~workers'[v].hit =>
                         \A m \in Messages : Contains(workers'[v].parts, m) => answers'[m] = 0
                      /\ \A m, i \in Messages :
                           Contains(workers'[v].parts, m) /\ i < m /\ From[i] = From[m]
                           /\ ~Contains(workers'[v].parts, i)
                           => \E k \in Messages : Is(k, Ended)' /\ Has(k, i)'
    BY DEF Answerable
  <2>1. Fenced(v) /\ workers'[v] = workers[v]
    BY <1>1, <1>3, <1>4
  <2> QED
    BY <1>1, <1>8, <2>1 DEF WorkInv, Answerable
<1> QED
  BY <1>9, <1>10, <1>11, <1>12 DEF WorkInv

-----------------------------------------------------------------------------
(* The actions                                                             *)

LEMMA EnqueueStep ==
  ASSUME IInv, NEW m \in Messages, Enqueue(m)
  PROVE  IInv'
<1> USE DEF IInv
<1>0. /\ m \notin receipts /\ 1..(m - 1) \subseteq receipts /\ receipts' = receipts \cup {m}
      /\ UNCHANGED <<leases, answers, workers>>
      /\ jobs \in [Messages -> Job] /\ jobs[m].st = "absent"
  BY DEF Enqueue, Shape, RowsInv, Inserted, Is
<1>1. CASE JobsOf(From[m], "pending") = {}
  <2>1. jobs' = Insert1(m)
    BY <1>1 DEF Enqueue
  <2>2. /\ \A k \in Messages \ {m} : jobs'[k] = jobs[k]
        /\ jobs'[m].st = "pending" /\ jobs'[m].parts = <<m>> /\ jobs'[m].lease = 0
    BY <1>0, <2>1 DEF Insert1, NoJob
  <2>3. jobs'[m] \in Job
    <3>1. MediaOf(m) \in Messages \cup {0} /\ <<m>> \in Seq(Messages)
      BY DEF MediaOf
    <3> PICK media \in Messages \cup {0}, parts \in Seq(Messages) :
               jobs'[m] = [NoJob EXCEPT !.st = "pending", !.parts = parts, !.media = media]
      BY <1>0, <2>1, <3>1 DEF Insert1
    <3>2. NoJob \in Job
      <4>1. <<>> \in Seq(Messages)
        OBVIOUS
      <4> QED
        BY <4>1 DEF NoJob, Job
    <3> QED
      BY <3>2 DEF Job, Open
  <2>4. Shape'
    <3>1. jobs' \in [Messages -> Job]
      BY <1>0, <2>1, <2>2, <2>3 DEF Insert1
    <3> QED
      BY <1>0, <3>1 DEF Shape
  <2>5. RowsInv'
    <3>1. \A k \in Messages : From[k] = From[m] => jobs[k].st # "pending"
      BY <1>1 DEF JobsOf
    <3> QED
      BY <1>0, <2>2, <3>1, InsertRows DEF Alike
  <2>6. WorkInv'
    <3>1. \A k \in Messages : Unmoved(k) \/ Waits(k)
      BY <1>0, <2>2 DEF Unmoved, Waits, Shape
    <3> QED
      BY <1>0, <3>1, RowStep
  <2> QED
    BY <2>4, <2>5, <2>6
<1>2. CASE JobsOf(From[m], "pending") # {}
  <2> PICK j \in JobsOf(From[m], "pending") : jobs' = Append1(j, m)
    BY <1>2 DEF Enqueue
  <2>1. j \in Messages /\ From[j] = From[m] /\ jobs[j].st = "pending"
    BY DEF JobsOf
  <2>2. /\ \A k \in Messages \ {j} : jobs'[k] = jobs[k]
        /\ jobs'[j].st = "pending" /\ jobs'[j].parts = Append(jobs[j].parts, m)
        /\ jobs'[j].lease = jobs[j].lease
    BY <1>0, <2>1 DEF Append1, Job
  <2>3. jobs'[j] \in Job
    <3>1. /\ jobs[j] \in Job /\ MediaOf(m) \in Messages \cup {0}
          /\ jobs[j].parts \in Seq(Messages) /\ jobs[j].media \in Messages \cup {0}
      BY <1>0, <2>1 DEF MediaOf, Job
    <3>2. /\ Append(jobs[j].parts, m) \in Seq(Messages)
          /\ Coalesce(MediaOf(m), jobs[j].media) \in Messages \cup {0}
      BY <3>1 DEF Coalesce
    <3> PICK media \in Messages \cup {0}, parts \in Seq(Messages) :
               jobs'[j] = [jobs[j] EXCEPT !.parts = parts, !.due = FALSE, !.media = media]
      BY <1>0, <2>1, <3>2 DEF Append1
    <3> QED
      BY <3>1 DEF Job
  <2>4. Shape'
    <3>1. jobs' \in [Messages -> Job]
      BY <1>0, <2>1, <2>2, <2>3 DEF Append1
    <3> QED
      BY <1>0, <3>1 DEF Shape
  <2>5. RowsInv'
    BY <1>0, <2>1, <2>2, AppendRows DEF Alike
  <2>6. WorkInv'
    <3>1. \A k \in Messages : Unmoved(k) \/ Waits(k)
      BY <2>1, <2>2 DEF Unmoved, Waits, WorkInv, Leased
    <3> QED
      BY <1>0, <3>1, RowStep
  <2> QED
    BY <2>4, <2>5, <2>6
<1> QED
  BY <1>1, <1>2

\* Time, heartbeats, and the steps that change no row.
LEMMA QuietStep ==
  ASSUME IInv, UNCHANGED <<receipts, leases, answers>>, jobs' \in [Messages -> Job],
         \A j \in Messages : Unmoved(j),
         workers' \in [Workers -> TaskShape], \A w \in Workers : workers'[w] \in {workers[w], Free}
  PROVE  IInv'
<1>1. Shape'
  BY DEF IInv, Shape
<1>2. RowsInv'
  BY AlikeRows DEF IInv, Unmoved, Alike
<1>3. WorkInv'
  BY RowStep DEF IInv
<1> QED
  BY <1>1, <1>2, <1>3 DEF IInv

LEMMA FreeTask == Free \in TaskShape
<1>1. <<>> \in Seq(Messages)
  OBVIOUS
<1> QED
  BY <1>1 DEF Free, TaskShape

\* A timer or a heartbeat leaves what the invariant speaks of alone.
LEMMA TimedRow ==
  ASSUME NEW job \in Job, NEW flag \in BOOLEAN,
         NEW new, new = [job EXCEPT !.due = flag] \/ new = [job EXCEPT !.stale = flag]
  PROVE  /\ new \in Job
         /\ new.st = job.st /\ new.parts = job.parts /\ new.lease = job.lease
         /\ new.started = job.started /\ new.sent = job.sent
<1>1. CASE new = [job EXCEPT !.due = flag]
  BY <1>1 DEF Job
<1>2. CASE new = [job EXCEPT !.stale = flag]
  BY <1>2 DEF Job
<1> QED
  BY <1>1, <1>2

LEMMA TimedRows ==
  ASSUME jobs \in [Messages -> Job], NEW j \in Messages, NEW flag \in BOOLEAN,
         jobs' = [jobs EXCEPT ![j].due = flag] \/ jobs' = [jobs EXCEPT ![j].stale = flag]
  PROVE  jobs' \in [Messages -> Job] /\ \A k \in Messages : Unmoved(k)
<1> PICK new : /\ jobs' = [jobs EXCEPT ![j] = new]
               /\ new = [jobs[j] EXCEPT !.due = flag] \/ new = [jobs[j] EXCEPT !.stale = flag]
  OBVIOUS
<1>1. /\ new \in Job
      /\ new.st = jobs[j].st /\ new.parts = jobs[j].parts /\ new.lease = jobs[j].lease
      /\ new.started = jobs[j].started /\ new.sent = jobs[j].sent
  BY TimedRow
<1>2. \A k \in Messages : jobs'[k] = IF k = j THEN new ELSE jobs[k]
  OBVIOUS
<1> QED
  BY <1>1, <1>2 DEF Unmoved

LEMMA TimeSteps ==
  ASSUME IInv, NEW j \in Messages, WindowElapses(j) \/ LeaseExpires(j)
  PROVE  IInv'
<1>0. jobs \in [Messages -> Job] /\ workers \in [Workers -> TaskShape]
  BY DEF IInv, Shape
<1>1. /\ UNCHANGED <<receipts, leases, answers, workers>>
      /\ \/ jobs' = [jobs EXCEPT ![j].due = TRUE]
         \/ jobs' = [jobs EXCEPT ![j].stale = TRUE]
  BY DEF WindowElapses, LeaseExpires
<1>2. jobs' \in [Messages -> Job] /\ \A k \in Messages : Unmoved(k)
  BY <1>0, <1>1, TimedRows
<1> QED
  BY <1>0, <1>1, <1>2, QuietStep

LEMMA HeartbeatStep ==
  ASSUME IInv, NEW w \in Workers, Heartbeat(w)
  PROVE  IInv'
<1>0. jobs \in [Messages -> Job] /\ workers \in [Workers -> TaskShape]
  BY DEF IInv, Shape
<1>1. /\ UNCHANGED <<receipts, leases, answers, workers>>
      /\ jobs' = [jobs EXCEPT ![workers[w].job].stale = FALSE]
  BY DEF Heartbeat
<1>2. jobs' \in [Messages -> Job] /\ \A k \in Messages : Unmoved(k)
  <2>1. CASE workers[w].job \in Messages
    BY <1>0, <1>1, <2>1, TimedRows
  <2>2. CASE workers[w].job \notin Messages
    <3>1. jobs' = jobs
      BY <1>0, <1>1, <2>2
    <3> QED
      BY <1>0, <3>1 DEF Unmoved
  <2> QED
    BY <2>1, <2>2
<1> QED
  BY <1>0, <1>1, <1>2, QuietStep

LEMMA FreeSteps ==
  ASSUME IInv, \/ RecoverSelect \/ Crash \/ \E w \in Workers : RequeueFails(w)
  PROVE  IInv'
<1>0. jobs \in [Messages -> Job] /\ workers \in [Workers -> TaskShape]
  BY DEF IInv, Shape
<1>1. /\ UNCHANGED <<receipts, leases, answers, jobs>>
      /\ \/ UNCHANGED workers \/ workers' = [w \in Workers |-> Free]
         \/ \E w \in Workers : workers' = [workers EXCEPT ![w] = Free]
  BY DEF RecoverSelect, Crash, RequeueFails
<1>2. /\ workers' \in [Workers -> TaskShape]
      /\ \A w \in Workers : workers'[w] \in {workers[w], Free}
  BY <1>0, <1>1, FreeTask
<1>3. \A k \in Messages : Unmoved(k)
  BY <1>1 DEF Unmoved
<1> QED
  BY <1>0, <1>1, <1>2, <1>3, QuietStep

LEMMA ClaimStep ==
  ASSUME IInv, NEW w \in Workers, ClaimDue(w) \/ \E s \in Senders : ClaimSender(w, s)
  PROVE  IInv'
<1> USE DEF IInv
<1>0. jobs \in [Messages -> Job] /\ workers \in [Workers -> TaskShape] /\ leases \in Nat
  BY DEF Shape
<1> PICK j \in Messages : /\ jobs[j].st = "pending" /\ Lease(w, j)
                          /\ \A k \in Messages : From[k] = From[j] => jobs[k].st # "processing"
  BY DEF ClaimDue, ClaimSender, JobsOf
<1>1. ~Busy(w)
  BY DEF ClaimDue, ClaimSender, Busy
<1>2. WorkInv'
  BY <1>1, ClaimWork
<1>3. /\ \A k \in Messages \ {j} : jobs'[k] = jobs[k]
      /\ jobs'[j].st = "processing" /\ jobs'[j].parts = jobs[j].parts
  BY <1>0 DEF Lease, Job
<1>4. RowsInv'
  BY <1>3, StatusRows DEF Alike, Lease
<1>5. Shape'
  <2>1. jobs'[j] \in Job
    BY <1>0 DEF Lease, Job, Open
  <2>2. jobs' \in [Messages -> Job]
    BY <1>0, <1>3, <2>1 DEF Lease
  <2>3. workers'[w] \in TaskShape
    BY <1>0, FreeTask DEF Lease, Free, TaskShape, Job
  <2>4. workers' \in [Workers -> TaskShape]
    BY <1>0, <2>3 DEF Lease
  <2> QED
    BY <1>0, <2>2, <2>4 DEF Shape, Lease
<1> QED
  BY <1>2, <1>4, <1>5

\* A task's step, the rows being as they were.
LEMMA TaskOnly ==
  ASSUME IInv, UNCHANGED <<jobs, receipts, leases>>,
         NEW w \in Workers, NEW new, Busy(w), new \in TaskShape,
         workers' = [workers EXCEPT ![w] = new],
         new.step # "free", new.job = workers[w].job, new.lease = workers[w].lease,
         new.parts = workers[w].parts,
         new.step \in {"send", "record"} \/ new.hit => Fenced(w),
         workers[w].hit => new.hit,
         new.hit /\ Held(w) => \/ jobs[workers[w].job].sent \/ new.step = "record"
                               \/ new.step = "requeue" /\ ~new.safe,
         \/ UNCHANGED answers /\ (new.hit => workers[w].hit)
         \/ /\ Fenced(w) /\ new.hit /\ answers' \in [Messages -> Nat]
            /\ \A m \in Messages : answers'[m] # answers[m]
                                   => ~workers[w].hit /\ Contains(workers[w].parts, m)
  PROVE  IInv'
<1>1. Shape'
  BY DEF IInv, Shape
<1>2. RowsInv'
  BY AlikeRows DEF IInv, Alike
<1>3. WorkInv'
  BY WorkerMoves DEF IInv
<1> QED
  BY <1>1, <1>2, <1>3 DEF IInv

LEMMA TaskFields ==
  ASSUME IInv, NEW w \in Workers
  PROVE  /\ workers \in [Workers -> TaskShape] /\ workers[w] \in TaskShape
         /\ jobs \in [Messages -> Job] /\ answers \in [Messages -> Nat]
         /\ Busy(w) => workers[w].job \in Messages /\ Row(w) \in Job
         /\ Current(w) <=> Held(w)
         /\ workers[w].hit \in BOOLEAN
  BY DEF IInv, Shape, TaskShape, WorkInv, Leased, Current, Held, Row

LEMMA GenerateStep ==
  ASSUME IInv, NEW w \in Workers, Generate(w)
  PROVE  IInv'
<1>0. Busy(w) /\ UNCHANGED <<jobs, receipts, leases, answers>> /\ workers[w].step = "generate"
  BY DEF Generate, Busy
<1> PICK n \in 0..MaxReply :
      workers' = [workers EXCEPT ![w].left = n, ![w].step = IF n = 0 THEN "complete" ELSE "fence"]
  BY DEF Generate
<1> PICK step \in {"complete", "fence"} : step = IF n = 0 THEN "complete" ELSE "fence"
  OBVIOUS
<1> DEFINE new == [workers[w] EXCEPT !.left = n, !.step = step]
<1>1. workers' = [workers EXCEPT ![w] = new]
  BY TaskFields
<1>2. /\ new \in TaskShape /\ new.step = step /\ new.job = workers[w].job /\ new.lease = workers[w].lease
      /\ new.parts = workers[w].parts /\ new.hit = workers[w].hit
  <2>1. workers[w] \in TaskShape /\ n \in Int
    BY TaskFields
  <2> QED
    BY <2>1 DEF TaskShape
<1>3. workers[w].hit /\ Held(w) => jobs[workers[w].job].sent
  BY <1>0 DEF IInv, WorkInv, Known, Row
<1> HIDE DEF new
<1> QED
  BY <1>0, <1>1, <1>2, <1>3, TaskOnly DEF Fenced

\* Any error but a retryable one.
LEMMA FailsStep ==
  ASSUME IInv, NEW w \in Workers, Busy(w), Fails(w), UNCHANGED <<jobs, receipts, leases, answers>>
  PROVE  IInv'
<1> DEFINE new == [workers[w] EXCEPT !.step = "requeue", !.safe = FALSE]
<1>1. workers' = [workers EXCEPT ![w] = new]
  BY TaskFields DEF Fails
<1>2. /\ new \in TaskShape /\ new.step = "requeue" /\ new.job = workers[w].job
      /\ new.lease = workers[w].lease /\ new.parts = workers[w].parts
      /\ new.hit = workers[w].hit /\ new.safe = FALSE
  BY TaskFields DEF TaskShape
<1> HIDE DEF new
<1> QED
  BY <1>1, <1>2, TaskOnly DEF Fenced

LEMMA FenceStep ==
  ASSUME IInv, NEW w \in Workers, Fence(w)
  PROVE  IInv'
<1>0. Busy(w) /\ UNCHANGED <<receipts, leases, answers>> /\ workers[w].step = "fence"
  BY DEF Fence, Busy
<1>1. CASE Fails(w) /\ UNCHANGED jobs
  BY <1>0, <1>1, FailsStep
<1>2. CASE /\ Current(w)
           /\ jobs' = [jobs EXCEPT ![workers[w].job].started = TRUE]
           /\ workers' = [workers EXCEPT ![w].step = "send", ![w].tries = 0]
  <2> DEFINE new == [workers[w] EXCEPT !.step = "send", !.tries = 0]
             j == workers[w].job
  <2>1. workers' = [workers EXCEPT ![w] = new]
    BY <1>2, TaskFields
  <2>2. /\ new \in TaskShape /\ new.step = "send" /\ new.job = workers[w].job
        /\ new.lease = workers[w].lease /\ new.parts = workers[w].parts
        /\ new.hit = workers[w].hit
    <3>1. workers[w] \in TaskShape /\ 0 \in Int
      BY TaskFields
    <3> QED
      BY <3>1 DEF TaskShape
  <2>3. /\ jobs' \in [Messages -> Job]
        /\ \A k \in Messages : /\ Alike(k) /\ jobs'[k].lease = jobs[k].lease
                               /\ jobs[k].started => jobs'[k].started
                               /\ jobs[k].sent => jobs'[k].sent
        /\ jobs'[j].started /\ j \in Messages
    <3>1. j \in Messages /\ jobs \in [Messages -> Job]
      BY <1>0, TaskFields
    <3>2. jobs[j] \in Job
      BY <3>1
    <3>3. \A k \in Messages : k # j => jobs'[k] = jobs[k]
      BY <1>2, <3>1
    <3>4. jobs'[j] = [jobs[j] EXCEPT !.started = TRUE]
      BY <1>2, <3>1
    <3>5. /\ jobs'[j] \in Job /\ Alike(j) /\ jobs'[j].lease = jobs[j].lease
          /\ jobs'[j].started /\ jobs'[j].sent = jobs[j].sent
      BY <3>2, <3>4 DEF Job, Alike
    <3>6. jobs' \in [Messages -> Job]
      BY <1>2, <3>1, <3>3, <3>5
    <3> QED
      BY <3>1, <3>3, <3>5, <3>6 DEF Alike
  <2>4. workers[w].hit /\ Held(w) => jobs[j].sent
    BY <1>0 DEF IInv, WorkInv, Known, Row
  <2>5. Held(w)
    BY <1>2, TaskFields
  <2> HIDE DEF new
  <2>6. WorkInv'
    BY <1>0, <2>1, <2>2, <2>3, <2>4, <2>5, WorkerMoves DEF IInv, Alike
  <2>7. RowsInv'
    BY <1>0, <2>3, AlikeRows DEF IInv
  <2>8. Shape'
    BY <1>0, <2>1, <2>2, <2>3 DEF IInv, Shape
  <2> QED
    BY <2>6, <2>7, <2>8 DEF IInv
<1> QED
  BY <1>1, <1>2 DEF Fence

LEMMA AcceptedAnswers ==
  ASSUME IInv, NEW w \in Workers, Accepted(w)
  PROVE  /\ answers' \in [Messages -> Nat]
         /\ \A m \in Messages : answers'[m] # answers[m]
                                => ~workers[w].hit /\ Contains(workers[w].parts, m)
<1>1. answers \in [Messages -> Nat]
  BY TaskFields
<1>2. CASE workers[w].hit
  BY <1>1, <1>2 DEF Accepted
<1>3. CASE ~workers[w].hit
  <2>1. answers' = [m \in Messages |-> answers[m] + IF Contains(workers[w].parts, m) THEN 1 ELSE 0]
    BY <1>3 DEF Accepted
  <2> QED
    BY <1>1, <1>3, <2>1
<1> QED
  BY <1>2, <1>3

LEMMA SendStep ==
  ASSUME IInv, NEW w \in Workers, Send(w)
  PROVE  IInv'
<1>0. /\ Busy(w) /\ Fenced(w) /\ UNCHANGED <<jobs, receipts, leases>>
      /\ workers[w].step = "send" /\ workers[w] \in TaskShape
  BY TaskFields DEF Send, Busy, Fenced
<1>1. CASE /\ Accepted(w)
           /\ workers' = [workers EXCEPT ![w].step = "record", ![w].hit = TRUE]
  <2> DEFINE new == [workers[w] EXCEPT !.step = "record", !.hit = TRUE]
  <2>1. workers' = [workers EXCEPT ![w] = new]
    BY <1>1, TaskFields
  <2>2. /\ new \in TaskShape /\ new.step = "record" /\ new.job = workers[w].job
        /\ new.lease = workers[w].lease /\ new.parts = workers[w].parts /\ new.hit
    BY <1>0 DEF TaskShape
  <2>3. /\ answers' \in [Messages -> Nat]
        /\ \A m \in Messages : answers'[m] # answers[m]
                                => ~workers[w].hit /\ Contains(workers[w].parts, m)
    BY <1>1, AcceptedAnswers
  <2> HIDE DEF new
  <2> QED
    BY <1>0, <2>1, <2>2, <2>3, TaskOnly
<1>2. CASE /\ Accepted(w)
           /\ workers' = [workers EXCEPT ![w].step = "requeue", ![w].safe = FALSE, ![w].hit = TRUE]
  <2> DEFINE new == [workers[w] EXCEPT !.step = "requeue", !.safe = FALSE, !.hit = TRUE]
  <2>1. workers' = [workers EXCEPT ![w] = new]
    BY <1>2, TaskFields
  <2>2. /\ new \in TaskShape /\ new.step = "requeue" /\ new.job = workers[w].job
        /\ new.lease = workers[w].lease /\ new.parts = workers[w].parts /\ new.hit /\ ~new.safe
    BY <1>0 DEF TaskShape
  <2>3. /\ answers' \in [Messages -> Nat]
        /\ \A m \in Messages : answers'[m] # answers[m]
                                => ~workers[w].hit /\ Contains(workers[w].parts, m)
    BY <1>2, AcceptedAnswers
  <2> HIDE DEF new
  <2> QED
    BY <1>0, <2>1, <2>2, <2>3, TaskOnly
<1>3. CASE Fails(w) /\ UNCHANGED answers
  BY <1>0, <1>3, FailsStep
\* What was accepted before is on record when a later send is tried.
<1>4. workers[w].hit /\ Held(w) => jobs[workers[w].job].sent
  BY <1>0 DEF IInv, WorkInv, Known, Row
<1>5. CASE workers' = [workers EXCEPT ![w].tries = @ + 1] /\ UNCHANGED answers
  <2> DEFINE new == [workers[w] EXCEPT !.tries = @ + 1]
  <2>1. workers' = [workers EXCEPT ![w] = new]
    BY <1>5, TaskFields
  <2>2. /\ new \in TaskShape /\ new.step = "send" /\ new.job = workers[w].job
        /\ new.lease = workers[w].lease /\ new.parts = workers[w].parts /\ new.hit = workers[w].hit
    BY <1>0 DEF TaskShape
  <2> HIDE DEF new
  <2> QED
    BY <1>0, <1>4, <1>5, <2>1, <2>2, TaskOnly
<1>6. CASE /\ workers' = [workers EXCEPT ![w].step = "requeue", ![w].safe = TRUE]
           /\ UNCHANGED answers
  <2> DEFINE new == [workers[w] EXCEPT !.step = "requeue", !.safe = TRUE]
  <2>1. workers' = [workers EXCEPT ![w] = new]
    BY <1>6, TaskFields
  <2>2. /\ new \in TaskShape /\ new.step = "requeue" /\ new.job = workers[w].job
        /\ new.lease = workers[w].lease /\ new.parts = workers[w].parts /\ new.hit = workers[w].hit
    BY <1>0 DEF TaskShape
  <2> HIDE DEF new
  <2> QED
    BY <1>0, <1>4, <1>6, <2>1, <2>2, TaskOnly
<1> QED
  BY <1>1, <1>2, <1>3, <1>5, <1>6 DEF Send

LEMMA RecordStep ==
  ASSUME IInv, NEW w \in Workers, Record(w)
  PROVE  IInv'
<1>0. /\ Busy(w) /\ Fenced(w) /\ UNCHANGED <<receipts, leases, answers>>
      /\ workers[w].step = "record" /\ workers[w] \in TaskShape
  BY TaskFields DEF Record, Busy, Fenced
<1>1. CASE Fails(w) /\ UNCHANGED jobs
  BY <1>0, <1>1, FailsStep
<1>2. CASE /\ jobs' = IF Current(w) THEN [jobs EXCEPT ![workers[w].job].sent = TRUE] ELSE jobs
           /\ workers' = [workers EXCEPT ![w].left = @ - 1,
                            ![w].step = IF workers[w].left = 1 THEN "complete" ELSE "fence"]
  <2> PICK step \in {"complete", "fence"} : step = IF workers[w].left = 1 THEN "complete" ELSE "fence"
    OBVIOUS
  <2> DEFINE new == [workers[w] EXCEPT !.left = @ - 1, !.step = step]
             j == workers[w].job
  <2>1. workers' = [workers EXCEPT ![w] = new]
    BY <1>2, TaskFields
  <2>2. /\ new \in TaskShape /\ new.step = step /\ new.job = workers[w].job
        /\ new.lease = workers[w].lease /\ new.parts = workers[w].parts
        /\ new.hit = workers[w].hit
    <3> PICK left \in Int : left = workers[w].left - 1
      BY <1>0 DEF TaskShape
    <3>1. new = [workers[w] EXCEPT !.left = left, !.step = step]
      OBVIOUS
    <3> QED
      BY <1>0, <3>1 DEF TaskShape
  <2>3. /\ jobs' \in [Messages -> Job]
        /\ \A k \in Messages : /\ Alike(k) /\ jobs'[k].lease = jobs[k].lease
                               /\ jobs[k].started => jobs'[k].started
                               /\ jobs[k].sent => jobs'[k].sent
        /\ Current(w) => jobs'[j].sent
    <3>1. j \in Messages /\ jobs \in [Messages -> Job]
      BY <1>0, TaskFields
    <3>2. jobs[j] \in Job
      BY <3>1
    <3>3. CASE Current(w)
      <4>1. \A k \in Messages : k # j => jobs'[k] = jobs[k]
        BY <1>2, <3>1, <3>3
      <4>2. jobs'[j] = [jobs[j] EXCEPT !.sent = TRUE]
        BY <1>2, <3>1, <3>3
      <4>3. /\ jobs'[j] \in Job /\ Alike(j) /\ jobs'[j].lease = jobs[j].lease
            /\ jobs'[j].sent /\ jobs'[j].started = jobs[j].started
        BY <3>2, <4>2 DEF Job, Alike
      <4>4. jobs' \in [Messages -> Job]
        BY <1>2, <3>1, <3>3, <4>1, <4>3
      <4> QED
        BY <3>1, <4>1, <4>3, <4>4 DEF Alike
    <3>4. CASE ~Current(w)
      BY <1>2, <3>1, <3>4 DEF Alike
    <3> QED
      BY <3>3, <3>4
  <2>4. Held(w) <=> Current(w)
    BY TaskFields
  <2> HIDE DEF new
  <2>5. WorkInv'
    BY <1>0, <2>1, <2>2, <2>3, <2>4, WorkerMoves DEF IInv, Alike
  <2>6. RowsInv'
    BY <1>0, <2>3, AlikeRows DEF IInv
  <2>7. Shape'
    BY <1>0, <2>1, <2>2, <2>3 DEF IInv, Shape
  <2> QED
    BY <2>5, <2>6, <2>7 DEF IInv
<1> QED
  BY <1>1, <1>2 DEF Record

-----------------------------------------------------------------------------
(* A row leaves processing                                                 *)

Others(S) == \A k \in Messages \ S : Unmoved(k)
Ends(j) == Closed(j) /\ Others({j})
BackAlone(j) == /\ jobs[j].st = "processing" /\ jobs'[j].st = "pending"
                /\ jobs'[j].parts = jobs[j].parts /\ jobs'[j].lease = 0
                /\ \A k \in Messages : From[k] = From[j] => jobs[k].st # "pending"
                /\ Others({j})
BackMerged(j, p) == /\ jobs[j].st = "processing" /\ jobs'[j].st = "merged"
                    /\ jobs'[j].parts = jobs[j].parts /\ jobs'[j].lease = 0
                    /\ From[p] = From[j] /\ jobs[p].st = "pending"
                    /\ jobs'[p].st = "pending" /\ jobs'[p].lease = jobs[p].lease
                    /\ jobs'[p].parts = jobs[j].parts \o jobs[p].parts
                    /\ Others({j, p})
Back(j) == BackAlone(j) \/ \E p \in Messages : BackMerged(j, p)

LEMMA FinishedJob ==
  ASSUME NEW job \in Job, NEW status \in {"pending"} \cup Terminal
  PROVE  [job EXCEPT !.st = status, !.lease = 0, !.stale = FALSE] \in Job
<1>1. status \in {"absent"} \cup Open \cup Terminal
  BY DEF Open
<1> HIDE DEF Terminal
<1> QED
  BY <1>1 DEF Job

LEMMA FinishEnds ==
  ASSUME Shape, NEW j \in Messages, jobs[j].st = "processing", NEW status \in Ended,
         jobs' = Finish(j, status)
  PROVE  jobs' \in [Messages -> Job] /\ Ends(j)
<1>1. jobs \in [Messages -> Job] /\ jobs[j] \in Job
  BY DEF Shape
<1>2. \A k \in Messages : k # j => jobs'[k] = jobs[k]
  BY <1>1 DEF Finish
<1>3. jobs'[j] = [jobs[j] EXCEPT !.st = status, !.lease = 0, !.stale = FALSE]
  BY <1>1 DEF Finish
<1>4. jobs'[j] \in Job
  <2>1. status \in {"pending"} \cup Terminal
    BY DEF Ended
  <2> PICK job \in Job : job = [jobs[j] EXCEPT !.st = status, !.lease = 0, !.stale = FALSE]
    BY <1>1, <2>1, FinishedJob
  <2> QED
    BY <1>3
<1>6. Closed(j)
  BY <1>1, <1>3 DEF Job, Closed
<1>5. jobs' \in [Messages -> Job]
  BY <1>1, <1>2, <1>4 DEF Finish
<1> QED
  BY <1>2, <1>5, <1>6 DEF Ends, Others, Unmoved

LEMMA GiveBackRows ==
  ASSUME Shape, NEW j \in Messages, jobs[j].st = "processing",
         NEW retry \in BOOLEAN, NEW safe \in BOOLEAN, NEW due \in BOOLEAN, GiveBack(j, retry, safe, due)
  PROVE  /\ jobs' \in [Messages -> Job]
         /\ Ends(j) \/ (Back(j) /\ (jobs[j].started => safe))
<1> DEFINE newer == JobsOf(From[j], "pending")
<1>0. jobs \in [Messages -> Job] /\ jobs[j] \in Job
  BY DEF Shape
<1>1. CASE jobs[j].started /\ ~safe
  <2>1. jobs' = Finish(j, "unknown")
    BY <1>1 DEF GiveBack
  <2> QED
    BY <2>1, FinishEnds DEF Ended, Terminal, Failures
<1>2. CASE ~(jobs[j].started /\ ~safe) /\ retry /\ newer # {}
  <2> PICK p \in newer : jobs' = Merge(j, p, due)
    BY <1>2 DEF GiveBack
  <2>1. p \in Messages /\ p # j /\ From[p] = From[j] /\ jobs[p].st = "pending" /\ jobs[p] \in Job
    BY <1>0 DEF JobsOf
  <2>2. \A k \in Messages : k \notin {j, p} => jobs'[k] = jobs[k]
    BY <1>0, <2>1 DEF Merge, Finish
  <2>3. jobs'[j] = [jobs[j] EXCEPT !.st = "merged", !.lease = 0, !.stale = FALSE]
    BY <1>0, <2>1 DEF Merge, Finish
  <2>4. jobs'[p] = [jobs[p] EXCEPT !.parts = jobs[j].parts \o @, !.due = due,
                                   !.media = Coalesce(@, jobs[j].media)]
    BY <1>0, <2>1 DEF Merge, Finish
  <2>5. /\ jobs[j].parts \in Seq(Messages) /\ jobs[p].parts \in Seq(Messages)
        /\ jobs[j].media \in Messages \cup {0} /\ jobs[p].media \in Messages \cup {0}
    BY <1>0, <2>1 DEF Job
  <2>6. /\ jobs[j].parts \o jobs[p].parts \in Seq(Messages)
        /\ Coalesce(jobs[p].media, jobs[j].media) \in Messages \cup {0}
    BY <2>5, ConcatProperties DEF Coalesce
  <2>7. jobs'[j] \in Job
    <3>1. "merged" \in {"pending"} \cup Terminal
      BY DEF Terminal, Failures
    <3> PICK job \in Job : job = [jobs[j] EXCEPT !.st = "merged", !.lease = 0, !.stale = FALSE]
      BY <1>0, <3>1, FinishedJob
    <3> QED
      BY <2>3
  <2>8. jobs'[p] \in Job
    <3> PICK parts \in Seq(Messages), media \in Messages \cup {0} :
               jobs'[p] = [jobs[p] EXCEPT !.parts = parts, !.due = due, !.media = media]
      BY <2>4, <2>6
    <3> QED
      BY <2>1 DEF Job
  <2>9. jobs' \in [Messages -> Job]
    BY <1>0, <2>1, <2>2, <2>7, <2>8 DEF Merge, Finish
  <2>10. BackMerged(j, p)
    BY <1>0, <2>1, <2>2, <2>3, <2>4 DEF BackMerged, Others, Unmoved, Job
  <2> QED
    BY <1>2, <2>1, <2>9, <2>10 DEF Back
<1>3. CASE ~(jobs[j].started /\ ~safe) /\ retry /\ newer = {}
  <2>1. jobs' = [Finish(j, "pending") EXCEPT ![j].due = due]
    BY <1>3 DEF GiveBack
  <2>2. \A k \in Messages : k # j => jobs'[k] = jobs[k]
    BY <1>0, <2>1 DEF Finish
  <2>3. jobs'[j] = [jobs[j] EXCEPT !.st = "pending", !.lease = 0, !.stale = FALSE, !.due = due]
    BY <1>0, <2>1 DEF Finish
  <2>4. jobs'[j] \in Job
    <3> PICK job \in Job : job = [jobs[j] EXCEPT !.st = "pending", !.lease = 0, !.stale = FALSE]
      BY <1>0, FinishedJob
    <3>1. jobs'[j] = [job EXCEPT !.due = due]
      BY <2>3
    <3> QED
      BY <3>1 DEF Job
  <2>5. jobs' \in [Messages -> Job]
    BY <1>0, <2>1, <2>2, <2>4 DEF Finish
  <2>6. BackAlone(j)
    BY <1>0, <1>3, <2>2, <2>3 DEF BackAlone, Others, Unmoved, Job, JobsOf
  <2> QED
    BY <1>3, <2>5, <2>6 DEF Back
<1>4. CASE ~(jobs[j].started /\ ~safe) /\ ~retry
  <2>1. jobs' = Finish(j, "exhausted")
    BY <1>4 DEF GiveBack
  <2> QED
    BY <2>1, FinishEnds DEF Ended, Terminal, Failures
<1> QED
  BY <1>1, <1>2, <1>3, <1>4

LEMMA EndStep ==
  ASSUME IInv, NEW j \in Messages, Ends(j), jobs' \in [Messages -> Job],
         UNCHANGED <<receipts, leases, answers>>,
         workers' \in [Workers -> TaskShape], \A w \in Workers : workers'[w] \in {workers[w], Free}
  PROVE  IInv'
<1>1. Shape'
  BY DEF IInv, Shape
<1>2. RowsInv'
  BY StatusRows DEF IInv, Ends, Closed, Others, Unmoved, Alike
<1>3. WorkInv'
  BY RowStep DEF IInv, Ends, Others
<1> QED
  BY <1>1, <1>2, <1>3 DEF IInv

LEMMA BackStep ==
  ASSUME IInv, NEW j \in Messages, Back(j), jobs' \in [Messages -> Job],
         UNCHANGED <<receipts, leases, answers>>,
         workers' \in [Workers -> TaskShape], \A w \in Workers : workers'[w] \in {workers[w], Free},
         \A m \in Messages : Has(j, m) => answers[m] = 0,
         \A w \in Workers : Fenced(w) /\ workers[w].job = j => workers'[w] = Free
  PROVE  IInv'
<1>1. Shape'
  BY DEF IInv, Shape
<1>2. CASE BackAlone(j)
  <2>1. /\ \A k \in Messages \ {j} : Alike(k)
        /\ jobs[j].st = "processing" /\ jobs'[j].st = "pending" /\ jobs'[j].parts = jobs[j].parts
        /\ \A k \in Messages : From[k] = From[j] => jobs[k].st # "pending"
    BY <1>2 DEF BackAlone, Others, Unmoved, Alike
  <2>2. RowsInv'
    BY <2>1, StatusRows DEF IInv
  <2>3. \A k \in Messages : Unmoved(k) \/ Returned(k)
    BY <1>2 DEF BackAlone, Others, Returned
  <2>4. WorkInv'
    BY <2>3, RowStep DEF IInv
  <2> QED
    BY <1>1, <2>2, <2>4 DEF IInv
<1>3. ASSUME NEW p \in Messages, BackMerged(j, p) PROVE IInv'
  <2>1. RowsInv'
    BY <1>3, MergeRows DEF IInv, BackMerged, Others, Unmoved, Alike
  <2>2. Returned(j)
    BY <1>3 DEF BackMerged, Returned
  <2>3. Waits(p)
    BY <1>3 DEF BackMerged, Waits, IInv, WorkInv, Leased
  <2>4. WorkInv'
    BY <1>3, <2>2, <2>3, RowStep DEF IInv, BackMerged, Others
  <2> QED
    BY <1>1, <2>1, <2>4 DEF IInv
<1> QED
  BY <1>2, <1>3 DEF Back

LEMMA CompleteStep ==
  ASSUME IInv, NEW w \in Workers, Complete(w)
  PROVE  IInv' /\ (UNCHANGED jobs \/ \E j \in Messages : Ends(j))
<1>0. /\ Busy(w) /\ UNCHANGED <<receipts, leases, answers>> /\ workers[w].step = "complete"
      /\ workers \in [Workers -> TaskShape] /\ jobs \in [Messages -> Job]
  BY TaskFields DEF Complete, Busy
<1>1. CASE Fails(w) /\ UNCHANGED jobs
  BY <1>0, <1>1, FailsStep
<1>2. CASE /\ jobs' = IF Current(w) THEN Finish(workers[w].job, "completed") ELSE jobs
           /\ workers' = [workers EXCEPT ![w] = Free]
  <2>1. workers' \in [Workers -> TaskShape] /\ \A v \in Workers : workers'[v] \in {workers[v], Free}
    BY <1>0, <1>2, FreeTask
  <2>2. CASE Current(w)
    <3> DEFINE j == workers[w].job
    <3>1. j \in Messages /\ jobs[j].st = "processing" /\ jobs' = Finish(j, "completed")
      BY <1>0, <1>2, <2>2, TaskFields DEF Current
    <3>2. "completed" \in Ended
      BY DEF Ended, Terminal
    <3>3. jobs' \in [Messages -> Job] /\ Ends(j)
      BY <3>1, <3>2, FinishEnds DEF IInv
    <3> QED
      BY <1>0, <2>1, <3>1, <3>3, EndStep
  <2>3. CASE ~Current(w)
    <3>1. UNCHANGED jobs
      BY <1>2, <2>3
    <3> QED
      BY <1>0, <2>1, <3>1, QuietStep DEF Unmoved
  <2> QED
    BY <2>2, <2>3
<1> QED
  BY <1>1, <1>2 DEF Complete

\* A job at work whose send has not begun is not answered.
LEMMA UnstartedUnanswered ==
  ASSUME IInv, NEW j \in Messages, jobs[j].st = "processing", NEW m \in Messages, Has(j, m), answers[m] # 0
  PROVE  /\ jobs[j].started
         /\ \A w \in Workers : Busy(w) /\ workers[w].job = j /\ Held(w) => workers[w].hit
<1> PICK k \in Messages :
       /\ Has(k, m)
       /\ \/ Is(k, Ended)
          \/ /\ Is(k, {"processing"}) /\ jobs[k].started
             /\ \A w \in Workers : Busy(w) /\ workers[w].job = k /\ Held(w) => workers[w].hit
  BY DEF IInv, WorkInv, Known
<1>1. Is(k, Live) /\ Is(j, Live)
  BY DEF Is, Live, Open
<1>2. k = j
  BY <1>1 DEF IInv, RowsInv, Placed
<1> QED
  BY <1>2 DEF Is, Ended, Terminal, Failures

LEMMA RequeueStep ==
  ASSUME IInv, NEW w \in Workers, Requeue(w)
  PROVE  IInv' /\ (UNCHANGED jobs \/ \E j \in Messages : Ends(j) \/ Back(j))
<1> DEFINE j == workers[w].job
<1>0. /\ Busy(w) /\ UNCHANGED <<receipts, leases, answers>> /\ workers[w].step = "requeue"
      /\ workers \in [Workers -> TaskShape] /\ jobs \in [Messages -> Job]
      /\ workers' = [workers EXCEPT ![w] = Free]
  BY TaskFields DEF Requeue, Busy
<1>1. workers' \in [Workers -> TaskShape] /\ \A v \in Workers : workers'[v] \in {workers[v], Free}
  BY <1>0, FreeTask
<1>2. CASE ~Current(w)
  <2>1. UNCHANGED jobs
    BY <1>2 DEF Requeue
  <2> QED
    BY <1>0, <1>1, <2>1, QuietStep DEF Unmoved
<1>3. CASE Current(w)
  <2>1. j \in Messages /\ jobs[j].st = "processing" /\ Held(w) /\ jobs[j] \in Job
    BY <1>0, <1>3, TaskFields DEF Current
  <2>2. CASE Ends(j) /\ jobs' \in [Messages -> Job]
    BY <1>0, <1>1, <2>1, <2>2, EndStep
  <2>3. CASE jobs[j].sent
    <3>1. jobs' = Finish(j, "partial") /\ "partial" \in Ended
      BY <1>3, <2>3 DEF Requeue, Ended, Terminal, Failures
    <3> QED
      BY <2>1, <2>2, <3>1, FinishEnds DEF IInv
  <2>4. CASE ~jobs[j].sent
    <3> DEFINE retry == jobs[j].attempts < MaxAttempts
               safe == workers[w].safe
    <3>1. GiveBack(j, retry, safe, FALSE) /\ retry \in BOOLEAN /\ safe \in BOOLEAN
      <4>1. GiveBack(j, retry, safe, FALSE)
        BY <1>3, <2>4 DEF Requeue
      <4>2. safe \in BOOLEAN
        BY <1>0 DEF TaskShape
      <4>3. retry \in BOOLEAN
        OBVIOUS
      <4> HIDE DEF retry, safe
      <4> QED
        BY <4>1, <4>2, <4>3
    <3> HIDE DEF retry
    <3>2. jobs' \in [Messages -> Job] /\ (Ends(j) \/ (Back(j) /\ (jobs[j].started => safe)))
      BY <2>1, <3>1, GiveBackRows DEF IInv
    <3>3. CASE Back(j) /\ (jobs[j].started => safe)
      <4>1. ~workers[w].hit \/ ~safe
        BY <1>0, <2>1, <2>4 DEF IInv, WorkInv, Known, Row
      <4>2. \A m \in Messages : Has(j, m) => answers[m] = 0
        BY <1>0, <2>1, <3>3, <4>1, UnstartedUnanswered
      <4>3. ASSUME NEW v \in Workers, Fenced(v), workers[v].job = j
            PROVE  workers'[v] = Free
        <5>1. Held(v) /\ Busy(v)
          BY <2>1, <4>3 DEF IInv, WorkInv, Exclusive, Leased, Row, Fenced, Busy, Ended, Terminal, Failures
        <5>2. workers[v].lease = workers[w].lease
          BY <2>1, <4>3, <5>1 DEF Held, Row
        <5>3. v = w
          BY <1>0, <5>1, <5>2 DEF IInv, WorkInv, Leased
        <5> QED
          BY <1>0, <5>3
      <4> QED
        BY <1>0, <1>1, <2>1, <3>2, <3>3, <4>2, <4>3, BackStep
    <3> QED
      BY <2>2, <3>2, <3>3
  <2> QED
    BY <2>3, <2>4
<1> QED
  BY <1>2, <1>3

LEMMA RecoverStep ==
  ASSUME IInv, NEW row, Recover(row)
  PROVE  /\ IInv'
         /\ UNCHANGED jobs \/ \E j \in Messages : Ends(j) \/ Back(j)
         /\ UNCHANGED jobs \/ row \in StaleRows
<1> DEFINE j == row.job
<1>0. /\ UNCHANGED <<receipts, leases, answers, workers>>
      /\ workers \in [Workers -> TaskShape] /\ jobs \in [Messages -> Job]
  BY DEF Recover, IInv, Shape
<1>1. workers' \in [Workers -> TaskShape] /\ \A v \in Workers : workers'[v] \in {workers[v], Free}
  BY <1>0
<1>2. CASE row \notin StaleRows
  <2>1. UNCHANGED jobs
    BY <1>2 DEF Recover
  <2> QED
    BY <1>0, <1>1, <2>1, QuietStep DEF Unmoved
<1>3. CASE row \in StaleRows
  <2>1. j \in Messages /\ jobs[j].st = "processing" /\ jobs[j] \in Job
    BY <1>0, <1>3 DEF StaleRows
  <2>2. CASE Ends(j) /\ jobs' \in [Messages -> Job]
    BY <1>0, <1>1, <1>3, <2>1, <2>2, EndStep
  <2>3. CASE jobs[j].sent
    <3>1. jobs' = Finish(j, "completed") /\ "completed" \in Ended
      BY <1>3, <2>3 DEF Recover, Ended, Terminal
    <3> QED
      BY <2>1, <2>2, <3>1, FinishEnds DEF IInv
  <2>4. CASE ~jobs[j].sent
    <3>1. GiveBack(j, TRUE, FALSE, TRUE)
      BY <1>3, <2>4 DEF Recover
    <3>2. jobs' \in [Messages -> Job] /\ (Ends(j) \/ (Back(j) /\ ~jobs[j].started))
      BY <2>1, <3>1, GiveBackRows DEF IInv
    <3>3. CASE Back(j) /\ ~jobs[j].started
      <4>1. \A m \in Messages : Has(j, m) => answers[m] = 0
        BY <2>1, <3>3, UnstartedUnanswered
      <4>2. \A v \in Workers : Fenced(v) => workers[v].job # j
        BY <2>1, <3>3 DEF IInv, WorkInv, Exclusive, Row, Ended, Terminal, Failures
      <4> QED
        BY <1>0, <1>1, <1>3, <2>1, <3>2, <3>3, <4>1, <4>2, BackStep
    <3> QED
      BY <2>2, <3>2, <3>3
  <2> QED
    BY <2>3, <2>4
<1> QED
  BY <1>2, <1>3

-----------------------------------------------------------------------------
(* Theorems                                                                *)

LEMMA InitIInv == Init => IInv
<1> SUFFICES ASSUME Init PROVE IInv
  OBVIOUS
<1>1. NoJob \in Job
  <2>1. <<>> \in Seq(Messages)
    OBVIOUS
  <2> QED
    BY <2>1 DEF NoJob, Job
<1>2. Shape
  BY <1>1, FreeTask DEF Init, Shape
<1>3. \A j \in Messages : jobs[j].st = "absent" /\ jobs[j].lease = 0
  BY DEF Init, NoJob
<1>4. RowsInv
  BY <1>3 DEF Init, RowsInv, Numbered, Inserted, Filled, Placed, Unique, InOrder, Is,
              Live, Open, Ended, Terminal, Failures
<1>5. \A w \in Workers : ~Busy(w) /\ ~Fenced(w) /\ ~workers[w].hit
  BY DEF Init, Free, Busy, Fenced
<1>6. WorkInv
  BY <1>3, <1>5 DEF Init, WorkInv, Leased, Exclusive, Known, Answerable
<1> QED
  BY <1>2, <1>4, <1>6 DEF IInv

LEMMA StepIInv == IInv /\ [Next]_vars => IInv'
<1> SUFFICES ASSUME IInv, [Next]_vars PROVE IInv'
  OBVIOUS
<1>1. CASE \E m \in Messages : Enqueue(m) \/ WindowElapses(m) \/ LeaseExpires(m)
  BY <1>1, EnqueueStep, TimeSteps
<1>2. CASE \E w \in Workers : \/ ClaimDue(w) \/ Heartbeat(w)
                              \/ \E s \in Senders : ClaimSender(w, s)
  BY <1>2, ClaimStep, HeartbeatStep
<1>3. CASE \E w \in Workers : WorkerStep(w)
  BY <1>3, GenerateStep, FenceStep, SendStep, RecordStep, CompleteStep, RequeueStep DEF WorkerStep
<1>4. CASE \/ RecoverSelect \/ Crash \/ \E w \in Workers : RequeueFails(w)
  BY <1>4, FreeSteps
<1>5. CASE \E row \in snap : Recover(row)
  BY <1>5, RecoverStep
<1>6. CASE UNCHANGED vars
  BY <1>6, QuietStep DEF vars, Unmoved, IInv, Shape
<1> QED
  BY <1>1, <1>2, <1>3, <1>4, <1>5, <1>6 DEF Next

\* inbound_buffer.py: in every reachable state each accepted message has one
\* place, the rows respect the queue's indexes and the order of the chat, and
\* what a worker may send was not sent before.
THEOREM QueueInvariant == Spec => []IInv
<1> QED
  BY InitIInv, StepIInv, PTL DEF Spec

-----------------------------------------------------------------------------
(* The queue implements the promise of Answers                             *)

LEMMA SettledRow == \A m \in Messages : Settled(m) <=> \E j \in Messages : Has(j, m) /\ Is(j, Ended)
  BY DEF Settled, Has, Is, Ended

\* A step that closes no row, and leaves the closed ones alone.
LEMMA QuietPhases ==
  ASSUME UNCHANGED receipts,
         \A j \in Messages : jobs'[j].st \in Ended <=> jobs[j].st \in Ended,
         \A j \in Messages : jobs[j].st \in Ended => jobs'[j].parts = jobs[j].parts
  PROVE  Phases' = Phases
<1>1. \A m \in Messages : Settled(m)' <=> Settled(m)
  BY DEF Settled, Ended
<1> QED
  BY <1>1 DEF Phases

LEMMA EndPhases ==
  ASSUME IInv, UNCHANGED <<receipts, answers>>, NEW j \in Messages, Ends(j)
  PROVE  Promise!Next
<1> DEFINE batch == {m \in Messages : Has(j, m)}
<1>1. /\ jobs[j].st = "processing" /\ jobs'[j].st \in Ended /\ jobs'[j].parts = jobs[j].parts
      /\ \A k \in Messages : k # j => jobs'[k].st = jobs[k].st /\ jobs'[k].parts = jobs[k].parts
  BY DEF Ends, Closed, Others, Unmoved
<1>2. batch \in (SUBSET Messages) \ {{}} /\ \A m \in batch : m \in receipts
  <2>1. ~Is(j, {"absent"})
    BY <1>1 DEF Is
  <2>2. /\ \E m \in Messages : Has(j, m)
        /\ \A m \in Messages : Has(j, m) => m \in receipts
    BY <2>1 DEF IInv, RowsInv, Filled
  <2> QED
    BY <2>2
<1>3. \A m \in batch : ~Settled(m)
  <2> SUFFICES ASSUME NEW m \in Messages, Has(j, m), NEW k \in Messages, Has(k, m), Is(k, Ended)
               PROVE  FALSE
    BY SettledRow
  <2>1. Is(j, Live) /\ Is(k, Live) /\ ~Is(j, Ended)
    BY <1>1 DEF Is, Live, Open, Ended, Terminal, Failures
  <2> QED
    BY <2>1 DEF IInv, RowsInv, Placed
<1>4. \A m \in batch : Settled(m)'
  BY <1>1 DEF Settled, Ended, Has
<1>5. \A m \in Messages \ batch : Settled(m)' <=> Settled(m)
  BY <1>1 DEF Settled, Ended, Has
<1>6. \A m \in batch : Phases[m] = "open"
  BY <1>2, <1>3 DEF Phases
<1>7. Phases' = [m \in Messages |-> IF m \in batch THEN "closed" ELSE Phases[m]]
  BY <1>2, <1>4, <1>5 DEF Phases
<1> HIDE DEF batch
<1>8. Promise!Close(batch)
  BY <1>6, <1>7 DEF Promise!Close, Promise!Messages, Messages
<1> QED
  BY <1>2, <1>8 DEF Promise!Next, Promise!Messages, Messages

LEMMA BackPhases ==
  ASSUME UNCHANGED receipts, NEW j \in Messages, Back(j)
  PROVE  Phases' = Phases
<1>1. \A s : s \in Ended => s # "processing" /\ s # "pending" /\ s # "merged"
  BY DEF Ended, Terminal, Failures
<1>2. CASE BackAlone(j)
  BY <1>1, <1>2, QuietPhases DEF BackAlone, Others, Unmoved
<1>3. CASE \E p \in Messages : BackMerged(j, p)
  <2> PICK p \in Messages : BackMerged(j, p)
    BY <1>3
  <2> QED
    BY <1>1, QuietPhases DEF BackMerged, Others, Unmoved
<1> QED
  BY <1>2, <1>3 DEF Back

LEMMA EnqueueRow ==
  ASSUME IInv, NEW m \in Messages, Enqueue(m)
  PROVE  \E j \in Messages :
           /\ jobs[j].st \in {"absent", "pending"} /\ jobs'[j].st = "pending"
           /\ \A k \in Messages : k # j => jobs'[k] = jobs[k]
<1>0. /\ m \notin receipts /\ jobs \in [Messages -> Job] /\ jobs[m].st = "absent"
  BY DEF Enqueue, IInv, Shape, RowsInv, Inserted, Is
<1>1. CASE JobsOf(From[m], "pending") = {}
  <2>1. jobs' = Insert1(m)
    BY <1>1 DEF Enqueue
  <2>2. jobs'[m].st = "pending" /\ \A k \in Messages : k # m => jobs'[k] = jobs[k]
    BY <1>0, <2>1 DEF Insert1, NoJob
  <2> QED
    BY <1>0, <2>2
<1>2. CASE JobsOf(From[m], "pending") # {}
  <2> PICK j \in JobsOf(From[m], "pending") : jobs' = Append1(j, m)
    BY <1>2 DEF Enqueue
  <2> QED
    BY <1>0 DEF JobsOf, Append1, Job
<1> QED
  BY <1>1, <1>2

LEMMA EnqueueAccepts ==
  ASSUME IInv, NEW m \in Messages, Enqueue(m)
  PROVE  Promise!Accept(m)
<1>1. /\ m \notin receipts /\ 1..(m - 1) \subseteq receipts /\ receipts' = receipts \cup {m}
      /\ UNCHANGED answers /\ jobs \in [Messages -> Job] /\ jobs[m].st = "absent"
  BY DEF Enqueue, IInv, Shape, RowsInv, Inserted, Is
<1>2. PICK j \in Messages : /\ jobs[j].st \in {"absent", "pending"} /\ jobs'[j].st = "pending"
                            /\ \A k \in Messages : k # j => jobs'[k] = jobs[k]
  BY EnqueueRow
<1>3. \A i \in Messages : Settled(i)' <=> Settled(i)
  <2>1. "pending" \notin Ended /\ "absent" \notin Ended
    BY DEF Ended, Terminal, Failures
  <2> QED
    BY <1>2, <2>1 DEF Settled, Ended
<1>4. ~Settled(m)
  <2>1. \A k \in Messages : Is(k, Ended) => ~Is(k, {"absent"})
    BY DEF Is, Ended, Terminal, Failures
  <2> QED
    BY <1>1, <2>1, SettledRow DEF IInv, RowsInv, Filled
<1>5. Phases[m] = "none" /\ \A i \in 1..(m - 1) : i \in Messages => Phases[i] # "none"
  BY <1>1 DEF Phases
<1>6. Phases' = [Phases EXCEPT ![m] = "open"]
  BY <1>1, <1>3, <1>4 DEF Phases
<1>7. 1..(m - 1) \subseteq Messages
  BY InboundAssumption DEF Messages
<1> QED
  BY <1>1, <1>5, <1>6, <1>7 DEF Promise!Accept, Promise!Earlier

\* The first accepted send of a turn is the answer to its batch.
LEMMA SendAnswers ==
  ASSUME IInv, NEW w \in Workers, Send(w)
  PROVE  Phases' = Phases /\ (UNCHANGED answers \/ Promise!Next)
<1>0. /\ Fenced(w) /\ Busy(w) /\ UNCHANGED <<jobs, receipts>>
      /\ Accepted(w) \/ UNCHANGED answers
  BY DEF Send, Busy, Fenced
<1>1. Phases' = Phases
  BY <1>0, QuietPhases
<1>2. CASE Accepted(w) /\ ~workers[w].hit
  <2> DEFINE batch == {m \in Messages : Contains(workers[w].parts, m)}
  <2>1. /\ workers[w].parts = Row(w).parts /\ workers[w].job \in Messages
        /\ Row(w).st \in {"processing"} \cup Ended
    BY <1>0 DEF IInv, WorkInv, Exclusive, Leased, Held
  <2>2. Row(w).st # "absent"
    BY <2>1 DEF Ended, Terminal, Failures
  <2>3. batch \in (SUBSET Messages) \ {{}} /\ \A m \in batch : m \in receipts
    <3>1. ~Is(workers[w].job, {"absent"})
      BY <2>2 DEF Is, Row
    <3>2. /\ \E m \in Messages : Has(workers[w].job, m)
          /\ \A m \in Messages : Has(workers[w].job, m) => m \in receipts
      BY <2>1, <3>1 DEF IInv, RowsInv, Filled
    <3>3. \A m \in Messages : Has(workers[w].job, m) <=> Contains(workers[w].parts, m)
      BY <2>1 DEF Has, Row
    <3> QED
      BY <3>2, <3>3
  <2>4. \A m \in batch : Phases[m] # "none" /\ answers[m] = 0
    BY <1>0, <1>2, <2>3 DEF Phases, IInv, WorkInv, Answerable
  <2>5. ASSUME NEW m \in batch, NEW i \in Messages, i < m, From[i] = From[m], i \notin batch
        PROVE  Phases[i] = "closed"
    <3>1. Settled(i)
      BY <1>0, <2>5, SettledRow DEF IInv, WorkInv, Answerable
    <3>2. i \in receipts
      BY <2>3, <2>5, InboundAssumption DEF IInv, RowsInv, Numbered, Messages
    <3> QED
      BY <3>1, <3>2 DEF Phases
  <2>6. answers' = [m \in Messages |-> IF m \in batch THEN 1 ELSE answers[m]]
    <3>1. answers' = [m \in Messages |-> answers[m] + IF Contains(workers[w].parts, m) THEN 1 ELSE 0]
      BY <1>2 DEF Accepted
    <3>2. \A m \in Messages : answers[m] \in Nat
      BY DEF IInv, Shape
    <3>3. \A m \in Messages : answers[m] + (IF Contains(workers[w].parts, m) THEN 1 ELSE 0)
                              = IF m \in batch THEN 1 ELSE answers[m]
      BY <2>4, <3>2
    <3> QED
      BY <3>1, <3>3
  <2>7. \A m \in batch : \A i \in Promise!Earlier(m) \ batch : Phases[i] = "closed"
    <3> SUFFICES ASSUME NEW m \in batch, NEW i \in Promise!Earlier(m) \ batch
                 PROVE  Phases[i] = "closed"
      OBVIOUS
    <3>1. i \in Messages /\ i < m /\ From[i] = From[m]
      BY InboundAssumption DEF Promise!Earlier, Messages
    <3> QED
      BY <2>5, <3>1
  <2> HIDE DEF batch
  <2>8. Promise!Answer(batch)
    BY <1>1, <2>4, <2>6, <2>7 DEF Promise!Answer, Promise!Messages, Messages
  <2> QED
    BY <1>1, <2>3, <2>8 DEF Promise!Next, Promise!Messages, Messages
<1>3. CASE Accepted(w) /\ workers[w].hit
  BY <1>1, <1>3 DEF Accepted
<1> QED
  BY <1>0, <1>1, <1>2, <1>3

\* A step that changes no row's status or messages.
LEMMA RowQuiet ==
  ASSUME UNCHANGED receipts, \A j \in Messages : jobs'[j].st = jobs[j].st /\ jobs'[j].parts = jobs[j].parts
  PROVE  Phases' = Phases
  BY QuietPhases

LEMMA StepImplements == IInv /\ [Next]_vars => [Promise!Next]_<<Phases, answers>>
<1> SUFFICES ASSUME IInv, [Next]_vars
             PROVE  Promise!Next \/ UNCHANGED <<Phases, answers>>
  OBVIOUS
<1>0. jobs \in [Messages -> Job] /\ workers \in [Workers -> TaskShape]
  BY DEF IInv, Shape
<1>1. CASE \E m \in Messages : Enqueue(m)
  BY <1>1, EnqueueAccepts DEF Promise!Next, Promise!Messages, Messages
<1>2. CASE \E m \in Messages : WindowElapses(m) \/ LeaseExpires(m)
  <2>1. /\ UNCHANGED <<receipts, answers>>
        /\ \A j \in Messages : jobs'[j].st = jobs[j].st /\ jobs'[j].parts = jobs[j].parts
    <3> PICK m \in Messages : WindowElapses(m) \/ LeaseExpires(m)
      BY <1>2
    <3>1. UNCHANGED <<receipts, answers>>
      BY DEF WindowElapses, LeaseExpires
    <3>2. CASE jobs' = [jobs EXCEPT ![m].due = TRUE]
      BY <1>0, <3>1, <3>2 DEF Job
    <3>3. CASE jobs' = [jobs EXCEPT ![m].stale = TRUE]
      BY <1>0, <3>1, <3>3 DEF Job
    <3> QED
      BY <3>2, <3>3 DEF WindowElapses, LeaseExpires
  <2> QED
    BY <2>1, RowQuiet
<1>3. CASE \E w \in Workers : ClaimDue(w) \/ \E s \in Senders : ClaimSender(w, s)
  <2> PICK w \in Workers, j \in Messages : jobs[j].st = "pending" /\ Lease(w, j)
    BY <1>3 DEF ClaimDue, ClaimSender, JobsOf
  <2>1. /\ UNCHANGED <<receipts, answers>>
        /\ jobs'[j].st = "processing" /\ jobs'[j].parts = jobs[j].parts
        /\ \A k \in Messages : k # j => jobs'[k] = jobs[k]
    BY <1>0 DEF Lease, Job
  <2>2. "pending" \notin Ended /\ "processing" \notin Ended
    BY DEF Ended, Terminal, Failures
  <2>3. Phases' = Phases
    BY <2>1, <2>2, QuietPhases
  <2> QED
    BY <2>1, <2>3
<1>4. CASE \E w \in Workers : Generate(w) \/ RequeueFails(w)
  <2>1. UNCHANGED <<receipts, answers, jobs>>
    BY <1>4 DEF Generate, RequeueFails
  <2> QED
    BY <2>1, RowQuiet
<1>5. CASE \E w \in Workers : Fence(w) \/ Record(w) \/ Heartbeat(w)
  <2>1. /\ UNCHANGED <<receipts, answers>>
        /\ \A j \in Messages : jobs'[j].st = jobs[j].st /\ jobs'[j].parts = jobs[j].parts
    BY <1>0, <1>5 DEF Fence, Record, Heartbeat, Job
  <2> QED
    BY <2>1, RowQuiet
<1>6. CASE \E w \in Workers : Send(w)
  BY <1>6, SendAnswers
<1>7. CASE \E w \in Workers : Complete(w) \/ Requeue(w)
  <2>1. /\ UNCHANGED <<receipts, answers>>
        /\ UNCHANGED jobs \/ \E j \in Messages : Ends(j) \/ Back(j)
    BY <1>7, CompleteStep, RequeueStep DEF Complete, Requeue
  <2> QED
    BY <2>1, RowQuiet, EndPhases, BackPhases
<1>8. CASE \E row \in snap : Recover(row)
  <2>1. /\ UNCHANGED <<receipts, answers>>
        /\ UNCHANGED jobs \/ \E j \in Messages : Ends(j) \/ Back(j)
    BY <1>8, RecoverStep DEF Recover
  <2> QED
    BY <2>1, RowQuiet, EndPhases, BackPhases
<1>9. CASE RecoverSelect \/ Crash \/ UNCHANGED vars
  <2>1. UNCHANGED <<receipts, answers, jobs>>
    BY <1>9 DEF RecoverSelect, Crash, vars
  <2> QED
    BY <2>1, RowQuiet
<1> QED
  BY <1>1, <1>2, <1>3, <1>4, <1>5, <1>6, <1>7, <1>8, <1>9 DEF Next, WorkerStep

LEMMA InitImplements == Init => Promise!Init
  BY DEF Init, Phases, Promise!Init, Promise!Messages, Messages

\* inbound_buffer.py with _deliver_ai_response: no requeue, merge, recovery or
\* late worker makes Meta accept a second reply to a message, or one out of the
\* order of the chat, and a batch that was closed is never opened again.
THEOREM QueueImplements == Spec => AnswersImplemented
<1> QED
  BY QueueInvariant, InitImplements, StepImplements, PTL DEF Spec, AnswersImplemented, Promise!Spec

-----------------------------------------------------------------------------
(* Leases                                                                  *)

\* What LeasesRespected asks of a step.
Deserved(j) == \/ jobs[j].sent
               \/ \E w \in Workers : /\ Holds(w, j) /\ jobs[j].lease # 0
                                     /\ workers[w].parts = jobs[j].parts
Respects(j) ==
    /\ jobs[j].st \in Open /\ jobs'[j].st = "completed" => Deserved(j)
    /\ /\ jobs[j].st = "processing" /\ ~jobs[j].stale
       /\ jobs'[j].lease # jobs[j].lease
       => \E w \in Workers : Holds(w, j) /\ workers'[w] # workers[w]

LEMMA KeptRespects ==
  ASSUME NEW j \in Messages, jobs'[j].st = jobs[j].st, jobs'[j].lease = jobs[j].lease
  PROVE  Respects(j)
  BY DEF Respects, Open

\* A job that is given back is not completed, and only its own lease ends.
LEMMA GiveBackLeases ==
  ASSUME Shape, NEW j \in Messages, jobs[j].st = "processing",
         NEW retry \in BOOLEAN, NEW safe \in BOOLEAN, NEW due \in BOOLEAN, GiveBack(j, retry, safe, due)
  PROVE  /\ jobs'[j].st # "completed"
         /\ \A k \in Messages : k # j => jobs'[k].st = jobs[k].st /\ jobs'[k].lease = jobs[k].lease
<1>0. jobs \in [Messages -> Job] /\ jobs[j] \in Job
  BY DEF Shape
<1>1. \A status : /\ Finish(j, status)[j].st = status
                  /\ \A k \in Messages : k # j => Finish(j, status)[k] = jobs[k]
  BY <1>0 DEF Finish, Job
<1>2. CASE jobs' = Finish(j, "unknown") \/ jobs' = Finish(j, "exhausted")
  BY <1>1, <1>2
<1>3. CASE jobs' = [Finish(j, "pending") EXCEPT ![j].due = due]
  BY <1>0, <1>3 DEF Finish, Job
<1>4. CASE \E p \in JobsOf(From[j], "pending") : jobs' = Merge(j, p, due)
  <2> PICK p \in Messages : jobs[p].st = "pending" /\ jobs' = Merge(j, p, due)
    BY <1>4 DEF JobsOf
  <2>1. p # j /\ jobs[p] \in Job
    BY <1>0
  <2>2. /\ jobs'[j].st = "merged"
        /\ \A k \in Messages : k # j => jobs'[k].st = jobs[k].st /\ jobs'[k].lease = jobs[k].lease
    BY <1>0, <2>1 DEF Merge, Finish, Job
  <2> QED
    BY <2>2
<1> QED
  BY <1>2, <1>3, <1>4 DEF GiveBack

LEMMA CompleteRespects ==
  ASSUME IInv, NEW w \in Workers, Complete(w), NEW j \in Messages
  PROVE  Respects(j)
<1>0. /\ Busy(w) /\ workers[w].step = "complete"
      /\ workers \in [Workers -> TaskShape] /\ jobs \in [Messages -> Job]
  BY TaskFields DEF Complete, Busy
<1>1. CASE UNCHANGED jobs
  BY <1>1, KeptRespects
<1>2. CASE /\ Current(w) /\ jobs' = Finish(workers[w].job, "completed")
           /\ workers' = [workers EXCEPT ![w] = Free]
  <2>1. CASE j # workers[w].job
    <3>1. jobs'[j] = jobs[j]
      BY <1>0, <1>2, <2>1 DEF Finish
    <3> QED
      BY <3>1, KeptRespects
  <2>2. CASE j = workers[w].job
    <3>1. Holds(w, j)
      BY <1>2, <2>2 DEF Holds, Current
    <3>2. jobs[j].lease # 0 /\ workers[w].parts = jobs[j].parts
      BY <1>0, <1>2, <2>2, TaskFields DEF IInv, WorkInv, Leased, Row, Held
    <3>3. workers'[w] # workers[w]
      BY <1>0, <1>2 DEF Free
    <3> QED
      BY <3>1, <3>2, <3>3 DEF Respects, Deserved
  <2> QED
    BY <2>1, <2>2
<1> QED
  BY <1>1, <1>2 DEF Complete

LEMMA RequeueRespects ==
  ASSUME IInv, NEW w \in Workers, Requeue(w), NEW j \in Messages
  PROVE  Respects(j)
<1> DEFINE mine == workers[w].job
<1>0. /\ Busy(w) /\ workers[w].step = "requeue" /\ workers[w] \in TaskShape
      /\ workers \in [Workers -> TaskShape] /\ jobs \in [Messages -> Job]
      /\ workers' = [workers EXCEPT ![w] = Free]
  BY TaskFields DEF Requeue, Busy
<1>1. CASE ~Current(w)
  BY <1>1, KeptRespects DEF Requeue
<1>2. CASE Current(w)
  <2>1. mine \in Messages /\ jobs[mine].st = "processing" /\ Holds(w, mine)
    BY <1>0, <1>2, TaskFields DEF Current, Holds
  <2>2. workers'[w] # workers[w]
    BY <1>0 DEF Free
  <2>3. /\ jobs'[mine].st # "completed"
        /\ \A k \in Messages : k # mine => jobs'[k].st = jobs[k].st /\ jobs'[k].lease = jobs[k].lease
    <3>1. CASE jobs[mine].sent
      BY <1>0, <1>2, <2>1, <3>1 DEF Requeue, Finish, Job
    <3>2. CASE ~jobs[mine].sent
      <4> DEFINE retry == jobs[mine].attempts < MaxAttempts
                 safe == workers[w].safe
      <4>1. GiveBack(mine, retry, safe, FALSE)
        BY <1>2, <3>2 DEF Requeue
      <4>2. safe \in BOOLEAN
        BY <1>0 DEF TaskShape
      <4>3. retry \in BOOLEAN
        OBVIOUS
      <4> HIDE DEF retry, safe, mine
      <4> QED
        BY <2>1, <4>1, <4>2, <4>3, GiveBackLeases DEF IInv
    <3> QED
      BY <3>1, <3>2
  <2>4. CASE j # mine
    BY <2>3, <2>4, KeptRespects
  <2>5. CASE j = mine
    BY <2>1, <2>2, <2>3, <2>5 DEF Respects
  <2> QED
    BY <2>4, <2>5
<1> QED
  BY <1>1, <1>2

LEMMA RecoverRespects ==
  ASSUME IInv, NEW row, Recover(row), NEW j \in Messages
  PROVE  Respects(j)
<1>0. jobs \in [Messages -> Job]
  BY DEF IInv, Shape
<1>1. CASE row \notin StaleRows
  BY <1>1, KeptRespects DEF Recover
<1>2. CASE row \in StaleRows
  <2>1. row.job \in Messages /\ jobs[row.job].st = "processing" /\ jobs[row.job].stale
    BY <1>2 DEF StaleRows
  <2>2. CASE jobs[row.job].sent
    <3>1. jobs' = Finish(row.job, "completed")
      BY <1>2, <2>2 DEF Recover
    <3>2. CASE j # row.job
      <4>1. jobs'[j] = jobs[j]
        BY <1>0, <3>1, <3>2 DEF Finish
      <4> QED
        BY <4>1, KeptRespects
    <3>3. CASE j = row.job
      BY <2>1, <2>2, <3>3 DEF Respects, Deserved
    <3> QED
      BY <3>2, <3>3
  <2>3. CASE ~jobs[row.job].sent
    <3>1. GiveBack(row.job, TRUE, FALSE, TRUE)
      BY <1>2, <2>3 DEF Recover
    <3>2. /\ jobs'[row.job].st # "completed"
          /\ \A k \in Messages : k # row.job => jobs'[k].st = jobs[k].st /\ jobs'[k].lease = jobs[k].lease
      BY <2>1, <3>1, GiveBackLeases DEF IInv
    <3>3. CASE j # row.job
      BY <3>2, <3>3, KeptRespects
    <3>4. CASE j = row.job
      BY <2>1, <3>2, <3>4 DEF Respects
    <3> QED
      BY <3>3, <3>4
  <2> QED
    BY <2>2, <2>3
<1> QED
  BY <1>1, <1>2

LEMMA EnqueueRespects ==
  ASSUME IInv, NEW m \in Messages, Enqueue(m), NEW j \in Messages
  PROVE  Respects(j)
<1>1. PICK k \in Messages : /\ jobs[k].st \in {"absent", "pending"} /\ jobs'[k].st = "pending"
                            /\ \A i \in Messages : i # k => jobs'[i] = jobs[i]
  BY EnqueueRow
<1>2. CASE j = k
  BY <1>1, <1>2 DEF Respects
<1>3. CASE j # k
  BY <1>1, <1>3, KeptRespects
<1> QED
  BY <1>2, <1>3

LEMMA ClaimRespects ==
  ASSUME IInv, NEW w \in Workers, NEW k \in Messages, jobs[k].st = "pending", Lease(w, k), NEW j \in Messages
  PROVE  Respects(j)
<1>1. /\ jobs'[k].st = "processing"
      /\ \A i \in Messages : i # k => jobs'[i] = jobs[i]
  BY DEF Lease, Job, IInv, Shape
<1>2. CASE j = k
  BY <1>1, <1>2 DEF Respects
<1>3. CASE j # k
  BY <1>1, <1>3, KeptRespects
<1> QED
  BY <1>2, <1>3

LEMMA StepRespects == IInv /\ [Next]_vars => \A j \in Messages : Respects(j)
<1> SUFFICES ASSUME IInv, [Next]_vars, NEW j \in Messages
             PROVE  Respects(j)
  OBVIOUS
<1>0. jobs \in [Messages -> Job]
  BY DEF IInv, Shape
<1>1. CASE \E m \in Messages : Enqueue(m)
  BY <1>1, EnqueueRespects
<1>2. CASE \E m \in Messages : WindowElapses(m) \/ LeaseExpires(m)
  <2> PICK m \in Messages : WindowElapses(m) \/ LeaseExpires(m)
    BY <1>2
  <2>1. CASE jobs' = [jobs EXCEPT ![m].due = TRUE]
    BY <1>0, <2>1, KeptRespects DEF Job
  <2>2. CASE jobs' = [jobs EXCEPT ![m].stale = TRUE]
    BY <1>0, <2>2, KeptRespects DEF Job
  <2> QED
    BY <2>1, <2>2 DEF WindowElapses, LeaseExpires
<1>3. CASE \E w \in Workers : ClaimDue(w) \/ \E s \in Senders : ClaimSender(w, s)
  <2> PICK w \in Workers, k \in Messages : jobs[k].st = "pending" /\ Lease(w, k)
    BY <1>3 DEF ClaimDue, ClaimSender, JobsOf
  <2> QED
    BY ClaimRespects
<1>4. CASE \E w \in Workers : Generate(w) \/ Send(w) \/ RequeueFails(w)
  <2>1. UNCHANGED jobs
    BY <1>4 DEF Generate, Send, RequeueFails
  <2> QED
    BY <2>1, KeptRespects
<1>5. CASE \E w \in Workers : Fence(w) \/ Record(w) \/ Heartbeat(w)
  <2>1. \A i \in Messages : jobs'[i].st = jobs[i].st /\ jobs'[i].lease = jobs[i].lease
    BY <1>0, <1>5 DEF Fence, Record, Heartbeat, Job
  <2> QED
    BY <2>1, KeptRespects
<1>6. CASE \E w \in Workers : Complete(w) \/ Requeue(w)
  BY <1>6, CompleteRespects, RequeueRespects
<1>7. CASE \E row \in snap : Recover(row)
  BY <1>7, RecoverRespects
<1>8. CASE RecoverSelect \/ Crash \/ UNCHANGED vars
  <2>1. UNCHANGED jobs
    BY <1>8 DEF RecoverSelect, Crash, vars
  <2> QED
    BY <2>1, KeptRespects
<1> QED
  BY <1>1, <1>2, <1>3, <1>4, <1>5, <1>6, <1>7, <1>8 DEF Next, WorkerStep

\* inbound_buffer.py: a row is completed only by a turn that saw all of it or
\* after Meta accepted a reply, and a lease with a recent heartbeat ends only by
\* a step of its holder.
THEOREM LeasesAreRespected == Spec => LeasesRespected
<1>1. IInv /\ [Next]_vars
      => [\A j \in Messages :
            /\ jobs[j].st \in Open /\ jobs'[j].st = "completed" =>
                 \/ jobs[j].sent
                 \/ \E w \in Workers : /\ Holds(w, j) /\ jobs[j].lease # 0
                                       /\ workers[w].parts = jobs[j].parts
            /\ /\ jobs[j].st = "processing" /\ ~jobs[j].stale
               /\ jobs'[j].lease # jobs[j].lease
               => \E w \in Workers : Holds(w, j) /\ workers'[w] # workers[w]]_vars
  BY StepRespects DEF Respects, Deserved
<1> QED
  BY <1>1, QueueInvariant, PTL DEF Spec, LeasesRespected

-----------------------------------------------------------------------------
(* Messages and media of the batches                                       *)

Sorted == \A j \in Messages : jobs[j].st \in Live => Increasing(jobs[j].parts)
NewestMedia(j) ==
    /\ jobs[j].media # 0 => jobs[j].media \in WithMedia /\ Has(j, jobs[j].media)
    /\ \A m \in WithMedia : Has(j, m) => m <= jobs[j].media
Intact == Sorted /\ \A j \in Messages : jobs[j].st \in Open => NewestMedia(j)

LEMMA IncreasingAppend ==
  ASSUME NEW s \in Seq(Messages), NEW m \in Messages, Increasing(s),
         \A x \in Messages : Contains(s, x) => x < m
  PROVE  Increasing(Append(s, m))
<1>1. /\ Len(Append(s, m)) = Len(s) + 1 /\ Len(s) \in Nat
      /\ Append(s, m)[Len(s) + 1] = m
      /\ \A i \in 1..Len(s) : Append(s, m)[i] = s[i] /\ s[i] \in Messages
  OBVIOUS
<1>2. DOMAIN s = 1..Len(s) /\ DOMAIN Append(s, m) = 1..(Len(s) + 1)
  BY <1>1
<1> SUFFICES ASSUME NEW i \in 1..(Len(s) + 1), NEW k \in 1..(Len(s) + 1), i < k
             PROVE  Append(s, m)[i] < Append(s, m)[k]
  BY <1>2 DEF Increasing
<1>3. CASE k <= Len(s)
  BY <1>1, <1>2, <1>3 DEF Increasing
<1>4. CASE k = Len(s) + 1
  BY <1>1, <1>4 DEF Contains
<1> QED
  BY <1>1, <1>3, <1>4

LEMMA IncreasingConcat ==
  ASSUME NEW s \in Seq(Messages), NEW t \in Seq(Messages), Increasing(s), Increasing(t),
         \A x, y \in Messages : Contains(s, x) /\ Contains(t, y) => x < y
  PROVE  Increasing(s \o t)
<1>1. /\ Len(s) \in Nat /\ Len(t) \in Nat /\ Len(s \o t) = Len(s) + Len(t)
      /\ \A i \in 1..Len(s) : (s \o t)[i] = s[i] /\ s[i] \in Messages
      /\ \A i \in 1..(Len(s) + Len(t)) : i > Len(s) => (s \o t)[i] = t[i - Len(s)]
      /\ \A i \in 1..Len(t) : t[i] \in Messages
      /\ DOMAIN (s \o t) = 1..(Len(s) + Len(t)) /\ DOMAIN s = 1..Len(s) /\ DOMAIN t = 1..Len(t)
  BY ConcatProperties
<1> SUFFICES ASSUME NEW i \in 1..(Len(s) + Len(t)), NEW k \in 1..(Len(s) + Len(t)), i < k
             PROVE  (s \o t)[i] < (s \o t)[k]
  BY <1>1 DEF Increasing
<1>2. CASE k <= Len(s)
  BY <1>1, <1>2 DEF Increasing
<1>3. CASE i > Len(s)
  <2>1. i - Len(s) \in 1..Len(t) /\ k - Len(s) \in 1..Len(t) /\ i - Len(s) < k - Len(s)
    BY <1>1, <1>3
  <2> QED
    BY <1>1, <1>3, <2>1 DEF Increasing
<1>4. CASE i <= Len(s) /\ k > Len(s)
  <2>1. i \in 1..Len(s) /\ k - Len(s) \in 1..Len(t)
    BY <1>1, <1>4
  <2>2. Contains(s, s[i]) /\ Contains(t, t[k - Len(s)])
    BY <2>1 DEF Contains
  <2> QED
    BY <1>1, <1>4, <2>1, <2>2
<1> QED
  BY <1>1, <1>2, <1>3, <1>4

\* Rows that stay or close, or go from one open status to another.
LEMMA KeptIntact ==
  ASSUME Intact,
         \A j \in Messages :
           /\ jobs'[j].parts = jobs[j].parts /\ jobs'[j].media = jobs[j].media
           /\ jobs'[j].st \in Live => jobs[j].st \in Live
           /\ jobs'[j].st \in Open => jobs[j].st \in Open
  PROVE  Intact'
<1>1. Sorted'
  BY DEF Intact, Sorted
<1>2. \A j \in Messages : jobs'[j].st \in Open => NewestMedia(j)'
  BY DEF Intact, NewestMedia, Has
<1> QED
  BY <1>1, <1>2 DEF Intact

\* Row p gets new parts and media, the others are as in KeptIntact.
LEMMA GrownIntact ==
  ASSUME Intact, NEW p \in Messages,
         \A j \in Messages \ {p} :
           /\ jobs'[j].parts = jobs[j].parts /\ jobs'[j].media = jobs[j].media
           /\ jobs'[j].st \in Live => jobs[j].st \in Live
           /\ jobs'[j].st \in Open => jobs[j].st \in Open,
         Increasing(jobs'[p].parts), NewestMedia(p)'
  PROVE  Intact'
<1>1. Sorted'
  BY DEF Intact, Sorted
<1>2. \A j \in Messages : jobs'[j].st \in Open => NewestMedia(j)'
  BY DEF Intact, NewestMedia, Has
<1> QED
  BY <1>1, <1>2 DEF Intact

\* What is in a row came before any message that is yet to come.
LEMMA ArrivedBefore ==
  ASSUME IInv, NEW m \in Messages, m \notin receipts, NEW j \in Messages, jobs[j].st # "absent",
         NEW x \in Messages, Has(j, x)
  PROVE  x < m
<1>1. x \in receipts
  BY DEF IInv, RowsInv, Filled, Is
<1>2. ~(m \in 1..(x - 1)) /\ x # m
  BY <1>1 DEF IInv, RowsInv, Numbered
<1> QED
  BY <1>2, InboundAssumption DEF Messages

LEMMA EnqueueIntact ==
  ASSUME IInv, Intact, NEW m \in Messages, Enqueue(m)
  PROVE  Intact'
<1>0. jobs \in [Messages -> Job] /\ m \notin receipts
  BY DEF Enqueue, IInv, Shape
<1>1. CASE JobsOf(From[m], "pending") = {}
  <2>1. /\ \A k \in Messages \ {m} : jobs'[k] = jobs[k]
        /\ jobs'[m].parts = <<m>> /\ jobs'[m].media = MediaOf(m)
    BY <1>0, <1>1 DEF Enqueue, Insert1, NoJob
  <2>2. Increasing(jobs'[m].parts)
    BY <2>1 DEF Increasing
  <2>3. NewestMedia(m)'
    <3>1. \A x : Contains(jobs'[m].parts, x) <=> x = m
      BY <2>1, ContainsOne
    <3> QED
      BY <2>1, <3>1, InboundAssumption DEF NewestMedia, Has, MediaOf, Messages
  <2> QED
    BY <2>1, <2>2, <2>3, GrownIntact
<1>2. CASE JobsOf(From[m], "pending") # {}
  <2> PICK p \in Messages : jobs[p].st = "pending" /\ jobs' = Append1(p, m)
    BY <1>2 DEF Enqueue, JobsOf
  <2>1. /\ \A k \in Messages \ {p} : jobs'[k] = jobs[k]
        /\ jobs'[p].parts = Append(jobs[p].parts, m)
        /\ jobs'[p].media = Coalesce(MediaOf(m), jobs[p].media)
        /\ jobs[p].parts \in Seq(Messages) /\ jobs[p].media \in Messages \cup {0}
    BY <1>0 DEF Append1, Job
  <2>2. \A x \in Messages : Has(p, x) => x < m
    BY <1>0, ArrivedBefore
  <2>3. Increasing(jobs[p].parts) /\ NewestMedia(p)
    BY DEF Intact, Sorted, Live, Open
  <2>4. Increasing(jobs'[p].parts)
    BY <2>1, <2>2, <2>3, IncreasingAppend DEF Has
  <2>5. NewestMedia(p)'
    <3>1. \A x : Contains(jobs'[p].parts, x) <=> Has(p, x) \/ x = m
      BY <2>1, ContainsAppend DEF Has
    <3>2. CASE m \in WithMedia
      <4>1. jobs'[p].media = m
        BY <2>1, <3>2 DEF MediaOf, Coalesce, Messages
      <4>2. \A x \in WithMedia : Contains(jobs'[p].parts, x) => x <= m
        BY <2>2, <3>1, InboundAssumption DEF Messages
      <4> QED
        BY <3>1, <3>2, <4>1, <4>2 DEF NewestMedia, Has
    <3>3. CASE m \notin WithMedia
      <4>1. jobs'[p].media = jobs[p].media
        BY <2>1, <3>3 DEF MediaOf, Coalesce
      <4> QED
        BY <2>3, <3>1, <3>3, <4>1 DEF NewestMedia, Has
    <3> QED
      BY <3>2, <3>3
  <2> QED
    BY <2>1, <2>4, <2>5, GrownIntact
<1> QED
  BY <1>1, <1>2

LEMMA MergeIntact ==
  ASSUME IInv, Intact, NEW j \in Messages, jobs[j].st = "processing",
         NEW p \in Messages, From[p] = From[j], jobs[p].st = "pending",
         NEW due \in BOOLEAN, jobs' = Merge(j, p, due)
  PROVE  Intact'
<1>0. jobs \in [Messages -> Job] /\ p # j
  BY DEF IInv, Shape
<1>1. /\ \A k \in Messages \ {j, p} : jobs'[k] = jobs[k]
      /\ jobs'[j].st = "merged" /\ jobs'[j].parts = jobs[j].parts /\ jobs'[j].media = jobs[j].media
      /\ jobs'[p].parts = jobs[j].parts \o jobs[p].parts
      /\ jobs'[p].media = Coalesce(jobs[p].media, jobs[j].media)
  <2>1. \A k \in Messages \ {j, p} : jobs'[k] = jobs[k]
    BY <1>0 DEF Merge, Finish
  <2>2. jobs'[j] = [jobs[j] EXCEPT !.st = "merged", !.lease = 0, !.stale = FALSE]
    BY <1>0 DEF Merge, Finish
  <2>3. jobs'[p] = [jobs[p] EXCEPT !.parts = jobs[j].parts \o @, !.due = due,
                                   !.media = Coalesce(@, jobs[j].media)]
    BY <1>0 DEF Merge, Finish
  <2>4. jobs'[j].st = "merged" /\ jobs'[j].parts = jobs[j].parts /\ jobs'[j].media = jobs[j].media
    BY <1>0, <2>2 DEF Job
  <2> PICK job \in Job : job = jobs[p]
    BY <1>0
  <2>5. PICK parts \in Seq(Messages), media \in Messages \cup {0} :
          /\ parts = jobs[j].parts \o jobs[p].parts /\ media = Coalesce(jobs[p].media, jobs[j].media)
          /\ jobs'[p] = [job EXCEPT !.parts = parts, !.due = due, !.media = media]
    <3>1. /\ jobs[j].parts \o jobs[p].parts \in Seq(Messages)
          /\ Coalesce(jobs[p].media, jobs[j].media) \in Messages \cup {0}
      <4>1. /\ jobs[j].parts \in Seq(Messages) /\ jobs[p].parts \in Seq(Messages)
            /\ jobs[j].media \in Messages \cup {0} /\ jobs[p].media \in Messages \cup {0}
        BY <1>0 DEF Job
      <4> QED
        BY <4>1, ConcatProperties DEF Coalesce
    <3> QED
      BY <2>3, <3>1
  <2>6. jobs'[p].parts = parts /\ jobs'[p].media = media
    BY <2>5 DEF Job
  <2> QED
    BY <2>1, <2>4, <2>5, <2>6
<1>2. /\ jobs[j].parts \in Seq(Messages) /\ jobs[p].parts \in Seq(Messages)
      /\ jobs[j].media \in Messages \cup {0} /\ jobs[p].media \in Messages \cup {0}
  BY <1>0 DEF Job
<1>3. /\ Increasing(jobs[j].parts) /\ NewestMedia(j)
      /\ Increasing(jobs[p].parts) /\ NewestMedia(p)
  BY DEF Intact, Sorted, Live, Open
<1>4. \A x, y \in Messages : Has(j, x) /\ Has(p, y) => x < y
  BY DEF IInv, RowsInv, InOrder, Is
<1>5. Increasing(jobs'[p].parts)
  BY <1>1, <1>2, <1>3, <1>4, IncreasingConcat DEF Has
<1>6. NewestMedia(p)'
  <2>1. \A x : Contains(jobs'[p].parts, x) <=> Has(j, x) \/ Has(p, x)
    BY <1>1, <1>2, ContainsConcat DEF Has
  <2>2. \A x \in WithMedia : x \in Messages /\ x \in Int /\ x > 0
    BY InboundAssumption DEF Messages
  <2>3. CASE jobs[p].media # 0
    <3>1. jobs'[p].media = jobs[p].media /\ jobs[p].media \in WithMedia /\ Has(p, jobs[p].media)
      BY <1>1, <1>3, <2>3 DEF Coalesce, NewestMedia
    <3>2. \A x \in WithMedia : Has(j, x) => x <= jobs[p].media
      BY <1>4, <2>2, <3>1
    <3> QED
      BY <1>3, <2>1, <3>1, <3>2 DEF NewestMedia, Has
  <2>4. CASE jobs[p].media = 0
    <3>1. jobs'[p].media = jobs[j].media
      BY <1>1, <2>4 DEF Coalesce
    <3>2. \A x \in WithMedia : ~Has(p, x)
      BY <1>3, <2>2, <2>4 DEF NewestMedia
    <3> QED
      BY <1>3, <2>1, <3>1, <3>2 DEF NewestMedia, Has
  <2> QED
    BY <2>3, <2>4
<1>7. \A k \in Messages \ {p} :
        /\ jobs'[k].parts = jobs[k].parts /\ jobs'[k].media = jobs[k].media
        /\ jobs'[k].st \in Live => jobs[k].st \in Live
        /\ jobs'[k].st \in Open => jobs[k].st \in Open
  BY <1>1 DEF Live, Open, Ended, Terminal, Failures
<1> QED
  BY <1>5, <1>6, <1>7, GrownIntact

LEMMA FinishIntact ==
  ASSUME Shape, Intact, NEW j \in Messages, jobs[j].st = "processing", NEW status \in {"pending"} \cup Ended,
         NEW new, \/ new = Finish(j, status)
                  \/ \E due \in BOOLEAN : new = [Finish(j, status) EXCEPT ![j].due = due],
         jobs' = new
  PROVE  Intact'
<1>0. jobs \in [Messages -> Job]
  BY DEF Shape
<1>1. \A k \in Messages : /\ jobs'[k].parts = jobs[k].parts /\ jobs'[k].media = jobs[k].media
                          /\ k # j => jobs'[k].st = jobs[k].st
  BY <1>0 DEF Finish, Job
<1>2. jobs[j].st \in Open /\ jobs[j].st \in Live
  BY DEF Open, Live
<1>3. \A k \in Messages : /\ jobs'[k].st \in Live => jobs[k].st \in Live
                          /\ jobs'[k].st \in Open => jobs[k].st \in Open
  BY <1>1, <1>2
<1> QED
  BY <1>1, <1>3, KeptIntact

LEMMA GiveBackIntact ==
  ASSUME IInv, Intact, NEW j \in Messages, jobs[j].st = "processing",
         NEW retry \in BOOLEAN, NEW safe \in BOOLEAN, NEW due \in BOOLEAN, GiveBack(j, retry, safe, due)
  PROVE  Intact'
<1>1. Shape /\ {"pending", "unknown", "exhausted"} \subseteq {"pending"} \cup Ended
  BY DEF IInv, Ended, Terminal, Failures
<1>2. CASE jobs' = Finish(j, "unknown") \/ jobs' = Finish(j, "exhausted")
  BY <1>1, <1>2, FinishIntact
<1>3. CASE jobs' = [Finish(j, "pending") EXCEPT ![j].due = due]
  BY <1>1, <1>3, FinishIntact
<1>4. CASE \E p \in JobsOf(From[j], "pending") : jobs' = Merge(j, p, due)
  <2> PICK p \in Messages : From[p] = From[j] /\ jobs[p].st = "pending" /\ jobs' = Merge(j, p, due)
    BY <1>4 DEF JobsOf
  <2> QED
    BY MergeIntact
<1> QED
  BY <1>2, <1>3, <1>4 DEF GiveBack

LEMMA RequeueIntact ==
  ASSUME IInv, Intact, NEW w \in Workers, Requeue(w)
  PROVE  Intact'
<1> DEFINE mine == workers[w].job
           retry == jobs[mine].attempts < MaxAttempts
           safe == workers[w].safe
<1>0. Busy(w) /\ workers[w] \in TaskShape
  BY TaskFields DEF Requeue, Busy
<1>1. CASE ~Current(w)
  BY <1>1, KeptIntact DEF Requeue
<1>2. CASE Current(w)
  <2>1. mine \in Messages /\ jobs[mine].st = "processing"
    BY <1>0, <1>2, TaskFields DEF Current
  <2>2. CASE jobs[mine].sent
    <3>1. jobs' = Finish(mine, "partial") /\ "partial" \in {"pending"} \cup Ended
      BY <1>2, <2>2 DEF Requeue, Ended, Terminal, Failures
    <3> HIDE DEF mine
    <3> QED
      BY <2>1, <3>1, FinishIntact DEF IInv
  <2>3. CASE ~jobs[mine].sent
    <3>1. GiveBack(mine, retry, safe, FALSE)
      BY <1>2, <2>3 DEF Requeue
    <3>2. safe \in BOOLEAN
      BY <1>0 DEF TaskShape
    <3>3. retry \in BOOLEAN
      OBVIOUS
    <3> HIDE DEF retry, safe, mine
    <3> QED
      BY <2>1, <3>1, <3>2, <3>3, GiveBackIntact
  <2> QED
    BY <2>2, <2>3
<1> QED
  BY <1>1, <1>2

LEMMA RecoverIntact ==
  ASSUME IInv, Intact, NEW row, Recover(row)
  PROVE  Intact'
<1>1. CASE row \notin StaleRows
  BY <1>1, KeptIntact DEF Recover
<1>2. CASE row \in StaleRows
  <2>1. row.job \in Messages /\ jobs[row.job].st = "processing"
    BY <1>2 DEF StaleRows
  <2>2. CASE jobs[row.job].sent
    <3>1. jobs' = Finish(row.job, "completed") /\ "completed" \in {"pending"} \cup Ended
      BY <1>2, <2>2 DEF Recover, Ended, Terminal, Failures
    <3> QED
      BY <2>1, <3>1, FinishIntact DEF IInv
  <2>3. CASE ~jobs[row.job].sent
    <3>1. GiveBack(row.job, TRUE, FALSE, TRUE)
      BY <1>2, <2>3 DEF Recover
    <3> QED
      BY <2>1, <3>1, GiveBackIntact
  <2> QED
    BY <2>2, <2>3
<1> QED
  BY <1>1, <1>2

LEMMA StepIntact == IInv /\ Intact /\ [Next]_vars => Intact'
<1> SUFFICES ASSUME IInv, Intact, [Next]_vars
             PROVE  Intact'
  OBVIOUS
<1>0. jobs \in [Messages -> Job]
  BY DEF IInv, Shape
<1>1. CASE \E m \in Messages : Enqueue(m)
  BY <1>1, EnqueueIntact
<1>2. CASE \E m \in Messages : WindowElapses(m) \/ LeaseExpires(m)
  <2> PICK m \in Messages : WindowElapses(m) \/ LeaseExpires(m)
    BY <1>2
  <2>1. CASE jobs' = [jobs EXCEPT ![m].due = TRUE]
    BY <1>0, <2>1, KeptIntact DEF Job
  <2>2. CASE jobs' = [jobs EXCEPT ![m].stale = TRUE]
    BY <1>0, <2>2, KeptIntact DEF Job
  <2> QED
    BY <2>1, <2>2 DEF WindowElapses, LeaseExpires
<1>3. CASE \E w \in Workers : ClaimDue(w) \/ \E s \in Senders : ClaimSender(w, s)
  <2> PICK w \in Workers, k \in Messages : jobs[k].st = "pending" /\ Lease(w, k)
    BY <1>3 DEF ClaimDue, ClaimSender, JobsOf
  <2>1. /\ jobs'[k].parts = jobs[k].parts /\ jobs'[k].media = jobs[k].media
        /\ \A i \in Messages : i # k => jobs'[i] = jobs[i]
    BY <1>0 DEF Lease, Job
  <2>2. jobs[k].st \in Open /\ jobs[k].st \in Live
    BY DEF Open, Live
  <2> QED
    BY <2>1, <2>2, KeptIntact
<1>4. CASE \E w \in Workers : Fence(w) \/ Record(w) \/ Heartbeat(w)
  <2>1. \A i \in Messages : /\ jobs'[i].st = jobs[i].st
                            /\ jobs'[i].parts = jobs[i].parts /\ jobs'[i].media = jobs[i].media
    BY <1>0, <1>4 DEF Fence, Record, Heartbeat, Job
  <2> QED
    BY <2>1, KeptIntact
<1>5. CASE \E w \in Workers : Complete(w)
  <2> PICK w \in Workers : Complete(w)
    BY <1>5
  <2>1. CASE Current(w) /\ jobs' = Finish(workers[w].job, "completed")
    <3>1. workers[w].job \in Messages /\ jobs[workers[w].job].st = "processing"
      BY <2>1, TaskFields DEF Complete, Busy, Current
    <3>2. "completed" \in {"pending"} \cup Ended
      BY DEF Ended, Terminal, Failures
    <3> QED
      BY <2>1, <3>1, <3>2, FinishIntact DEF IInv
  <2>2. CASE UNCHANGED jobs
    BY <2>2, KeptIntact
  <2> QED
    BY <2>1, <2>2 DEF Complete
<1>6. CASE \E w \in Workers : Requeue(w)
  BY <1>6, RequeueIntact
<1>7. CASE \E row \in snap : Recover(row)
  BY <1>7, RecoverIntact
<1>8. CASE \/ RecoverSelect \/ Crash \/ UNCHANGED vars
           \/ \E w \in Workers : Generate(w) \/ Send(w) \/ RequeueFails(w)
  <2>1. UNCHANGED jobs
    BY <1>8 DEF RecoverSelect, Crash, vars, Generate, Send, RequeueFails
  <2> QED
    BY <2>1, KeptIntact
<1> QED
  BY <1>1, <1>2, <1>3, <1>4, <1>5, <1>6, <1>7, <1>8 DEF Next, WorkerStep

LEMMA InitIntact == Init => Intact
<1> SUFFICES ASSUME Init PROVE Intact
  OBVIOUS
<1>1. \A j \in Messages : jobs[j].st = "absent"
  BY DEF Init, NoJob
<1>2. "absent" \notin Open /\ "absent" \notin Live
  BY DEF Open, Live, Ended, Terminal, Failures
<1> QED
  BY <1>1, <1>2 DEF Intact, Sorted

\* A sorted row holds a message once, so what has one row has one place.
LEMMA OnePlace ==
  ASSUME IInv, Intact, NEW m \in receipts
  PROVE  LET rows == {j \in Messages : jobs[j].st \notin {"absent", "merged"}}
             places == UNION {{j} \X {i \in DOMAIN jobs[j].parts : jobs[j].parts[i] = m} : j \in rows}
         IN Cardinality(places) = 1
<1> DEFINE rows == {j \in Messages : jobs[j].st \notin {"absent", "merged"}}
           at(j) == {i \in DOMAIN jobs[j].parts : jobs[j].parts[i] = m}
           places == UNION {{j} \X at(j) : j \in rows}
<1>0. /\ jobs \in [Messages -> Job] /\ m \in Messages
      /\ \A j \in Messages : jobs[j].parts \in Seq(Messages)
  BY DEF IInv, Shape, Job
<1>1. \A j \in Messages : j \in rows <=> Is(j, Live)
  BY <1>0 DEF Is, Live, Ended, Open, Terminal, Failures, Job
<1>2. PICK j \in Messages : Is(j, Live) /\ Has(j, m)
  BY DEF IInv, RowsInv, Placed
<1>3. PICK i \in 1..Len(jobs[j].parts) : jobs[j].parts[i] = m
  BY <1>2 DEF Has, Contains
<1>4. DOMAIN jobs[j].parts = 1..Len(jobs[j].parts)
  BY <1>0
<1>5. at(j) = {i}
  <2>1. Increasing(jobs[j].parts) /\ i \in Int /\ m \in Int
    BY <1>0, <1>2, InboundAssumption DEF Intact, Sorted, Is, Messages
  <2>2. ASSUME NEW k \in at(j) PROVE k = i
    BY <1>3, <1>4, <2>1, <2>2 DEF Increasing
  <2> QED
    BY <1>3, <1>4, <2>2
<1>6. \A k \in rows : k # j => at(k) = {}
  <2> SUFFICES ASSUME NEW k \in rows, k # j, NEW n \in at(k) PROVE FALSE
    OBVIOUS
  <2>1. DOMAIN jobs[k].parts = 1..Len(jobs[k].parts)
    BY <1>0
  <2>2. Has(k, m)
    BY <2>1 DEF Has, Contains
  <2> QED
    BY <1>0, <1>1, <1>2, <2>2 DEF IInv, RowsInv, Placed
<1>7. places = {<<j, i>>}
  <2>1. j \in rows
    BY <1>1, <1>2
  <2> HIDE DEF rows, at
  <2>2. ASSUME NEW place \in places PROVE place = <<j, i>>
    <3> PICK k \in rows : place \in {k} \X at(k)
      OBVIOUS
    <3>1. k = j
      BY <1>6
    <3> QED
      BY <1>5, <3>1
  <2>3. <<j, i>> \in places
    <3>1. <<j, i>> \in {j} \X at(j)
      BY <1>5
    <3> QED
      BY <2>1, <3>1
  <2> QED
    BY <2>2, <2>3
<1>8. Cardinality(places) = 1
  BY <1>7, FS_Singleton
<1> QED
  BY <1>8

LEMMA NewestIsMax ==
  ASSUME IInv, NEW j \in Messages, NewestMedia(j)
  PROVE  jobs[j].media = Max({m \in WithMedia : Contains(jobs[j].parts, m)} \cup {0})
<1> DEFINE seen == {m \in WithMedia : Contains(jobs[j].parts, m)} \cup {0}
<1>1. jobs[j].media \in Nat /\ \A x \in seen : x \in Nat
  BY InboundAssumption DEF IInv, Shape, Job, Messages
<1>2. jobs[j].media \in seen /\ \A x \in seen : jobs[j].media >= x
  BY <1>1 DEF NewestMedia, Has
<1> HIDE DEF seen
<1>3. \A x \in seen : (\A y \in seen : x >= y) => x = jobs[j].media
  BY <1>1, <1>2
<1>4. Max(seen) \in seen /\ \A y \in seen : Max(seen) >= y
  BY <1>2 DEF Max
<1>5. jobs[j].media = Max(seen)
  BY <1>3, <1>4
<1> QED
  BY <1>5 DEF seen

LEMMA IntactMessages == IInv /\ Intact => MessagesIntact
<1> SUFFICES ASSUME IInv, Intact PROVE MessagesIntact
  OBVIOUS
<1>1. \A j \in Messages : jobs[j].st \in Open => Increasing(jobs[j].parts)
  BY DEF Intact, Sorted, Live
<1>2. ASSUME NEW s \in Senders, NEW j \in JobsOf(s, "pending") \cup JobsOf(s, "processing")
      PROVE  Increasing(jobs[j].parts)
  BY <1>1, <1>2 DEF JobsOf, Open
<1>3. ASSUME NEW s \in Senders, NEW j \in JobsOf(s, "processing"), NEW p \in JobsOf(s, "pending")
      PROVE  Increasing(jobs[j].parts \o jobs[p].parts)
  <2>1. /\ j \in Messages /\ p \in Messages /\ From[j] = From[p]
        /\ jobs[j].st = "processing" /\ jobs[p].st = "pending"
    BY <1>3 DEF JobsOf
  <2>2. jobs[j].parts \in Seq(Messages) /\ jobs[p].parts \in Seq(Messages)
    BY <2>1 DEF IInv, Shape, Job
  <2>3. \A x, y \in Messages : Has(j, x) /\ Has(p, y) => x < y
    BY <2>1 DEF IInv, RowsInv, InOrder, Is
  <2> QED
    BY <1>1, <2>1, <2>2, <2>3, IncreasingConcat DEF Has, Open
<1>4. \A j \in Messages : jobs[j].st \in Open =>
        jobs[j].media = Max({m \in WithMedia : Contains(jobs[j].parts, m)} \cup {0})
  BY NewestIsMax DEF Intact
<1> QED
  BY <1>2, <1>3, <1>4, OnePlace DEF MessagesIntact

\* inbound_buffer.py: through appends, retries and merges every accepted message
\* keeps exactly one place, in the order of the chat, and a batch its newest image.
THEOREM MessagesStayIntact == Spec => []MessagesIntact
<1> QED
  BY InitIInv, StepIInv, InitIntact, StepIntact, IntactMessages, PTL DEF Spec
-----------------------------------------------------------------------------
(* The type invariant, with the partial unique indexes                     *)

\* A task has no more sends and tries than a reply has, and one send at least
\* while it is sending.
Within(t) == /\ t.left \in 0..MaxReply /\ t.tries \in 0..MaxTries
             /\ t.step \in {"fence", "send", "record"} => t.left # 0
SnapShape == [job : Messages, lease : Nat]
Bounded == /\ \A w \in Workers : Within(workers[w])
           /\ snap \subseteq SnapShape /\ faults \in 0..MaxFaults

LEMMA FreeWithin == Within(Free)
BY InboundAssumption DEF Within, Free

LEMMA StaleRowsShape == IInv => StaleRows \subseteq SnapShape
BY DEF IInv, Shape, Job, StaleRows, SnapShape

\* One task moves, to bounds that hold.
LEMMA OneWithin ==
  ASSUME Bounded, NEW w \in Workers, NEW new, workers \in [Workers -> TaskShape],
         workers' = [workers EXCEPT ![w] = new], Within(new),
         snap' \subseteq SnapShape, faults' \in 0..MaxFaults
  PROVE  Bounded'
<1>1. workers'[w] = new /\ \A v \in Workers : v # w => workers'[v] = workers[v]
  OBVIOUS
<1> QED
  BY <1>1 DEF Bounded, Within

LEMMA FailsWithin ==
  ASSUME IInv, Bounded, NEW w \in Workers, Fails(w), UNCHANGED <<snap, faults>>
  PROVE  Bounded'
<1> DEFINE new == [workers[w] EXCEPT !.step = "requeue", !.safe = FALSE]
<1>1. workers' = [workers EXCEPT ![w] = new] /\ workers \in [Workers -> TaskShape]
  BY TaskFields DEF Fails
<1>2. new.left = workers[w].left /\ new.tries = workers[w].tries /\ new.step = "requeue"
  BY TaskFields DEF TaskShape
<1> HIDE DEF new
<1>3. Within(new)
  BY <1>2 DEF Bounded, Within
<1> QED
  BY <1>1, <1>3, OneWithin DEF Bounded

LEMMA SendWithin ==
  ASSUME IInv, Bounded, NEW w \in Workers, Send(w)
  PROVE  Bounded'
<1>0. /\ workers \in [Workers -> TaskShape] /\ workers[w] \in TaskShape /\ Within(workers[w])
      /\ UNCHANGED <<snap, faults>>
  BY TaskFields DEF Bounded, Send
<1>1. CASE Fails(w)
  BY <1>0, <1>1, FailsWithin
<1>2. workers[w].left # 0
  BY <1>0 DEF Send, Within
<1>3. CASE workers' = [workers EXCEPT ![w].step = "record", ![w].hit = TRUE]
  <2> DEFINE new == [workers[w] EXCEPT !.step = "record", !.hit = TRUE]
  <2>1. workers' = [workers EXCEPT ![w] = new]
    BY <1>0, <1>3
  <2>2. new.left = workers[w].left /\ new.tries = workers[w].tries
    BY <1>0 DEF TaskShape
  <2> HIDE DEF new
  <2>3. Within(new)
    BY <1>0, <1>2, <2>2 DEF Within
  <2> QED
    BY <1>0, <2>1, <2>3, OneWithin DEF Bounded
<1>4. CASE workers' = [workers EXCEPT ![w].step = "requeue", ![w].safe = FALSE, ![w].hit = TRUE]
  <2> DEFINE new == [workers[w] EXCEPT !.step = "requeue", !.safe = FALSE, !.hit = TRUE]
  <2>1. workers' = [workers EXCEPT ![w] = new]
    BY <1>0, <1>4
  <2>2. new.left = workers[w].left /\ new.tries = workers[w].tries
    BY <1>0 DEF TaskShape
  <2> HIDE DEF new
  <2>3. Within(new)
    BY <1>0, <1>2, <2>2 DEF Within
  <2> QED
    BY <1>0, <2>1, <2>3, OneWithin DEF Bounded
<1>5. CASE workers[w].tries + 1 < MaxTries /\ workers' = [workers EXCEPT ![w].tries = @ + 1]
  <2> DEFINE new == [workers[w] EXCEPT !.tries = @ + 1]
  <2>1. workers' = [workers EXCEPT ![w] = new]
    BY <1>0, <1>5
  <2>2. new.left = workers[w].left /\ new.tries = workers[w].tries + 1
    BY <1>0 DEF TaskShape
  <2> HIDE DEF new
  <2>3. Within(new)
    BY <1>0, <1>2, <1>5, <2>2, InboundAssumption DEF Within
  <2> QED
    BY <1>0, <2>1, <2>3, OneWithin DEF Bounded
<1>6. CASE workers' = [workers EXCEPT ![w].step = "requeue", ![w].safe = TRUE]
  <2> DEFINE new == [workers[w] EXCEPT !.step = "requeue", !.safe = TRUE]
  <2>1. workers' = [workers EXCEPT ![w] = new]
    BY <1>0, <1>6
  <2>2. new.left = workers[w].left /\ new.tries = workers[w].tries
    BY <1>0 DEF TaskShape
  <2> HIDE DEF new
  <2>3. Within(new)
    BY <1>0, <1>2, <2>2 DEF Within
  <2> QED
    BY <1>0, <2>1, <2>3, OneWithin DEF Bounded
<1> QED
  BY <1>1, <1>3, <1>4, <1>5, <1>6 DEF Send

LEMMA WorkerWithin ==
  ASSUME IInv, Bounded, NEW w \in Workers, WorkerStep(w)
  PROVE  Bounded'
<1>0. /\ workers \in [Workers -> TaskShape] /\ workers[w] \in TaskShape /\ Within(workers[w])
      /\ snap \subseteq SnapShape /\ faults \in 0..MaxFaults
      /\ MaxReply \in Nat /\ MaxTries \in Nat \ {0}
  BY TaskFields, InboundAssumption DEF Bounded
<1>1. CASE Generate(w)
  <2> PICK n \in 0..MaxReply :
        workers' = [workers EXCEPT ![w].left = n, ![w].step = IF n = 0 THEN "complete" ELSE "fence"]
    BY <1>1 DEF Generate
  <2> PICK step \in {"complete", "fence"} : step = IF n = 0 THEN "complete" ELSE "fence"
    OBVIOUS
  <2> DEFINE new == [workers[w] EXCEPT !.left = n, !.step = step]
  <2>1. workers' = [workers EXCEPT ![w] = new]
    BY <1>0
  <2>2. new.left = n /\ new.step = step /\ new.tries = workers[w].tries
    BY <1>0 DEF TaskShape
  <2> HIDE DEF new
  <2>3. Within(new)
    BY <1>0, <2>2 DEF Within
  <2> QED
    BY <1>0, <1>1, <2>1, <2>3, OneWithin DEF Generate
<1>2. CASE Fence(w)
  <2>1. CASE Fails(w)
    BY <1>2, <2>1, FailsWithin DEF Fence
  <2>2. CASE workers' = [workers EXCEPT ![w].step = "send", ![w].tries = 0]
    <3> DEFINE new == [workers[w] EXCEPT !.step = "send", !.tries = 0]
    <3>1. workers' = [workers EXCEPT ![w] = new]
      BY <1>0, <2>2
    <3>2. new.left = workers[w].left /\ new.tries = 0
      BY <1>0 DEF TaskShape
    <3>3. workers[w].left # 0
      BY <1>0, <1>2 DEF Fence, Within
    <3> HIDE DEF new
    <3>4. Within(new)
      BY <1>0, <3>2, <3>3 DEF Within
    <3> QED
      BY <1>0, <1>2, <3>1, <3>4, OneWithin DEF Fence
  <2> QED
    BY <1>2, <2>1, <2>2 DEF Fence
<1>3. CASE Send(w)
  BY <1>3, SendWithin
<1>4. CASE Record(w)
  <2>1. CASE Fails(w)
    BY <1>4, <2>1, FailsWithin DEF Record
  <2>2. CASE ~Fails(w)
    <3> PICK step \in {"complete", "fence"} : step = IF workers[w].left = 1 THEN "complete" ELSE "fence"
      OBVIOUS
    <3> DEFINE new == [workers[w] EXCEPT !.left = @ - 1, !.step = step]
    <3>1. workers' = [workers EXCEPT ![w] = new]
      BY <1>0, <1>4, <2>2 DEF Record
    <3>2. new.left = workers[w].left - 1 /\ new.step = step /\ new.tries = workers[w].tries
      BY <1>0 DEF TaskShape
    <3>3. workers[w].left # 0
      BY <1>0, <1>4 DEF Record, Within
    <3> HIDE DEF new
    <3>4. Within(new)
      BY <1>0, <3>2, <3>3 DEF Within
    <3> QED
      BY <1>0, <1>4, <3>1, <3>4, OneWithin DEF Record
  <2> QED
    BY <2>1, <2>2
<1>5. CASE Complete(w)
  <2>1. CASE Fails(w)
    BY <1>5, <2>1, FailsWithin DEF Complete
  <2>2. CASE workers' = [workers EXCEPT ![w] = Free]
    BY <1>0, <1>5, <2>2, FreeWithin, OneWithin DEF Complete
  <2> QED
    BY <1>5, <2>1, <2>2 DEF Complete
<1>6. CASE Requeue(w)
  BY <1>0, <1>6, FreeWithin, OneWithin DEF Requeue
<1> QED
  BY <1>1, <1>2, <1>3, <1>4, <1>5, <1>6 DEF WorkerStep

LEMMA ClaimWithin ==
  ASSUME IInv, Bounded, NEW w \in Workers, ClaimDue(w) \/ \E s \in Senders : ClaimSender(w, s)
  PROVE  Bounded'
<1> PICK j \in Messages : Lease(w, j)
  BY DEF ClaimDue, ClaimSender, JobsOf
<1> DEFINE new == [Free EXCEPT !.step = "generate", !.job = j, !.lease = leases + 1,
                               !.parts = jobs[j].parts]
<1>1. workers' = [workers EXCEPT ![w] = new] /\ UNCHANGED <<snap, faults>>
  BY DEF Lease
<1>2. new.left = 0 /\ new.tries = 0 /\ new.step = "generate"
  BY DEF Free
<1> HIDE DEF new
<1>3. Within(new)
  BY <1>2, InboundAssumption DEF Within
<1> QED
  BY <1>1, <1>3, TaskFields, OneWithin DEF Bounded

LEMMA StepBounded == IInv /\ Bounded /\ [Next]_vars => Bounded'
<1> SUFFICES ASSUME IInv, Bounded, [Next]_vars PROVE Bounded'
  OBVIOUS
<1>0. /\ workers \in [Workers -> TaskShape] /\ snap \subseteq SnapShape
      /\ faults \in 0..MaxFaults /\ MaxFaults \in Nat
  BY InboundAssumption DEF IInv, Shape, Bounded
<1>1. ASSUME UNCHANGED workers, snap' \subseteq SnapShape, faults' \in 0..MaxFaults
      PROVE  Bounded'
  BY <1>1 DEF Bounded
<1>2. ASSUME NEW m \in Messages, Enqueue(m) \/ WindowElapses(m)
      PROVE  Bounded'
  BY <1>0, <1>1, <1>2 DEF Enqueue, WindowElapses
<1>3. ASSUME NEW m \in Messages, LeaseExpires(m)
      PROVE  Bounded'
  <2>1. faults' = faults \/ (faults < MaxFaults /\ faults' = faults + 1)
    BY <1>3 DEF LeaseExpires
  <2>2. faults' \in 0..MaxFaults
    BY <1>0, <2>1
  <2> QED
    BY <1>0, <1>1, <1>3, <2>2 DEF LeaseExpires
<1>4. ASSUME NEW w \in Workers, RequeueFails(w)
      PROVE  Bounded'
  <2>1. faults' \in 0..MaxFaults
    BY <1>0, <1>4 DEF RequeueFails
  <2> QED
    BY <1>0, <1>4, <2>1, FreeWithin, OneWithin DEF RequeueFails
<1>5. ASSUME NEW w \in Workers, Heartbeat(w)
      PROVE  Bounded'
  BY <1>0, <1>1, <1>5 DEF Heartbeat
<1>6. CASE RecoverSelect
  BY <1>0, <1>1, <1>6, StaleRowsShape DEF RecoverSelect
<1>7. ASSUME NEW row \in snap, Recover(row)
      PROVE  Bounded'
  <2>1. UNCHANGED <<workers, faults>> /\ snap' = snap \ {row}
    BY <1>7 DEF Recover
  <2> QED
    BY <1>0, <1>1, <2>1
<1>8. CASE Crash
  <2>1. faults' \in 0..MaxFaults /\ snap' = {} /\ workers' = [w \in Workers |-> Free]
    BY <1>0, <1>8 DEF Crash
  <2> QED
    BY <2>1, FreeWithin DEF Bounded
<1>9. CASE UNCHANGED vars
  BY <1>0, <1>1, <1>9 DEF vars
<1> QED
  BY <1>2, <1>3, <1>4, <1>5, <1>6, <1>7, <1>8, <1>9, ClaimWithin, WorkerWithin DEF Next

LEMMA InitBounded == Init => Bounded
BY FreeWithin, InboundAssumption DEF Init, Bounded

LEMMA BoundedTypes == IInv /\ Bounded => TypeOK
<1> SUFFICES ASSUME IInv, Bounded PROVE TypeOK
  OBVIOUS
<1>1. ASSUME NEW s \in Senders, NEW st \in Open
      PROVE  Cardinality(JobsOf(s, st)) <= 1
  <2>1. \A j, k \in JobsOf(s, st) : j = k
    BY DEF JobsOf, IInv, RowsInv, Unique, Is
  <2>2. CASE JobsOf(s, st) = {}
    BY <2>2, FS_EmptySet
  <2>3. CASE JobsOf(s, st) # {}
    <3> PICK j \in JobsOf(s, st) : TRUE
      BY <2>3
    <3>1. JobsOf(s, st) = {j}
      BY <2>1
    <3>2. Cardinality({j}) = 1
      BY FS_Singleton
    <3> QED
      BY <3>1, <3>2
  <2> QED
    BY <2>2, <2>3
<1>2. workers \in [Workers -> Task]
  <2>1. ASSUME NEW w \in Workers
        PROVE  workers[w] \in Task
    <3>1. workers[w] \in TaskShape /\ workers[w].left \in 0..MaxReply
          /\ workers[w].tries \in 0..MaxTries
      BY TaskFields DEF Bounded, Within
    <3> QED
      BY <3>1 DEF TaskShape, Task
  <2> QED
    BY <2>1 DEF IInv, Shape
<1> QED
  BY <1>1, <1>2 DEF TypeOK, IInv, Shape, Bounded, SnapShape

\* inbound_buffer.py: no transaction trips uq_meta_inbound_jobs_pending_sender or
\* ..._processing_sender, and a task sends no more than its reply has.
THEOREM QueueTyped == Spec => []TypeOK
<1> QED
  BY InitIInv, StepIInv, InitBounded, StepBounded, BoundedTypes, PTL DEF Spec
=============================================================================
