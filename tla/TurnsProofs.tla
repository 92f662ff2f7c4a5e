----------------------------- MODULE TurnsProofs -----------------------------
(***************************************************************************)
(* Theorems about Turns for any number of turns, messages, interventions,  *)
(* drafts, orders and faults, with or without Kommo: a conversation that a *)
(* person paused stays silent for every message that comes while the pause *)
(* is in force; a draft that is gone is not ordered; and, where checkouts  *)
(* come one after the other, one purchase has one order.                   *)
(***************************************************************************)
EXTENDS Turns, FiniteSetTheorems, NaturalsInduction, WellFoundedInduction, TLAPS

Fields == DOMAIN Free
React == [by : Reactors \cup {NoOne}, step : {"off", "update", "confirm", "local"}]

Shape ==
    /\ DOMAIN tasks = Tasks
    /\ \A t \in Tasks : DOMAIN tasks[t] = Fields /\ tasks[t].hold \in Nat /\ tasks[t].hold <= hold
    /\ cust \in Cust /\ hold \in Nat /\ react \in React

\* What a person's pause looks like in the row.
ByPerson(row) == /\ row.state # "active"
                 /\ row.state = "escalated" => row.source \in {"manual", "external"}
Pause == Held => ByPerson(cust)

\* The row lock protects an automatic escalation; a turn that holds it waits.
Lock == /\ react.step # "off" => react.by # NoOne
        /\ react.by # NoOne => Expired(cust)
        /\ react.by \in Tasks => tasks[react.by].step \in {"expire", "resume"}

\* The steps up to the guards.
Early == {"free", "lead", "again", "init", "initread", "mirror", "expire", "decide", "guards"}
Passed(task) == task.step \notin Early => ~(Held /\ task.hold = hold)
Gated == \A t \in Tasks : Passed(tasks[t])

IInv == Shape /\ Pause /\ Lock /\ Gated

-----------------------------------------------------------------------------
(* Writes of the row                                                       *)

LEMMA NotReactor == NoOne \notin Tasks /\ Sweep \notin Tasks /\ NoOne # Sweep
  BY PausesAssumption

LEMMA Parity == \A n \in Nat : /\ n + 1 \in Nat
                               /\ n % 2 = 1 => (n + 1) % 2 # 1
                               /\ n % 2 # 1 => (n + 1) % 2 = 1
  OBVIOUS

\* What a write leaves of the pause.
Wrote == /\ react.by = NoOne /\ cust' \in Cust
         /\ hold' \in Nat /\ hold' >= hold /\ Pause'

LEMMA WriteWrote ==
  ASSUME Shape, Pause, NEW row \in Cust, Write(row), Held => ByPerson(row),
         row.state = "active" => row.source \notin {"manual", "external"}
  PROVE  Wrote
  BY Parity DEF Shape, Pause, Write, Wrote, Held, ByPerson, Unlocked, Cust

LEMMA LiftWrote ==
  ASSUME Shape, Pause, NEW row \in Cust, Lift(row)
  PROVE  Wrote
  BY Parity DEF Shape, Pause, Lift, Wrote, Held, ByPerson, Unlocked, Cust

LEMMA Rows ==
  /\ Active \in Cust /\ Paused("manual") \in Cust /\ Paused("external") \in Cust
  /\ Automatic("none") \in Cust /\ Automatic("running") \in Cust
  /\ [state |-> "blocked", source |-> "none", expiry |-> "none"] \in Cust
  BY DEF Active, Paused, Automatic, Cust

LEMMA EscalationWrote ==
  ASSUME Shape, Pause, EscalateAutomatically
  PROVE  Wrote
<1> PICK expiry \in {"none", "running"} :
           Write(IF cust.state = "active" \/ IsAutomatic THEN Automatic(expiry) ELSE cust)
  BY DEF EscalateAutomatically
<1>1. CASE cust.state = "active" \/ IsAutomatic
  <2>1. ~Held
    BY <1>1 DEF Pause, ByPerson, IsAutomatic
  <2>2. Automatic(expiry) \in Cust /\ Automatic(expiry).state = "escalated"
    BY DEF Automatic, Cust
  <2> QED
    BY <1>1, <2>1, <2>2, WriteWrote
<1>2. CASE ~(cust.state = "active" \/ IsAutomatic)
  BY <1>2, WriteWrote DEF Shape, Pause
<1> QED
  BY <1>1, <1>2

LEMMA MirrorWrote ==
  ASSUME Shape, Pause, NEW seen, Mirror(seen)
  PROVE  UNCHANGED <<cust, hold>> \/ Wrote
<1>1. CASE seen = "active"
  <2>0. MarkExternalActive
    BY <1>1 DEF Mirror
  <2>1. CASE cust.state = "escalated" /\ cust.source = "external"
    BY <2>0, <2>1, LiftWrote, Rows DEF MarkExternalActive
  <2>2. CASE cust.state = "active"
    <3>1. ~Held /\ Write(Active)
      BY <2>0, <2>2 DEF Pause, ByPerson, MarkExternalActive
    <3> QED
      BY <3>1, WriteWrote, Rows DEF Active
  <2>3. CASE cust.state # "active" /\ ~(cust.state = "escalated" /\ cust.source = "external")
    <3>1. Write(cust)
      BY <2>0, <2>3 DEF MarkExternalActive
    <3> QED
      BY <2>3, <3>1, WriteWrote DEF Shape, Pause
  <2> QED
    BY <2>1, <2>2, <2>3
<1>2. CASE seen \in {"human", "paused"}
  <2>1. MarkExternalEscalation
    BY <1>2 DEF Mirror
  <2>2. CASE cust.state = "blocked" \/ IsAutomatic
    <3>1. Write(cust) /\ cust.state # "active"
      BY <2>1, <2>2 DEF MarkExternalEscalation, IsAutomatic
    <3> QED
      BY <3>1, WriteWrote DEF Shape, Pause
  <2>3. CASE ~(cust.state = "blocked" \/ IsAutomatic)
    <3>1. Write(Paused("external"))
      BY <2>1, <2>3 DEF MarkExternalEscalation
    <3>2. ByPerson(Paused("external")) /\ Paused("external").state # "active"
      BY DEF Paused, ByPerson
    <3> QED
      BY <3>1, <3>2, WriteWrote, Rows
  <2> QED
    BY <2>2, <2>3
<1>3. CASE seen \notin {"active", "human", "paused"}
  BY <1>3 DEF Mirror
<1> QED
  BY <1>1, <1>2, <1>3

-----------------------------------------------------------------------------
(* What a step does to the turns                                           *)

\* A turn that may be put in the place of t.
Fits(t, new) ==
    /\ DOMAIN new = Fields /\ new.hold \in Nat /\ new.hold <= hold
    /\ new.step \in Early \/ (new.hold = tasks[t].hold /\ Passed(tasks[t]) /\ tasks[t].step \notin Early)
                          \/ ~Held
Moved(t) == \E new : tasks' = [tasks EXCEPT ![t] = new] /\ Fits(t, new)

LEMMA FreeFits ==
  ASSUME Shape, NEW t \in Tasks
  PROVE  Fits(t, Free)
  BY DEF Shape, Fits, Free, Fields, Early

\* A turn past its guards stays what it was for the pause, whatever else of
\* it changes.
LEMMA PastFits ==
  ASSUME IInv, NEW t \in Tasks, tasks[t].step \notin Early,
         NEW new, DOMAIN new = Fields, new.hold = tasks[t].hold
  PROVE  Fits(t, new)
  BY DEF IInv, Shape, Gated, Fits

\* The step itself, the pauses being as Wrote or untouched.
LEMMA KeepsGates ==
  ASSUME IInv, hold' \in Nat, hold' >= hold, cust' \in Cust, react' \in React,
         tasks' = tasks \/ \E t \in Tasks : Moved(t)
  PROVE  Shape' /\ Gated'
<1>1. CASE tasks' = tasks
  <2>1. Shape'
    BY <1>1 DEF IInv, Shape, Fields, Free
  <2>2. ASSUME NEW u \in Tasks PROVE Passed(tasks[u])'
    <3>1. Passed(tasks[u]) /\ tasks[u].hold \in Nat /\ tasks[u].hold <= hold /\ hold \in Nat
      BY DEF IInv, Gated, Shape
    <3> QED
      BY <1>1, <3>1 DEF Passed, Held
  <2> QED
    BY <2>1, <2>2 DEF Gated
<1>2. CASE \E t \in Tasks : Moved(t)
  <2> PICK t \in Tasks : Moved(t)
    BY <1>2
  <2> PICK new : tasks' = [tasks EXCEPT ![t] = new] /\ Fits(t, new)
    BY DEF Moved
  <2>1. DOMAIN tasks' = Tasks /\ tasks'[t] = new /\ \A u \in Tasks \ {t} : tasks'[u] = tasks[u]
    BY DEF IInv, Shape
  <2>2. Shape'
    BY <2>1 DEF IInv, Shape, Fields, Free, Fits
  <2>3. ASSUME NEW u \in Tasks PROVE Passed(tasks[u])'
    <3>1. Passed(tasks[u]) /\ tasks[u].hold \in Nat /\ tasks[u].hold <= hold /\ hold \in Nat
      BY DEF IInv, Gated, Shape
    <3>2. CASE u # t
      <4>1. tasks'[u] = tasks[u]
        BY <2>1, <3>2
      <4>2. tasks[u].step \notin Early => ~(Held' /\ tasks[u].hold = hold')
        <5>1. CASE hold' = hold
          BY <3>1, <5>1 DEF Passed, Held
        <5>2. CASE hold' # hold
          <6>1. tasks[u].hold # hold'
            BY <3>1, <5>2
          <6> QED
            BY <6>1
        <5> QED
          BY <5>1, <5>2
      <4> QED
        BY <4>1, <4>2 DEF Passed
    <3>3. CASE u = t /\ hold' = hold
      BY <2>1, <3>1, <3>3 DEF Passed, Held, Fits
    <3>4. CASE u = t /\ hold' # hold
      <4>1. new.hold \in Nat /\ new.hold < hold'
        BY <3>1, <3>4 DEF Fits
      <4> QED
        BY <2>1, <3>4, <4>1 DEF Passed
    <3> QED
      BY <3>2, <3>3, <3>4
  <2> QED
    BY <2>2, <2>3 DEF Gated
<1> QED
  BY <1>1, <1>2

\* A step of t that leaves the pauses alone.
LEMMA QuietStep ==
  ASSUME IInv, UNCHANGED pauseVars, NEW t \in Tasks, Moved(t), react.by # t
  PROVE  IInv'
<1>0. cust' = cust /\ hold' = hold /\ react' = react
  BY DEF pauseVars
<1>1. Shape' /\ Gated'
  BY <1>0, KeepsGates DEF IInv, Shape
<1>2. Pause'
  BY <1>0 DEF IInv, Pause, Held
<1>3. Lock'
  <2>1. react.by \in Tasks => tasks'[react.by] = tasks[react.by]
    BY DEF IInv, Shape, Moved
  <2> QED
    BY <1>0, <2>1 DEF IInv, Lock, Expired
<1> QED
  BY <1>1, <1>2, <1>3 DEF IInv

\* A step that leaves the turns' lock alone and may write the row.
LEMMA WritingStep ==
  ASSUME IInv, UNCHANGED react, UNCHANGED <<cust, hold>> \/ Wrote,
         tasks' = tasks \/ \E t \in Tasks : Moved(t) /\ react.by # t
  PROVE  IInv'
<1>1. Shape' /\ Gated'
  <2>1. hold' \in Nat /\ hold' >= hold /\ cust' \in Cust /\ react' \in React
    BY DEF IInv, Shape, Wrote
  <2> QED
    BY <2>1, KeepsGates
<1>2. Pause'
  BY DEF IInv, Pause, Held, Wrote
<1>3. Lock'
  <2>1. react.by \in Tasks => tasks'[react.by] = tasks[react.by]
    BY DEF IInv, Shape, Moved
  <2>2. CASE Wrote
    BY <2>2, NotReactor DEF Wrote, IInv, Lock
  <2>3. CASE UNCHANGED <<cust, hold>>
    BY <2>1, <2>3 DEF IInv, Lock, Expired
  <2> QED
    BY <2>2, <2>3
<1> QED
  BY <1>1, <1>2, <1>3 DEF IInv

-----------------------------------------------------------------------------
(* The actions                                                             *)

\* A turn at a step other than these does not hold the lock.
LEMMA Holder ==
  ASSUME IInv, NEW t \in Tasks, tasks[t].step \notin {"expire", "resume"}
  PROVE  react.by # t
  BY DEF IInv, Lock

LEMMA GotoFits ==
  ASSUME IInv, NEW t \in Tasks, NEW step,
         step \in Early \/ ~Held \/ tasks[t].step \notin Early
  PROVE  Fits(t, [tasks[t] EXCEPT !.step = step])
<1> DEFINE new == [tasks[t] EXCEPT !.step = step]
<1>1. /\ DOMAIN tasks[t] = Fields /\ tasks[t].hold \in Nat /\ tasks[t].hold <= hold
      /\ Passed(tasks[t])
  BY DEF IInv, Shape, Gated
<1>2. DOMAIN new = Fields /\ new.hold = tasks[t].hold /\ new.step = step
  BY <1>1 DEF Fields, Free
<1> QED
  BY <1>1, <1>2 DEF Fits

\* Every field but the step, the copies and the counters stays.
LEMMA UpdateFits ==
  ASSUME IInv, NEW t \in Tasks, NEW new, DOMAIN new = Fields, new.hold = tasks[t].hold,
         new.step \in Early \/ ~Held \/ tasks[t].step \notin Early
  PROVE  Fits(t, new)
  BY DEF IInv, Shape, Gated, Fits

LEMMA ArriveStep ==
  ASSUME IInv, NEW t \in Tasks, NEW kind \in Kinds, Arrive(t, kind)
  PROVE  IInv'
<1> PICK new : /\ new = [Free EXCEPT !.step = IF Kommo THEN "lead" ELSE "guards", !.kind = kind,
                                     !.hold = hold, !.gone = gone, !.since = Len(orders)]
               /\ tasks' = [tasks EXCEPT ![t] = new]
  BY DEF Arrive, Set
<1>1. DOMAIN new = Fields /\ new.hold = hold /\ new.step \in {"lead", "guards"}
  BY DEF Fields, Free
<1>2. Fits(t, new)
  BY <1>1 DEF Fits, IInv, Shape, Early
<1>3. react.by # t /\ UNCHANGED pauseVars
  BY Holder DEF Arrive, At, PausesKept
<1> QED
  BY <1>2, <1>3, QuietStep DEF Moved

LEMMA ReadLeadStep ==
  ASSUME IInv, NEW t \in Tasks, ReadLead(t)
  PROVE  IInv'
<1> PICK step \in {"again", "init", "mirror"} :
           tasks' = [tasks EXCEPT ![t] = [tasks[t] EXCEPT !.seen = mode, !.step = step]]
  BY DEF ReadLead, Set
<1> DEFINE new == [tasks[t] EXCEPT !.seen = mode, !.step = step]
<1>1. DOMAIN new = Fields /\ new.hold = tasks[t].hold /\ new.step = step
  BY DEF IInv, Shape, Fields, Free
<1>2. Fits(t, new)
  BY <1>1, UpdateFits DEF Early
<1>3. react.by # t /\ UNCHANGED pauseVars
  BY Holder DEF ReadLead, At, PausesKept
<1> QED
  BY <1>2, <1>3, QuietStep DEF Moved

LEMMA InitializeModeStep ==
  ASSUME IInv, NEW t \in Tasks, InitializeMode(t)
  PROVE  IInv'
<1>1. react.by # t /\ UNCHANGED react /\ UNCHANGED <<cust, hold>>
  BY Holder DEF InitializeMode, At
<1>2. Moved(t)
  BY GotoFits DEF InitializeMode, Goto, Set, Moved, Early
<1> QED
  BY <1>1, <1>2, WritingStep

LEMMA ConfirmInitialModeStep ==
  ASSUME IInv, NEW t \in Tasks, ConfirmInitialMode(t)
  PROVE  IInv'
<1>1. react.by # t /\ UNCHANGED pauseVars
  BY Holder DEF ConfirmInitialMode, At, PausesKept
<1>2. CASE mode = "active"
  <2> DEFINE new == [tasks[t] EXCEPT !.seen = mode, !.step = "mirror"]
  <2>1. DOMAIN new = Fields /\ new.hold = tasks[t].hold /\ new.step = "mirror"
    BY DEF IInv, Shape, Fields, Free
  <2>2. Fits(t, new)
    BY <2>1, UpdateFits DEF Early
  <2> QED
    BY <1>1, <1>2, <2>2, QuietStep DEF ConfirmInitialMode, Set, Moved
<1>3. CASE mode # "active"
  BY <1>1, <1>3, QuietStep, FreeFits DEF ConfirmInitialMode, Done, Set, Moved, IInv
<1> QED
  BY <1>2, <1>3

LEMMA MirrorModeStep ==
  ASSUME IInv, NEW t \in Tasks, MirrorMode(t)
  PROVE  IInv'
<1>1. react.by # t /\ UNCHANGED react
  BY Holder DEF MirrorMode, At
<1>2. UNCHANGED <<cust, hold>> \/ Wrote
  BY MirrorWrote DEF MirrorMode, IInv
<1> PICK row : row = cust'
  OBVIOUS
<1> PICK new : /\ new = [tasks[t] EXCEPT !.row = row, !.step = "expire"]
               /\ tasks' = [tasks EXCEPT ![t] = new]
  BY DEF MirrorMode, Set
<1>3. DOMAIN new = Fields /\ new.hold = tasks[t].hold /\ new.step = "expire"
  BY DEF IInv, Shape, Fields, Free
<1>4. Fits(t, new)
  BY <1>3, UpdateFits DEF Early
<1> QED
  BY <1>1, <1>2, <1>4, WritingStep DEF Moved

\* The lock is taken, by a turn that waits or by the sweep.
LEMMA LockStep ==
  ASSUME IInv, NEW r \in Reactors, BeginReactivation(r), UNCHANGED <<tasks, cust, hold>>,
         r \in Tasks => tasks[r].step \in {"expire", "resume"}
  PROVE  IInv'
<1>1. react' \in React /\ react'.by = r /\ Expired(cust)
  BY DEF BeginReactivation, React
<1>2. Shape' /\ Gated'
  BY <1>1, KeepsGates DEF IInv, Shape
<1>3. Pause'
  BY DEF IInv, Pause, Held
<1>4. Lock'
  BY <1>1, NotReactor DEF Lock, Expired, Reactors
<1> QED
  BY <1>2, <1>3, <1>4 DEF IInv

LEMMA ResumeStep ==
  ASSUME IInv, NEW t \in Tasks, NEW next, Resume(t, next),
         \/ tasks[t].step = "expire" /\ next = "decide"
         \/ tasks[t].step = "resume" /\ next = "free"
  PROVE  IInv'
<1>1. react.by # t /\ UNCHANGED <<cust, hold>>
  BY DEF Resume
<1>2. CASE BeginReactivation(t) /\ UNCHANGED tasks
  BY <1>1, <1>2, LockStep DEF Reactors
<1>3. CASE Goto(t, next) /\ UNCHANGED react
  <2>1. Moved(t)
    BY <1>3, GotoFits DEF Goto, Set, Moved, Early
  <2> QED
    BY <1>1, <1>3, <2>1, WritingStep
<1> QED
  BY <1>2, <1>3 DEF Resume

LEMMA DecideStep ==
  ASSUME IInv, NEW t \in Tasks, Decide(t)
  PROVE  IInv'
<1>1. react.by # t /\ UNCHANGED pauseVars
  BY Holder DEF Decide, At, PausesKept
<1>2. Goto(t, "guards") \/ Done(t)
  BY DEF Decide
<1>3. Moved(t)
  BY <1>2, GotoFits, FreeFits DEF Goto, Done, Set, Moved, Early, IInv
<1> QED
  BY <1>1, <1>3, QuietStep

\* The guards let nothing past a person's pause.
LEMMA GuardsStep ==
  ASSUME IInv, NEW t \in Tasks, Guards(t)
  PROVE  IInv'
<1>1. react.by # t /\ UNCHANGED pauseVars
  BY Holder DEF Guards, At, PausesKept
<1>2. CASE cust.state = "escalated" /\ Expired(cust)
  <2>1. ~Held
    BY <1>2 DEF Expired, IInv, Pause, ByPerson
  <2> DEFINE new == [tasks[t] EXCEPT !.row = cust, !.step = "resume"]
  <2>2. DOMAIN new = Fields /\ new.hold = tasks[t].hold
    BY DEF IInv, Shape, Fields, Free
  <2>3. Fits(t, new)
    BY <2>1, <2>2, UpdateFits
  <2> QED
    BY <1>1, <1>2, <2>3, QuietStep DEF Guards, Set, Moved
<1>3. CASE ~(cust.state = "escalated" /\ Expired(cust)) /\ (~enabled \/ cust.state # "active")
  BY <1>1, <1>3, QuietStep, FreeFits DEF Guards, Done, Set, Moved, IInv
<1>4. CASE ~(cust.state = "escalated" /\ Expired(cust)) /\ ~(~enabled \/ cust.state # "active")
  <2>1. ~Held
    BY <1>4 DEF IInv, Pause, ByPerson
  <2> DEFINE step == Begin(tasks[t].kind)
  <2>2. Goto(t, step)
    BY <1>4 DEF Guards
  <2>3. Moved(t)
    <3> HIDE DEF step
    <3> QED
      BY <2>1, <2>2, GotoFits DEF Goto, Set, Moved
  <2> QED
    BY <1>1, <2>3, QuietStep
<1> QED
  BY <1>2, <1>3, <1>4

LEMMA ReactStepStep ==
  ASSUME IInv, ReactStep
  PROVE  IInv'
<1> DEFINE t == react.by
           early == tasks[t].step = "expire"
           resumed == [tasks[t] EXCEPT !.row = Active,
                         !.seen = IF Kommo THEN "active" ELSE @,
                         !.step = IF early THEN "decide"
                                  ELSE IF enabled THEN Begin(tasks[t].kind) ELSE "free"]
           failed == IF early THEN [tasks[t] EXCEPT !.step = "decide"] ELSE Free
\* No person has paused what is locked, and the lock's owner waits.
<1>1. /\ react.by # NoOne /\ Expired(cust) /\ ~Held /\ react \in React
      /\ t \in Tasks => tasks[t].step \in {"expire", "resume"}
  <2>1. react.step # "off"
    BY DEF ReactStep, ReactivateInKommo, ReactivationConfirmed, Reactivate
  <2> QED
    BY <2>1 DEF IInv, Lock, Pause, ByPerson, Expired, Shape
<1>2. /\ hold' = hold /\ cust' \in {cust, Active}
      /\ react' = Idle \/ (cust' = cust /\ \E step \in {"confirm", "local"} :
                                              react' = [react EXCEPT !.step = step])
  BY DEF ReactStep, ReactivateInKommo, ReactivationConfirmed, Reactivate
<1>3. t # Sweep => t \in Tasks
  BY <1>1 DEF React, Reactors
<1>4. /\ t = Sweep \/ react'.by = t => tasks' = tasks
      /\ t # Sweep /\ react'.by # t => \E new \in {resumed, failed} :
                                           tasks' = [tasks EXCEPT ![t] = new]
  BY DEF ReactStep, Set, At
<1>5. t \in Tasks => Fits(t, resumed) /\ Fits(t, failed)
  <2> SUFFICES ASSUME t \in Tasks PROVE Fits(t, resumed) /\ Fits(t, failed)
    OBVIOUS
  <2>1. DOMAIN resumed = Fields /\ resumed.hold = tasks[t].hold
    BY DEF IInv, Shape, Fields, Free
  <2>2. Fits(t, resumed)
    <3> HIDE DEF resumed
    <3> QED
      BY <1>1, <2>1, UpdateFits
  <2>3. Fits(t, [tasks[t] EXCEPT !.step = "decide"])
    BY GotoFits DEF Early
  <2>4. Fits(t, Free)
    BY FreeFits DEF IInv
  <2> QED
    BY <2>2, <2>3, <2>4
<1> HIDE DEF resumed, failed
<1>6. tasks' = tasks \/ (t \in Tasks /\ Moved(t) /\ react'.by # t)
  BY <1>3, <1>4, <1>5 DEF Moved
<1>7. react' \in React /\ (react' = Idle \/ (react'.by = t /\ cust' = cust))
  BY <1>1, <1>2 DEF React, Idle
<1>8. Shape' /\ Gated'
  <2>1. cust' \in Cust /\ hold' \in Nat /\ hold' >= hold
    BY <1>2, Rows DEF IInv, Shape
  <2> QED
    BY <1>6, <1>7, <2>1, KeepsGates
<1>9. Pause'
  BY <1>1, <1>2 DEF Pause, Held
<1>10. Lock'
  <2>1. CASE react' = Idle
    BY <2>1, NotReactor DEF Lock, Idle
  <2>2. CASE react'.by = t /\ cust' = cust
    BY <1>1, <1>6, <2>2 DEF Lock, Expired
  <2> QED
    BY <1>7, <2>1, <2>2
<1> QED
  BY <1>8, <1>9, <1>10 DEF IInv

LEMMA EscalateStep ==
  ASSUME IInv, NEW t \in Tasks, Escalate(t)
  PROVE  IInv'
<1>1. react.by # t /\ UNCHANGED react /\ Wrote
  BY Holder, EscalationWrote DEF Escalate, At, IInv
<1>2. Moved(t)
  BY GotoFits DEF Escalate, At, Goto, Set, Moved, Early
<1> QED
  BY <1>1, <1>2, WritingStep

LEMMA SyncStep ==
  ASSUME IInv, NEW t \in Tasks, Sync(t)
  PROVE  IInv'
<1>1. react.by # t /\ UNCHANGED react /\ UNCHANGED <<cust, hold>>
  BY Holder DEF Sync, At
<1> PICK step : Goto(t, step)
  BY DEF Sync
<1>2. Moved(t)
  BY GotoFits DEF Sync, At, Goto, Set, Moved, Early
<1> QED
  BY <1>1, <1>2, WritingStep

\* The steps of a turn past its guards that concern the purchase only.
Late == {"target", "proof", "verified", "route", "record", "llm", "check", "create", "bind", "reply"}
LateStep(t) ==
    /\ tasks[t].step \in Late /\ UNCHANGED pauseVars
    /\ \E new : /\ tasks' = [tasks EXCEPT ![t] = new] /\ DOMAIN new = Fields
                /\ new.hold = tasks[t].hold \/ new = Free

LEMMA LateSteps ==
  ASSUME IInv, NEW t \in Tasks, LateStep(t)
  PROVE  IInv'
<1> PICK new : /\ tasks' = [tasks EXCEPT ![t] = new] /\ DOMAIN new = Fields
               /\ new.hold = tasks[t].hold \/ new = Free
  BY DEF LateStep
<1>1. tasks[t].step \notin Early /\ react.by # t /\ UNCHANGED pauseVars
  BY Holder DEF LateStep, Late, Early
<1>2. Fits(t, new)
  BY <1>1, PastFits, FreeFits DEF IInv
<1> QED
  BY <1>1, <1>2, QuietStep DEF Moved

LEMMA GotoLate ==
  ASSUME IInv, NEW t \in Tasks, tasks[t].step \in Late, NEW step, Goto(t, step), PausesKept
  PROVE  LateStep(t)
<1> DEFINE new == [tasks[t] EXCEPT !.step = step]
<1>1. DOMAIN new = Fields /\ new.hold = tasks[t].hold
  BY DEF IInv, Shape, Fields, Free
<1> QED
  BY <1>1 DEF LateStep, Goto, Set, PausesKept

LEMMA PurchaseSteps ==
  ASSUME IInv, NEW t \in Tasks,
         \/ FindTarget(t) \/ StoreProof(t) \/ MarkVerified(t) \/ Route(t) \/ RecordRoute(t)
         \/ Answer(t) \/ Reply(t)
  PROVE  IInv'
<1>1. CASE FindTarget(t)
  <2>1. tasks[t].step \in Late /\ PausesKept
    BY <1>1 DEF FindTarget, At, Late
  <2>2. CASE Goto(t, "verified") \/ Goto(t, "reply")
    BY <2>1, <2>2, GotoLate, LateSteps
  <2>3. CASE Set(t, [tasks[t] EXCEPT !.order = PaymentTarget, !.step = "proof"])
    <3> DEFINE new == [tasks[t] EXCEPT !.order = PaymentTarget, !.step = "proof"]
    <3>1. DOMAIN new = Fields /\ new.hold = tasks[t].hold
      BY DEF IInv, Shape, Fields, Free
    <3> QED
      BY <2>1, <2>3, <3>1, LateSteps DEF LateStep, Set, PausesKept
  <2> QED
    BY <1>1, <2>2, <2>3 DEF FindTarget
<1>2. CASE StoreProof(t)
  <2>1. /\ tasks[t].step \in Late /\ PausesKept
        /\ Goto(t, "verified") \/ Goto(t, "reply")
    BY <1>2 DEF StoreProof, At, Late
  <2> QED
    BY <2>1, GotoLate, LateSteps
<1>3. CASE MarkVerified(t)
  BY <1>3, GotoLate, LateSteps DEF MarkVerified, At, Late
<1>4. CASE Route(t)
  <2>1. tasks[t].step \in Late /\ PausesKept
    BY <1>4 DEF Route, At, Late
  <2> PICK agent, step : Set(t, [tasks[t] EXCEPT !.agent = agent, !.step = step])
    BY <1>4 DEF Route
  <2> DEFINE new == [tasks[t] EXCEPT !.agent = agent, !.step = step]
  <2>2. DOMAIN new = Fields /\ new.hold = tasks[t].hold
    BY DEF IInv, Shape, Fields, Free
  <2> QED
    BY <2>1, <2>2, LateSteps DEF LateStep, Set, PausesKept
<1>5. CASE RecordRoute(t)
  BY <1>5, GotoLate, LateSteps DEF RecordRoute, At, Late
<1>6. CASE Answer(t)
  BY <1>6, GotoLate, LateSteps DEF Answer, At, Late
<1>7. CASE Reply(t)
  BY <1>7, LateSteps DEF Reply, At, Done, Set, Late, LateStep, PausesKept, Fields
<1> QED
  BY <1>1, <1>2, <1>3, <1>4, <1>5, <1>6, <1>7

LEMMA ToolFields ==
  ASSUME IInv, NEW t \in Tasks, NEW tool
  PROVE  /\ DOMAIN Round(t) = Fields /\ Round(t).hold = tasks[t].hold
         /\ DOMAIN Once(t, tool) = Fields /\ Once(t, tool).hold = tasks[t].hold
<1>1. DOMAIN Round(t) = Fields /\ Round(t).hold = tasks[t].hold
  BY DEF IInv, Shape, Fields, Free, Round
<1>2. DOMAIN Once(t, tool) = Fields /\ Once(t, tool).hold = tasks[t].hold
  BY <1>1 DEF Once, Fields, Free
<1> QED
  BY <1>1, <1>2

LEMMA ToolSteps ==
  ASSUME IInv, NEW t \in Tasks,
         \/ DraftTool(t) \/ CancelTool(t) \/ EscalateTool(t) \/ HandoffTool(t) \/ CreateTool(t)
         \/ FinalizeTool(t)
  PROVE  IInv'
<1>1. tasks[t].step \in Late /\ UNCHANGED pauseVars
  BY DEF DraftTool, CancelTool, EscalateTool, HandoffTool, CreateTool, FinalizeTool,
         MayUse, At, Late, PausesKept
<1>2. \E new : Set(t, new) /\ DOMAIN new = Fields /\ new.hold = tasks[t].hold
  <2>1. CASE DraftTool(t) \/ CancelTool(t)
    BY <2>1, ToolFields DEF DraftTool, CancelTool
  <2>2. CASE HandoffTool(t)
    BY <2>2, ToolFields DEF HandoffTool
  <2>3. CASE EscalateTool(t)
    <3> DEFINE new == [Once(t, "escalate") EXCEPT !.step = "escalate"]
    <3>1. DOMAIN new = Fields /\ new.hold = tasks[t].hold
      BY ToolFields DEF Fields, Free
    <3> QED
      BY <2>3, <3>1 DEF EscalateTool
  <2>4. CASE CreateTool(t)
    <3>1. \E i : Set(t, IF i > 0 THEN Once(t, "create") ELSE Round(t))
      BY <2>4 DEF CreateTool
    <3> QED
      BY <3>1, ToolFields
  <2>5. CASE FinalizeTool(t)
    <3> PICK startNew \in BOOLEAN :
               Set(t, [Round(t) EXCEPT !.sess = session, !.asked = startNew, !.step = "check"])
      BY <2>5 DEF FinalizeTool
    <3> DEFINE new == [Round(t) EXCEPT !.sess = session, !.asked = startNew, !.step = "check"]
    <3>1. DOMAIN new = Fields /\ new.hold = tasks[t].hold
      BY ToolFields DEF Fields, Free
    <3> QED
      BY <3>1
  <2> QED
    BY <2>1, <2>2, <2>3, <2>4, <2>5
<1> QED
  BY <1>1, <1>2, LateSteps DEF LateStep, Set

LEMMA CheckStep ==
  ASSUME IInv, NEW t \in Tasks, Check(t)
  PROVE  IInv'
<1>1. tasks[t].step \in Late /\ PausesKept
  BY DEF Check, At, Late
<1>2. CASE Goto(t, "create")
  BY <1>1, <1>2, GotoLate, LateSteps
<1>3. CASE Set(t, [tasks[t] EXCEPT !.used = @ \cup {"finalize"}, !.sess = Fresh,
                                   !.asked = FALSE, !.step = "llm"])
  <2> DEFINE new == [tasks[t] EXCEPT !.used = @ \cup {"finalize"}, !.sess = Fresh,
                                     !.asked = FALSE, !.step = "llm"]
  <2>1. DOMAIN new = Fields /\ new.hold = tasks[t].hold
    BY DEF IInv, Shape, Fields, Free
  <2> QED
    BY <1>1, <1>3, <2>1, LateSteps DEF LateStep, Set, PausesKept
<1> QED
  BY <1>2, <1>3 DEF Check

LEMMA CreateStep ==
  ASSUME IInv, NEW t \in Tasks, Create(t)
  PROVE  IInv'
<1> DEFINE over == [tasks[t] EXCEPT !.used = @ \cup {"finalize"}, !.sess = Fresh, !.asked = FALSE]
<1>1. tasks[t].step \in Late /\ UNCHANGED pauseVars
  BY DEF Create, At, Late, PausesKept
<1>2. DOMAIN over = Fields /\ over.hold = tasks[t].hold
  BY DEF IInv, Shape, Fields, Free
<1>3. \E i : Set(t, IF i = Raised THEN Free
                    ELSE IF i = 0 THEN [over EXCEPT !.step = "llm"]
                    ELSE [over EXCEPT !.order = i, !.step = "bind"])
  BY DEF Create
<1> HIDE DEF over
<1> PICK i : Set(t, IF i = Raised THEN Free
                    ELSE IF i = 0 THEN [over EXCEPT !.step = "llm"]
                    ELSE [over EXCEPT !.order = i, !.step = "bind"])
  BY <1>3
<1>4. \E new : Set(t, new) /\ DOMAIN new = Fields /\ (new.hold = tasks[t].hold \/ new = Free)
  <2>1. CASE i = Raised
    BY <2>1 DEF Fields
  <2>2. CASE i # Raised /\ i = 0
    <3> DEFINE new == [over EXCEPT !.step = "llm"]
    <3>1. DOMAIN new = Fields /\ new.hold = tasks[t].hold
      BY <1>2 DEF Fields, Free
    <3> QED
      BY <2>2, <3>1
  <2>3. CASE i # Raised /\ i # 0
    <3> DEFINE new == [over EXCEPT !.order = i, !.step = "bind"]
    <3>1. DOMAIN new = Fields /\ new.hold = tasks[t].hold
      BY <1>2 DEF Fields, Free
    <3> QED
      BY <2>3, <3>1
  <2> QED
    BY <2>1, <2>2, <2>3
<1> QED
  BY <1>1, <1>4, LateSteps DEF LateStep, Set

LEMMA BindStep ==
  ASSUME IInv, NEW t \in Tasks, Bind(t)
  PROVE  IInv'
<1>1. tasks[t].step \in Late /\ UNCHANGED pauseVars
  BY DEF Bind, At, Late, PausesKept
<1> DEFINE new == [tasks[t] EXCEPT !.order = 0, !.step = "llm"]
<1>2. DOMAIN new = Fields /\ new.hold = tasks[t].hold
  BY DEF IInv, Shape, Fields, Free
<1> QED
  BY <1>1, <1>2, LateSteps DEF Bind, LateStep, Set

LEMMA FailStep ==
  ASSUME IInv, NEW t \in Tasks, Fail(t)
  PROVE  IInv'
<1>1. UNCHANGED <<cust, hold>> /\ Moved(t) /\ tasks' = [tasks EXCEPT ![t] = Free]
  BY FreeFits DEF Fail, Done, Set, Moved, IInv
<1>2. CASE react.by # t
  BY <1>1, <1>2, WritingStep DEF Fail
<1>3. CASE react.by = t
  <2>1. react' = Idle
    BY <1>3 DEF Fail
  <2>2. Shape' /\ Gated'
    BY <1>1, <2>1, KeepsGates DEF IInv, Shape, Idle, React
  <2>3. Pause' /\ Lock'
    BY <1>1, <2>1, NotReactor DEF IInv, Pause, Held, Lock, Idle
  <2> QED
    BY <2>2, <2>3 DEF IInv
<1> QED
  BY <1>2, <1>3

LEMMA CrashStep ==
  ASSUME IInv, Crash
  PROVE  IInv'
<1>1. /\ tasks' = [t \in Tasks |-> Free] /\ react' = Idle
      /\ cust' = cust /\ hold' = hold
  BY DEF Crash
<1>2. Free.hold = 0 /\ Free.step \in Early
  BY DEF Free, Early
<1>3. Shape'
  BY <1>1, <1>2 DEF IInv, Shape, Fields, Idle, React
<1>4. Gated'
  BY <1>1, <1>2 DEF Gated, Passed
<1>5. Pause' /\ Lock'
  BY <1>1, NotReactor DEF IInv, Pause, Held, Lock, Idle
<1> QED
  BY <1>3, <1>4, <1>5 DEF IInv

LEMMA PeopleStep ==
  ASSUME IInv, People, UNCHANGED tasks
  PROVE  IInv'
<1>1. UNCHANGED react
  BY DEF People, Request, AdminUpdatesKommo, AdminConfirms, AdminWrites, OperatorSets,
         ToggleAssistant, AdminResets
<1>2. CASE AdminWrites
  <2>1. CASE Write(Paused("manual"))
    <3>1. ByPerson(Paused("manual")) /\ Paused("manual").state # "active"
      BY DEF ByPerson, Paused
    <3> QED
      BY <1>1, <2>1, <3>1, Rows, WriteWrote, WritingStep DEF IInv
  <2>2. CASE Lift(Active)
    BY <1>1, <2>2, Rows, LiftWrote, WritingStep DEF IInv
  <2>3. CASE Write([state |-> "blocked", source |-> "none", expiry |-> "none"])
    <3> DEFINE row == [state |-> "blocked", source |-> "none", expiry |-> "none"]
    <3>1. row \in Cust /\ ByPerson(row) /\ row.state # "active"
      BY DEF ByPerson, Cust
    <3> QED
      BY <1>1, <2>3, <3>1, WriteWrote, WritingStep DEF IInv
  <2>4. CASE Lift([cust EXCEPT !.state = "active"])
    <3> DEFINE row == [cust EXCEPT !.state = "active"]
    <3>1. row \in Cust
      BY DEF IInv, Shape, Cust
    <3> QED
      BY <1>1, <2>4, <3>1, LiftWrote, WritingStep DEF IInv
  <2> QED
    BY <1>2, <2>1, <2>2, <2>3, <2>4 DEF AdminWrites
<1>3. CASE UNCHANGED <<cust, hold>>
  BY <1>1, <1>3, WritingStep
<1> QED
  BY <1>2, <1>3 DEF People, Request, AdminUpdatesKommo, AdminConfirms, OperatorSets,
                    ToggleAssistant, AdminResets

LEMMA ExpiryStep ==
  ASSUME IInv, ExpiryPasses
  PROVE  IInv'
<1>1. /\ react.by = NoOne /\ UNCHANGED <<tasks, react, hold>>
      /\ cust' = [cust EXCEPT !.expiry = "due"] /\ cust \in Cust
  BY DEF ExpiryPasses, ExpiryDue, Unlocked, turnVars, IInv, Shape
<1>2. cust' \in Cust /\ cust'.state = cust.state /\ cust'.source = cust.source
  BY <1>1 DEF Cust
<1>3. Wrote
  BY <1>1, <1>2 DEF Wrote, IInv, Shape, Pause, Held, ByPerson
<1> QED
  BY <1>1, <1>3, WritingStep

LEMMA TaskSteps ==
  ASSUME IInv, NEW t \in Tasks, TaskStep(t)
  PROVE  IInv'
<1>1. CASE ReadLead(t) \/ InitializeMode(t) \/ ConfirmInitialMode(t) \/ MirrorMode(t)
  BY <1>1, ReadLeadStep, InitializeModeStep, ConfirmInitialModeStep, MirrorModeStep
<1>2. CASE ResumeJob(t) \/ ResumeTurn(t)
  BY <1>2, ResumeStep DEF ResumeJob, ResumeTurn, At
<1>3. CASE Decide(t) \/ Guards(t) \/ Escalate(t) \/ Sync(t)
  BY <1>3, DecideStep, GuardsStep, EscalateStep, SyncStep
<1>4. CASE \/ FindTarget(t) \/ StoreProof(t) \/ MarkVerified(t) \/ Route(t) \/ RecordRoute(t)
           \/ Answer(t) \/ Reply(t)
  BY <1>4, PurchaseSteps
<1>5. CASE \/ DraftTool(t) \/ CancelTool(t) \/ EscalateTool(t) \/ HandoffTool(t) \/ CreateTool(t)
           \/ FinalizeTool(t)
  BY <1>5, ToolSteps
<1>6. CASE Check(t) \/ Create(t) \/ Bind(t)
  BY <1>6, CheckStep, CreateStep, BindStep
<1> QED
  BY <1>1, <1>2, <1>3, <1>4, <1>5, <1>6 DEF TaskStep

LEMMA InitIInv == Init => IInv
<1> SUFFICES ASSUME Init PROVE IInv
  OBVIOUS
<1>1. /\ tasks = [t \in Tasks |-> Free] /\ hold = 0 /\ cust = Active /\ react = Idle
  BY DEF Init, PausesInit
<1>2. Free.hold = 0 /\ Free.step \in Early
  BY DEF Free, Early
<1>3. Shape
  BY <1>1, <1>2, Rows DEF Shape, Fields, Idle, React
<1>4. ~Held
  BY <1>1 DEF Held
<1> QED
  BY <1>1, <1>3, <1>4, NotReactor DEF IInv, Pause, Lock, Idle, Gated, Passed

LEMMA StepIInv == IInv /\ [Next]_vars => IInv'
<1> SUFFICES ASSUME IInv, [Next]_vars PROVE IInv'
  OBVIOUS
<1>1. CASE \E t \in Tasks : TaskStep(t) \/ Fail(t) \/ \E kind \in Kinds : Arrive(t, kind)
  BY <1>1, TaskSteps, FailStep, ArriveStep
<1>2. CASE ReactStep
  BY <1>2, ReactStepStep
<1>3. CASE SweepBegins
  BY <1>3, NotReactor, LockStep DEF SweepBegins, turnVars, Reactors
<1>4. CASE ExpiryPasses
  BY <1>4, ExpiryStep
<1>5. CASE People /\ UNCHANGED <<scope, turnVars>>
  BY <1>5, PeopleStep DEF turnVars
<1>6. CASE OrdersChange /\ UNCHANGED <<scope, turnVars>>
  BY <1>6, WritingStep DEF OrdersChange, PausesKept, pauseVars, turnVars
<1>7. CASE Crash
  BY <1>7, CrashStep
<1>8. CASE UNCHANGED vars
  BY <1>8, WritingStep DEF vars, turnVars, pauseVars
<1> QED
  BY <1>1, <1>2, <1>3, <1>4, <1>5, <1>6, <1>7, <1>8 DEF Next

\* Whatever expires, is mirrored, escalated or set in Kommo between the
\* statements of a turn: a person's pause is what the row says, the row lock
\* is on an automatic escalation only, and a turn past its guards began before
\* the pause that is in force.
THEOREM TurnsInvariant == Spec => []IInv
<1> QED
  BY InitIInv, StepIInv, PTL DEF Spec

\* escalations.py, state.py, engine.py: a turn that begins after a person's
\* pause does not reply while the pause is in force.
THEOREM PausedIsSilent == Spec => []SilentWhilePaused
<1>1. IInv => SilentWhilePaused
  BY DEF IInv, Gated, Passed, SilentWhilePaused, At, Early
<1> QED
  BY <1>1, TurnsInvariant, PTL

-----------------------------------------------------------------------------
(* The purchase: what a statement does to the session and the orders       *)

\* Versions are numbered as they are written, and the session's is not gone.
Versions == /\ session.version <= drafts /\ gone \subseteq 1..drafts
            /\ session.version \notin gone

Unmade == UNCHANGED checkoutVars
SessionMoves ==
    \/ ResetSession
    \/ \E stage \in Stages : SetStage(stage)
    \/ \E order \in 0..MaxOrders : \E stage \in Stages : SetCurrentOrder(order, stage)
    \/ \E draft \in Carts \cup {"partial"} : UpdateDraft(draft)

LEMMA SessionTyped ==
  ASSUME CheckoutTypeOK, Versions, SessionMoves
  PROVE  CheckoutTypeOK' /\ Versions' /\ gone \subseteq gone' /\ orders' = orders
<1>0. /\ session \in Session /\ orders \in Seq(Order) /\ Len(orders) <= MaxOrders
      /\ drafts \in 0..MaxDrafts /\ gone \subseteq 1..MaxDrafts
      /\ session.version \in 0..MaxDrafts /\ MaxDrafts \in Nat /\ MaxOrders \in Nat
  BY CheckoutAssumption DEF CheckoutTypeOK, Session
<1>1. Fresh \in Session /\ Fresh.version = 0
  BY <1>0 DEF Fresh, Session, Stages
<1>2. ASSUME NEW new \in Session, new.version = 0, session' = new,
             gone' = gone \cup ({session.version} \ {0}), UNCHANGED <<orders, drafts>>
      PROVE  CheckoutTypeOK' /\ Versions' /\ gone \subseteq gone' /\ orders' = orders
  <2>1. {session.version} \ {0} \subseteq 1..drafts
    BY <1>0 DEF Versions
  <2>2. gone' \subseteq 1..drafts /\ 1..drafts \subseteq 1..MaxDrafts
    <3>1. gone' \subseteq 1..drafts
      BY <1>2, <2>1 DEF Versions
    <3>2. 1..drafts \subseteq 1..MaxDrafts
      BY <1>0
    <3> QED
      BY <3>1, <3>2
  <2>3. session'.version = 0 /\ 0 \notin 1..drafts /\ 0 <= drafts
    BY <1>0, <1>2
  <2> QED
    BY <1>0, <1>2, <2>2, <2>3 DEF CheckoutTypeOK, Versions
<1>3. CASE ResetSession
  BY <1>1, <1>2, <1>3 DEF ResetSession
<1>4. CASE \E order \in 0..MaxOrders : \E stage \in Stages : SetCurrentOrder(order, stage)
  <2> PICK order \in 0..MaxOrders, stage \in Stages : SetCurrentOrder(order, stage)
    BY <1>4
  <2> DEFINE new == [Fresh EXCEPT !.stage = stage, !.order = order]
  <2>1. new \in Session /\ new.version = 0
    BY <1>1 DEF Session
  <2> QED
    BY <1>2, <2>1 DEF SetCurrentOrder
<1>5. CASE \E stage \in Stages : SetStage(stage)
  <2> PICK stage \in Stages : SetStage(stage)
    BY <1>5
  <2>1. session' \in Session /\ session'.version = session.version
    BY <1>0 DEF SetStage, Session
  <2> QED
    BY <1>0, <2>1 DEF SetStage, CheckoutTypeOK, Versions
<1>6. CASE \E draft \in Carts \cup {"partial"} : UpdateDraft(draft)
  <2> PICK draft \in Carts \cup {"partial"} : UpdateDraft(draft)
    BY <1>6
  <2>1. drafts + 1 \in 0..MaxDrafts /\ drafts' = drafts + 1 /\ UNCHANGED <<orders, gone>>
    BY <1>0 DEF UpdateDraft
  <2> PICK stage \in Stages : stage = IF draft \in Carts THEN "ready" ELSE "collecting"
    BY DEF Stages
  <2>2. session' = [session EXCEPT !.draft = draft, !.version = drafts + 1, !.stage = stage]
    BY DEF UpdateDraft
  <2>3. session' \in Session /\ session'.version = drafts + 1
    BY <1>0, <2>1, <2>2 DEF Session
  <2> QED
    BY <1>0, <2>1, <2>3 DEF CheckoutTypeOK, Versions
<1> QED
  BY <1>3, <1>4, <1>5, <1>6 DEF SessionMoves

\* An order moves on: it is not waiting, unpaid or recent again.
OrdersMove ==
    /\ orders' \in Seq(Order) /\ DOMAIN orders' = DOMAIN orders /\ Len(orders') = Len(orders)
    /\ \A i \in DOMAIN orders :
         /\ orders'[i].cart = orders[i].cart /\ orders'[i].asked = orders[i].asked
         /\ orders'[i].recent => orders[i].recent
         /\ orders'[i].st = "pending" => orders[i].st = "pending"
         /\ orders'[i].st # "closed" => orders[i].st # "closed"
    /\ UNCHANGED <<session, drafts, gone>>

LEMMA OrdersChanged ==
  ASSUME CheckoutTypeOK, NEW i \in DOMAIN orders,
         \/ RecordProof(i) /\ orders[i].st = "pending"
         \/ OrderCloses(i) \/ OrderAges(i)
  PROVE  OrdersMove
<1>0. orders \in Seq(Order) /\ Len(orders) \in Nat /\ DOMAIN orders = 1..Len(orders)
  BY DEF CheckoutTypeOK
<1> PICK o \in Order : o = orders[i]
  BY <1>0
<1> PICK new \in Order :
       /\ orders' = [orders EXCEPT ![i] = new]
       /\ new.cart = o.cart /\ new.asked = o.asked /\ (new.recent => o.recent)
       /\ new.st = "pending" => o.st = "pending"
       /\ new.st # "closed" => o.st # "closed"
  <2>1. CASE RecordProof(i) /\ orders[i].st = "pending"
    <3> DEFINE new == [o EXCEPT !.st = "proof"]
    <3>1. new \in Order /\ new.cart = o.cart /\ new.asked = o.asked /\ new.recent = o.recent
          /\ new.st = "proof"
      BY DEF Order
    <3>2. orders' = [orders EXCEPT ![i] = new]
      BY <2>1 DEF RecordProof, Order
    <3> HIDE DEF new
    <3> QED
      BY <2>1, <3>1, <3>2
  <2>2. CASE OrderCloses(i)
    <3> DEFINE new == [o EXCEPT !.st = "closed"]
    <3>1. new \in Order /\ new.cart = o.cart /\ new.asked = o.asked /\ new.recent = o.recent
          /\ new.st = "closed"
      BY DEF Order
    <3>2. orders' = [orders EXCEPT ![i] = new]
      BY <2>2 DEF OrderCloses, Order
    <3> HIDE DEF new
    <3> QED
      BY <3>1, <3>2
  <2>3. CASE OrderAges(i)
    <3> DEFINE new == [o EXCEPT !.recent = FALSE]
    <3>1. new \in Order /\ new.cart = o.cart /\ new.asked = o.asked /\ ~new.recent
          /\ new.st = o.st
      BY DEF Order
    <3>2. orders' = [orders EXCEPT ![i] = new]
      BY <2>3 DEF OrderAges, Order
    <3> HIDE DEF new
    <3> QED
      BY <3>1, <3>2
  <2> QED
    BY <2>1, <2>2, <2>3
<1>1. /\ orders' \in Seq(Order) /\ DOMAIN orders' = DOMAIN orders /\ Len(orders') = Len(orders)
      /\ orders'[i] = new /\ \A k \in DOMAIN orders : k # i => orders'[k] = orders[k]
  BY <1>0
<1>2. UNCHANGED <<session, drafts, gone>>
  BY DEF RecordProof, OrderCloses, OrderAges
<1> QED
  BY <1>1, <1>2 DEF OrdersMove

LEMMA NewestIs ==
  ASSUME NEW n \in Nat, NEW S \in SUBSET (1..n), S # {}
  PROVE  Newest(S) \in S
<1> DEFINE R == OpToRel(<, Nat)
           D == {n - i : i \in S}
<1>1. IsWellFoundedOn(R, Nat)
  BY NatLessThanWellFounded
<1>2. \A x, y \in Nat : <<y, x>> \in R <=> y < x
  BY DEF OpToRel
<1>3. D \in SUBSET Nat /\ D # {}
  <2> PICK i : i \in S
    OBVIOUS
  <2>1. n - i \in D
    OBVIOUS
  <2>2. \A j \in S : n - j \in Nat
    OBVIOUS
  <2> QED
    BY <2>1, <2>2
<1> HIDE DEF R
<1>4. \E x \in D : \A y \in D : ~(<<y, x>> \in R)
  BY <1>1, <1>3, WFMin
<1> PICK i \in S : \A y \in D : ~(<<y, n - i>> \in R)
  BY <1>4
<1>5. \A j \in S : j <= i
  <2> TAKE j \in S
  <2>1. n - j \in D /\ n - j \in Nat /\ n - i \in Nat
    BY <1>3
  <2>2. ~(n - j < n - i)
    BY <1>2, <2>1
  <2> QED
    BY <2>2
<1> QED
  BY <1>5 DEF Newest

\* create_order makes or takes order i for the cart; the others stay.
Makes(all, cart, asked) == \E i \in DOMAIN all :
    /\ all \in Seq(Order) /\ Len(all) <= MaxOrders /\ DOMAIN orders \subseteq DOMAIN all
    /\ \A k \in DOMAIN all : k # i => k \in DOMAIN orders /\ all[k] = orders[k]
    /\ all[i].cart = cart
    /\ \/ /\ i \in DOMAIN orders /\ i \in Unpaid /\ orders[i].cart = cart
          /\ all[i].recent = orders[i].recent
          /\ orders[i].asked \/ asked => all[i].asked
          /\ all[i].st = "pending" => orders[i].st \in {"pending", "reserving"}
       \/ /\ i = Len(orders) + 1 /\ SameOpen(cart) = {}
          /\ asked => all[i].asked

LEMMA OrderFields ==
  ASSUME NEW o \in Order
  PROVE  /\ o.st \in {"reserving", "pending", "proof", "closed"} /\ o.cart \in Carts
         /\ o.recent \in BOOLEAN /\ o.asked \in BOOLEAN
  BY DEF Order

LEMMA CreateMakes ==
  ASSUME CheckoutTypeOK, NEW cart \in Carts, NEW asked \in BOOLEAN,
         NEW made \in CreateOrder(cart, asked)
  PROVE  /\ made.order \in 0..MaxOrders \cup {Raised}
         /\ made.all = orders \/ Makes(made.all, cart, asked)
<1>0. /\ orders \in Seq(Order) /\ Len(orders) \in Nat /\ Len(orders) <= MaxOrders
      /\ DOMAIN orders = 1..Len(orders) /\ MaxOrders \in Nat
  BY CheckoutAssumption DEF CheckoutTypeOK
<1> DEFINE same == SameOpen(cart)
           i == IF same # {} THEN Newest(same) ELSE Len(orders) + 1
           found == IF same # {} THEN [orders EXCEPT ![i].asked = @ \/ asked]
                    ELSE Append(orders, [st |-> "reserving", cart |-> cart, recent |-> TRUE,
                                         asked |-> asked])
           Result == {[order |-> i, all |-> [found EXCEPT ![i].st = "pending"]],
                      [order |-> Raised, all |-> [found EXCEPT ![i].st = "closed"]],
                      [order |-> Raised, all |-> found]}
<1>1. \/ made = [order |-> 0, all |-> orders]
      \/ /\ ~(i > MaxOrders)
         /\ \/ made = [order |-> i, all |-> found] /\ found[i].st # "reserving"
            \/ made \in Result /\ found[i].st = "reserving"
  BY DEF CreateOrder
<1>2. same \in SUBSET (1..Len(orders)) /\ \A k \in same : k \in Unpaid /\ orders[k].cart = cart
  BY <1>0 DEF SameOpen, Unpaid, Numbers
<1>3. i \in Nat \ {0} /\ (i \in 1..Len(orders) \/ i = Len(orders) + 1)
  <2>1. CASE same # {}
    <3>1. Newest(same) \in same
      BY <1>0, <1>2, <2>1, NewestIs
    <3> QED
      BY <1>2, <2>1, <3>1
  <2>2. CASE same = {}
    BY <1>0, <2>2
  <2> QED
    BY <2>1, <2>2
\* The row that is found or inserted, before the outcome of its reservation.
<1>4. \E o \in Order :
        /\ found \in Seq(Order) /\ i \in DOMAIN found /\ found[i] = o
        /\ DOMAIN orders \subseteq DOMAIN found /\ Len(found) \in {Len(orders), i}
        /\ \A k \in DOMAIN found : k # i => k \in DOMAIN orders /\ found[k] = orders[k]
        /\ o.cart = cart
        /\ \/ /\ i \in DOMAIN orders /\ i \in Unpaid /\ orders[i].cart = cart
              /\ o.recent = orders[i].recent /\ o.st = orders[i].st
              /\ orders[i].asked \/ asked => o.asked
           \/ /\ i = Len(orders) + 1 /\ same = {} /\ o.st = "reserving"
              /\ asked => o.asked
  <2>1. CASE same # {}
    <3>1. i \in same
      BY <1>0, <1>2, <2>1, NewestIs
    <3>2. i \in 1..Len(orders) /\ i \in Unpaid /\ orders[i].cart = cart
      BY <1>2, <3>1
    <3> HIDE DEF i, same
    <3> PICK old \in Order : old = orders[i]
      BY <1>0, <3>2
    <3> DEFINE b == old.asked \/ asked
    <3>b. b \in BOOLEAN
      OBVIOUS
    <3> HIDE DEF b
    <3> DEFINE o == [old EXCEPT !.asked = b]
    <3>3. o \in Order
      BY <3>b DEF Order
    <3>4. o.cart = old.cart /\ o.recent = old.recent /\ o.st = old.st /\ o.asked = b
      BY DEF Order
    <3>5. found = [orders EXCEPT ![i] = o]
      <4>1. found = [orders EXCEPT ![i].asked = @ \/ asked]
        BY <2>1
      <4>2. [orders[i] EXCEPT !.asked = @ \/ asked] = o
        BY DEF b
      <4> QED
        BY <4>1, <4>2
    <3> HIDE DEF o, found
    <3>6. /\ found \in Seq(Order) /\ DOMAIN found = DOMAIN orders /\ Len(found) = Len(orders)
          /\ found[i] = o /\ \A k \in DOMAIN found : k # i => found[k] = orders[k]
      BY <1>0, <3>2, <3>3, <3>5
    <3>7. orders[i].asked \/ asked => o.asked
      BY <3>4 DEF b
    <3> QED
      BY <1>0, <3>2, <3>3, <3>4, <3>6, <3>7
  <2>2. CASE same = {}
    <3> DEFINE o == [st |-> "reserving", cart |-> cart, recent |-> TRUE, asked |-> asked]
    <3>1. o \in Order /\ o.cart = cart /\ o.st = "reserving" /\ (asked => o.asked)
      BY DEF Order
    <3>2. i = Len(orders) + 1 /\ found = Append(orders, o)
      BY <2>2
    <3> HIDE DEF o, i, found, same
    <3>3. /\ found \in Seq(Order) /\ Len(found) = i /\ DOMAIN found = 1..i /\ found[i] = o
          /\ \A k \in 1..Len(orders) : found[k] = orders[k]
      BY <1>0, <3>1, <3>2
    <3>4. \A k \in DOMAIN found : k # i => k \in DOMAIN orders
      BY <1>0, <3>2, <3>3
    <3>5. DOMAIN orders \subseteq DOMAIN found /\ i \in DOMAIN found
      BY <1>0, <1>3, <3>2, <3>3
    <3> QED
      BY <1>0, <2>2, <3>1, <3>2, <3>3, <3>4, <3>5
  <2> QED
    BY <2>1, <2>2
<1> HIDE DEF i, found, same, Result
<1>5. ASSUME NEW s \in {"pending", "closed", "reserving", "proof"}, NEW all,
             all = [found EXCEPT ![i].st = s] \/ (all = found /\ s = found[i].st),
             found[i].st = "reserving" \/ all = found,
             ~(i > MaxOrders)
      PROVE  Makes(all, cart, asked)
  <2> PICK o \in Order :
        /\ found \in Seq(Order) /\ i \in DOMAIN found /\ found[i] = o
        /\ DOMAIN orders \subseteq DOMAIN found /\ Len(found) \in {Len(orders), i}
        /\ \A k \in DOMAIN found : k # i => k \in DOMAIN orders /\ found[k] = orders[k]
        /\ o.cart = cart
        /\ \/ /\ i \in DOMAIN orders /\ i \in Unpaid /\ orders[i].cart = cart
              /\ o.recent = orders[i].recent /\ o.st = orders[i].st
              /\ orders[i].asked \/ asked => o.asked
           \/ /\ i = Len(orders) + 1 /\ same = {} /\ o.st = "reserving"
              /\ asked => o.asked
    BY <1>4
  <2> DEFINE new == [o EXCEPT !.st = s]
  <2>1. new \in Order /\ new.cart = o.cart /\ new.recent = o.recent /\ new.asked = o.asked
        /\ new.st = s
    BY DEF Order
  <2>2. all = [found EXCEPT ![i] = new]
    <3>1. CASE all = [found EXCEPT ![i].st = s]
      BY <3>1
    <3>2. CASE all = found /\ s = found[i].st
      <4>1. new = o
        BY <3>2 DEF Order
      <4> QED
        BY <3>2, <4>1
    <3> QED
      BY <1>5, <3>1, <3>2
  <2> HIDE DEF new
  <2>3. /\ all \in Seq(Order) /\ DOMAIN all = DOMAIN found /\ Len(all) = Len(found)
        /\ all[i] = new /\ \A k \in DOMAIN all : k # i => all[k] = found[k]
    BY <2>1, <2>2
  <2>4. Len(all) <= MaxOrders
    <3>1. i <= MaxOrders
      BY <1>0, <1>3, <1>5
    <3> QED
      BY <1>0, <2>3, <3>1
  <2>5. s = "pending" => o.st \in {"pending", "reserving"}
    <3>1. CASE all = found
      BY <2>1, <2>3, <3>1
    <3>2. CASE found[i].st = "reserving"
      BY <3>2
    <3> QED
      BY <1>5, <3>1, <3>2
  <2>6. \A k \in DOMAIN all : k # i => k \in DOMAIN orders /\ all[k] = orders[k]
    BY <2>3
  <2>7. i \in DOMAIN all /\ DOMAIN orders \subseteq DOMAIN all /\ all[i].cart = cart
    BY <2>1, <2>3
  <2>8. \/ /\ i \in DOMAIN orders /\ i \in Unpaid /\ orders[i].cart = cart
           /\ all[i].recent = orders[i].recent
           /\ orders[i].asked \/ asked => all[i].asked
           /\ all[i].st = "pending" => orders[i].st \in {"pending", "reserving"}
        \/ /\ i = Len(orders) + 1 /\ SameOpen(cart) = {}
           /\ asked => all[i].asked
    BY <2>1, <2>3, <2>5 DEF same
  <2> QED
    BY <2>3, <2>4, <2>6, <2>7, <2>8 DEF Makes
<1>6. CASE made = [order |-> 0, all |-> orders]
  BY <1>0, <1>6
<1>7. CASE /\ ~(i > MaxOrders)
           /\ \/ made = [order |-> i, all |-> found] /\ found[i].st # "reserving"
              \/ made \in Result /\ found[i].st = "reserving"
  <2>1. i \in 0..MaxOrders
    BY <1>0, <1>3, <1>7
  <2>2. made.order \in {i, Raised}
    BY <1>7 DEF Result
  <2>3. found[i].st \in {"pending", "closed", "reserving", "proof"}
    BY <1>4, OrderFields
  <2>4. \E s \in {"pending", "closed", "reserving", "proof"} :
          /\ made.all = [found EXCEPT ![i].st = s] \/ (made.all = found /\ s = found[i].st)
          /\ found[i].st = "reserving" \/ made.all = found
    <3>1. CASE made = [order |-> i, all |-> found]
      <4>1. made.all = found
        BY <3>1
      <4> QED
        BY <2>3, <4>1
    <3>2. CASE made \in Result /\ found[i].st = "reserving"
      <4>1. \/ made.all = [found EXCEPT ![i].st = "pending"]
            \/ made.all = [found EXCEPT ![i].st = "closed"]
            \/ made.all = found
        <5> DEFINE open == [found EXCEPT ![i].st = "pending"]
                   shut == [found EXCEPT ![i].st = "closed"]
        <5>1. made \in {[order |-> i, all |-> open], [order |-> Raised, all |-> shut],
                        [order |-> Raised, all |-> found]}
          BY <3>2 DEF Result
        <5> HIDE DEF open, shut
        <5>2. made.all \in {open, shut, found}
          BY <5>1
        <5> QED
          BY <5>2 DEF open, shut
      <4> QED
        BY <2>3, <3>2, <4>1
    <3> QED
      BY <1>7, <3>1, <3>2
  <2> QED
    BY <1>5, <1>7, <2>1, <2>2, <2>4
<1> QED
  BY <1>1, <1>6, <1>7

-----------------------------------------------------------------------------
(* The purchase: what a turn may have in hand                              *)

Turn == [step : Steps, kind : Kinds, seen : Modes, row : Cust, sess : Session,
         agent : Agents, rounds : 0..Rounds, used : SUBSET Tools, asked : BOOLEAN,
         order : 0..MaxOrders, hold : Nat, gone : SUBSET (1..MaxDrafts),
         since : 0..MaxOrders]

\* The session that a turn has read holds a draft that was not gone when the
\* turn began.
Sound(task) ==
    /\ task.gone \subseteq gone
    /\ task.step = "record" => task.agent # "legacy"
    /\ task.step \in {"check", "create"} => task.sess.version \notin task.gone
    /\ task.step = "create" => task.sess.draft \in Carts

BuyInv == TypeOK /\ Versions /\ \A t \in Tasks : Sound(tasks[t])

\* Turn t goes on with what it has, or is over.
Plain(t) == \E new \in Turn :
    /\ tasks' = [tasks EXCEPT ![t] = new]
    /\ \/ new = Free
       \/ /\ tasks[t].step # "free" /\ new.gone = tasks[t].gone
          /\ new.step \notin {"record", "check", "create"}

LEMMA TurnFields ==
  ASSUME TypeOK, NEW t \in Tasks
  PROVE  tasks[t] \in Turn
  BY DEF TypeOK, Turn

LEMMA FreeTurn ==
  ASSUME TypeOK
  PROVE  Free \in Turn
<1>1. MaxOrders \in Nat /\ MaxDrafts \in Nat /\ Rounds \in Nat
  BY CheckoutAssumption, TurnsAssumption
<1>2. Fresh \in Session /\ Active \in Cust
  BY <1>1, Rows DEF Fresh, Session, Stages
<1> QED
  BY <1>1, <1>2 DEF Free, Turn, Steps, Kinds, Modes, Agents

LEMMA GotoPlain ==
  ASSUME TypeOK, NEW t \in Tasks, NEW step \in Steps \ {"record", "check", "create"},
         Goto(t, step), tasks[t].step # "free"
  PROVE  Plain(t)
<1> PICK task \in Turn : task = tasks[t]
  BY TurnFields
<1> DEFINE new == [task EXCEPT !.step = step]
<1>1. new \in Turn /\ new.gone = task.gone /\ new.step = step
  BY DEF Turn
<1>2. tasks' = [tasks EXCEPT ![t] = new]
  BY DEF Goto, Set
<1> HIDE DEF new
<1> QED
  BY <1>1, <1>2 DEF Plain

LEMMA DonePlain ==
  ASSUME TypeOK, NEW t \in Tasks, Done(t)
  PROVE  Plain(t)
  BY FreeTurn DEF Done, Set, Plain

LEMMA BeginStep ==
  ASSUME NEW kind \in Kinds
  PROVE  Begin(kind) \in {"escalate", "reply", "target", "route"}
  BY DEF Kinds, Begin

LEMMA TargetTyped ==
  ASSUME CheckoutTypeOK
  PROVE  PaymentTarget \in 0..MaxOrders
<1>0. /\ Len(orders) \in Nat /\ Len(orders) <= MaxOrders /\ DOMAIN orders = 1..Len(orders)
      /\ MaxOrders \in Nat /\ session.order \in 0..MaxOrders
  BY CheckoutAssumption DEF CheckoutTypeOK, Session
<1>1. CASE Bound(session) /\ session.order \in Open
  BY <1>0, <1>1 DEF PaymentTarget
<1>2. CASE ~(Bound(session) /\ session.order \in Open) /\ Cardinality(Open) = 1
  <2>1. Open \in SUBSET (1..Len(orders))
    BY <1>0 DEF Open, Numbers
  <2>2. Open # {}
    BY <1>2, FS_EmptySet
  <2>3. Newest(Open) \in Open
    BY <1>0, <2>1, <2>2, NewestIs
  <2>4. PaymentTarget = Newest(Open)
    BY <1>2 DEF PaymentTarget
  <2> DEFINE i == Newest(Open)
  <2>5. i \in 1..Len(orders)
    BY <2>1, <2>3
  <2> HIDE DEF i
  <2>6. i \in 0..MaxOrders
    BY <1>0, <2>5
  <2> QED
    BY <2>4, <2>6 DEF i
<1>3. CASE ~(Bound(session) /\ session.order \in Open) /\ Cardinality(Open) # 1
  BY <1>0, <1>3 DEF PaymentTarget
<1> QED
  BY <1>1, <1>2, <1>3

LEMMA GatePlain ==
  ASSUME TypeOK, cust' \in Cust, NEW t \in Tasks,
         \/ ReadLead(t) \/ InitializeMode(t) \/ ConfirmInitialMode(t) \/ MirrorMode(t)
         \/ ResumeJob(t) \/ Decide(t) \/ Guards(t) \/ ResumeTurn(t)
  PROVE  tasks' = tasks \/ Plain(t)
<1> PICK task \in Turn : task = tasks[t]
  BY TurnFields
<1>0. mode \in Modes /\ cust \in Cust /\ task.kind \in Kinds
  BY DEF TypeOK, PausesTypeOK, Turn
<1>1. CASE ReadLead(t)
  <2> PICK step \in {"again", "init", "mirror"} : Set(t, [tasks[t] EXCEPT !.seen = mode, !.step = step])
    BY <1>1 DEF ReadLead
  <2> DEFINE new == [task EXCEPT !.seen = mode, !.step = step]
  <2>1. new \in Turn /\ new.gone = task.gone /\ new.step = step
    BY <1>0 DEF Turn, Steps
  <2>2. tasks' = [tasks EXCEPT ![t] = new] /\ task.step # "free"
    BY <1>1 DEF Set, ReadLead, At
  <2> HIDE DEF new
  <2> QED
    BY <2>1, <2>2 DEF Plain
<1>2. CASE InitializeMode(t)
  BY <1>2, GotoPlain DEF InitializeMode, At, Steps
<1>3. CASE ConfirmInitialMode(t)
  <2>1. CASE Done(t)
    BY <2>1, DonePlain
  <2>2. CASE Set(t, [tasks[t] EXCEPT !.seen = mode, !.step = "mirror"])
    <3> DEFINE new == [task EXCEPT !.seen = mode, !.step = "mirror"]
    <3>1. new \in Turn /\ new.gone = task.gone /\ new.step = "mirror"
      BY <1>0 DEF Turn, Steps
    <3>2. tasks' = [tasks EXCEPT ![t] = new] /\ task.step # "free"
      BY <1>3, <2>2 DEF Set, ConfirmInitialMode, At
    <3> HIDE DEF new
    <3> QED
      BY <3>1, <3>2 DEF Plain
  <2> QED
    BY <1>3, <2>1, <2>2 DEF ConfirmInitialMode
<1>4. CASE MirrorMode(t)
  <2> DEFINE new == [task EXCEPT !.row = cust', !.step = "expire"]
  <2>1. new \in Turn /\ new.gone = task.gone /\ new.step = "expire"
    BY DEF Turn, Steps
  <2>2. tasks' = [tasks EXCEPT ![t] = new] /\ task.step # "free"
    BY <1>4 DEF Set, MirrorMode, At
  <2> HIDE DEF new
  <2> QED
    BY <2>1, <2>2 DEF Plain
<1>5. CASE ResumeJob(t)
  BY <1>5, GotoPlain DEF ResumeJob, Resume, At, Steps
<1>6. CASE ResumeTurn(t)
  <2>1. tasks' = tasks \/ Goto(t, "free")
    BY <1>6 DEF ResumeTurn, Resume
  <2>2. tasks[t].step # "free"
    BY <1>6 DEF ResumeTurn, At
  <2> QED
    BY <2>1, <2>2, GotoPlain DEF Steps
<1>7. CASE Decide(t)
  BY <1>7, GotoPlain, DonePlain DEF Decide, At, Steps
<1>8. CASE Guards(t)
  <2>1. CASE Set(t, [tasks[t] EXCEPT !.row = cust, !.step = "resume"])
    <3> DEFINE new == [task EXCEPT !.row = cust, !.step = "resume"]
    <3>1. new \in Turn /\ new.gone = task.gone /\ new.step = "resume"
      BY <1>0 DEF Turn, Steps
    <3>2. tasks' = [tasks EXCEPT ![t] = new] /\ task.step # "free"
      BY <1>8, <2>1 DEF Set, Guards, At
    <3> HIDE DEF new
    <3> QED
      BY <3>1, <3>2 DEF Plain
  <2>2. CASE Goto(t, Begin(tasks[t].kind))
    <3> PICK step \in {"escalate", "reply", "target", "route"} : step = Begin(tasks[t].kind)
      BY <1>0, BeginStep
    <3>1. Goto(t, step) /\ tasks[t].step # "free"
      BY <1>8, <2>2 DEF Guards, At
    <3> QED
      BY <3>1, GotoPlain DEF Steps
  <2>3. CASE Done(t)
    BY <2>3, DonePlain
  <2> QED
    BY <1>8, <2>1, <2>2, <2>3 DEF Guards
<1> QED
  BY <1>1, <1>2, <1>3, <1>4, <1>5, <1>6, <1>7, <1>8

LEMMA ReactPlain ==
  ASSUME TypeOK, IInv, ReactStep
  PROVE  tasks' = tasks \/ \E t \in Tasks : Plain(t)
<1> DEFINE t == react.by
           early == tasks[t].step = "expire"
           resumed == [tasks[t] EXCEPT !.row = Active,
                         !.seen = IF Kommo THEN "active" ELSE @,
                         !.step = IF early THEN "decide"
                                  ELSE IF enabled THEN Begin(tasks[t].kind) ELSE "free"]
           failed == IF early THEN [tasks[t] EXCEPT !.step = "decide"] ELSE Free
<1>1. tasks' = tasks \/ (t # Sweep /\ (Set(t, resumed) \/ Set(t, failed)))
  BY DEF ReactStep, At
<1>2. CASE t \in Tasks /\ tasks[t].step \in {"expire", "resume"}
  <2> PICK task \in Turn : task = tasks[t]
    BY <1>2, TurnFields
  <2>1. task.kind \in Kinds /\ task.step # "free" /\ task.seen \in Modes
    BY <1>2 DEF Turn
  <2>2. CASE Set(t, resumed)
    <3> PICK seen \in Modes : seen = IF Kommo THEN "active" ELSE task.seen
      BY <2>1 DEF Modes
    <3> PICK step \in {"decide", "free", "escalate", "reply", "target", "route"} :
             step = IF early THEN "decide" ELSE IF enabled THEN Begin(task.kind) ELSE "free"
      BY <2>1, BeginStep
    <3> PICK row \in Cust : row = Active
      BY Rows
    <3>0. step \in Steps /\ step \notin {"record", "check", "create"}
      BY DEF Steps
    <3> DEFINE new == [task EXCEPT !.row = row, !.seen = seen, !.step = step]
    <3>1. new \in Turn /\ new.gone = task.gone /\ new.step = step
      BY <3>0 DEF Turn
    <3>2. tasks' = [tasks EXCEPT ![t] = new]
      BY <2>2 DEF Set, Turn
    <3> HIDE DEF new
    <3> QED
      BY <1>2, <2>1, <3>0, <3>1, <3>2 DEF Plain
  <2>3. CASE Set(t, failed)
    <3>1. Goto(t, "decide") \/ Done(t)
      BY <2>3 DEF Goto, Done
    <3> QED
      BY <1>2, <3>1, GotoPlain, DonePlain DEF Steps
  <2> QED
    BY <1>1, <2>2, <2>3
<1>3. t # Sweep => t \in Tasks /\ tasks[t].step \in {"expire", "resume"}
  <2>1. react.step # "off"
    BY DEF ReactStep, ReactivateInKommo, ReactivationConfirmed, Reactivate
  <2>2. react.by # NoOne /\ react \in React
    BY <2>1 DEF IInv, Lock, Shape
  <2> QED
    BY <2>2 DEF IInv, Lock, React, Reactors
<1> QED
  BY <1>1, <1>2, <1>3

LEMMA UsesTools ==
  ASSUME TypeOK, NEW t \in Tasks, NEW tool \in Tools, MayUse(t, tool)
  PROVE  /\ Round(t) \in Turn /\ Round(t).gone = tasks[t].gone /\ Round(t).step = "llm"
         /\ Once(t, tool) \in Turn /\ Once(t, tool).gone = tasks[t].gone
         /\ Once(t, tool).step = "llm" /\ tasks[t].step = "llm"
<1> PICK task \in Turn : task = tasks[t]
  BY TurnFields
<1>1. task.step = "llm" /\ task.rounds < Rounds /\ task.rounds \in 0..Rounds /\ Rounds \in Nat
  BY TurnsAssumption DEF MayUse, At, Turn
<1> DEFINE n == task.rounds + 1
<1>2. n \in 0..Rounds
  BY <1>1
<1> HIDE DEF n
<1> DEFINE round == [task EXCEPT !.rounds = n]
<1>3. round \in Turn /\ round.gone = task.gone /\ round.step = "llm"
  BY <1>1, <1>2 DEF Turn
<1>4. Round(t) = round
  BY DEF Round, n
<1> HIDE DEF round
<1> PICK used \in SUBSET Tools : used = round.used \cup {tool}
  BY <1>3 DEF Turn
<1> DEFINE once == [round EXCEPT !.used = used]
<1>5. once \in Turn /\ once.gone = task.gone /\ once.step = "llm"
  BY <1>3 DEF Turn
<1>6. Once(t, tool) = once
  BY <1>4 DEF Once
<1> QED
  BY <1>1, <1>3, <1>4, <1>5, <1>6

LEMMA LatePlain ==
  ASSUME TypeOK, NEW t \in Tasks,
         \/ Escalate(t) \/ Sync(t) \/ FindTarget(t) \/ StoreProof(t) \/ MarkVerified(t)
         \/ RecordRoute(t) \/ Bind(t) \/ Answer(t) \/ Reply(t) \/ Fail(t)
  PROVE  Plain(t)
<1> PICK task \in Turn : task = tasks[t]
  BY TurnFields
<1>1. CASE Escalate(t) \/ Sync(t)
  BY <1>1, GotoPlain DEF Escalate, Sync, At, Steps
<1>2. CASE FindTarget(t)
  <2>1. tasks[t].step # "free"
    BY <1>2 DEF FindTarget, At
  <2>2. CASE Goto(t, "verified") \/ Goto(t, "reply")
    BY <2>1, <2>2, GotoPlain DEF Steps
  <2>3. CASE Set(t, [tasks[t] EXCEPT !.order = PaymentTarget, !.step = "proof"])
    <3> PICK i \in 0..MaxOrders : i = PaymentTarget
      BY TargetTyped DEF TypeOK
    <3> DEFINE new == [task EXCEPT !.order = i, !.step = "proof"]
    <3>1. new \in Turn /\ new.gone = task.gone /\ new.step = "proof"
      BY DEF Turn, Steps
    <3>2. tasks' = [tasks EXCEPT ![t] = new]
      BY <2>3 DEF Set
    <3> HIDE DEF new
    <3> QED
      BY <2>1, <3>1, <3>2 DEF Plain
  <2> QED
    BY <1>2, <2>2, <2>3 DEF FindTarget
<1>3. CASE StoreProof(t) \/ MarkVerified(t)
  BY <1>3, GotoPlain DEF StoreProof, MarkVerified, At, Steps
<1>4. CASE RecordRoute(t) \/ Answer(t)
  BY <1>4, GotoPlain DEF RecordRoute, Answer, At, Steps
<1>5. CASE Bind(t)
  <2> DEFINE new == [task EXCEPT !.order = 0, !.step = "llm"]
  <2>0. 0 \in 0..MaxOrders
    BY CheckoutAssumption
  <2>1. new \in Turn /\ new.gone = task.gone /\ new.step = "llm"
    BY <2>0 DEF Turn, Steps
  <2>2. tasks' = [tasks EXCEPT ![t] = new] /\ tasks[t].step # "free"
    BY <1>5 DEF Set, Bind, At
  <2> HIDE DEF new
  <2> QED
    BY <2>1, <2>2 DEF Plain
<1>6. CASE Reply(t) \/ Fail(t)
  BY <1>6, DonePlain DEF Reply, Fail
<1> QED
  BY <1>1, <1>2, <1>3, <1>4, <1>5, <1>6

LEMMA ToolPlain ==
  ASSUME TypeOK, NEW t \in Tasks,
         DraftTool(t) \/ CancelTool(t) \/ EscalateTool(t) \/ HandoffTool(t) \/ CreateTool(t)
  PROVE  Plain(t)
<1>0. \A tool \in {"draft", "cancel", "escalate", "handoff", "create"} : tool \in Tools
  BY DEF Tools
<1> DEFINE Uses(tool) == MayUse(t, tool) /\ (Set(t, Round(t)) \/ Set(t, Once(t, tool)))
<1>1. ASSUME NEW tool \in Tools, Uses(tool)
      PROVE  Plain(t)
  BY <1>1, UsesTools DEF Set, Plain
<1>2. CASE DraftTool(t)
  BY <1>0, <1>1, <1>2 DEF DraftTool
<1>3. CASE CancelTool(t)
  BY <1>0, <1>1, <1>3 DEF CancelTool
<1>4. CASE HandoffTool(t)
  BY <1>0, <1>1, <1>4 DEF HandoffTool
<1>5. CASE CreateTool(t)
  BY <1>0, <1>1, <1>5 DEF CreateTool
<1>6. CASE EscalateTool(t)
  <2>1. MayUse(t, "escalate") /\ Set(t, [Once(t, "escalate") EXCEPT !.step = "escalate"])
    BY <1>6 DEF EscalateTool
  <2> PICK once \in Turn : /\ once = Once(t, "escalate") /\ once.gone = tasks[t].gone
                           /\ tasks[t].step = "llm"
    BY <1>0, <2>1, UsesTools
  <2> DEFINE new == [once EXCEPT !.step = "escalate"]
  <2>2. new \in Turn /\ new.gone = once.gone /\ new.step = "escalate"
    BY DEF Turn, Steps
  <2>3. tasks' = [tasks EXCEPT ![t] = new]
    BY <2>1 DEF Set
  <2> HIDE DEF new
  <2> QED
    BY <2>2, <2>3 DEF Plain
<1> QED
  BY <1>2, <1>3, <1>4, <1>5, <1>6

LEMMA FreshTyped == Fresh \in Session
<1>1. 0 \in 0..MaxOrders /\ 0 \in 0..MaxDrafts
  BY CheckoutAssumption
<1> QED
  BY <1>1 DEF Fresh, Session, Stages

LEMMA CreatePlain ==
  ASSUME TypeOK, NEW t \in Tasks, Sound(tasks[t]), Create(t)
  PROVE  Plain(t)
<1> PICK task \in Turn : task = tasks[t]
  BY TurnFields
<1>1. task.step = "create" /\ task.sess.draft \in Carts /\ task.asked \in BOOLEAN
  BY DEF Create, At, Sound, Turn
<1> PICK made \in CreateOrder(task.sess.draft, task.asked) :
      Set(t, IF made.order = Raised THEN Free
             ELSE IF made.order = 0
               THEN [[tasks[t] EXCEPT !.used = @ \cup {"finalize"}, !.sess = Fresh, !.asked = FALSE]
                       EXCEPT !.step = "llm"]
             ELSE [[tasks[t] EXCEPT !.used = @ \cup {"finalize"}, !.sess = Fresh, !.asked = FALSE]
                       EXCEPT !.order = made.order, !.step = "bind"])
  BY DEF Create
<1> PICK i \in 0..MaxOrders \cup {Raised} : i = made.order
  BY <1>1, CreateMakes DEF TypeOK
<1> PICK used \in SUBSET Tools : used = task.used \cup {"finalize"}
  BY DEF Turn, Tools
<1> PICK fresh \in Session : fresh = Fresh
  BY FreshTyped
<1> DEFINE over == [task EXCEPT !.used = used, !.sess = fresh, !.asked = FALSE]
<1>2. over \in Turn /\ over.gone = task.gone
  BY DEF Turn
<1>3. Set(t, IF i = Raised THEN Free
             ELSE IF i = 0 THEN [over EXCEPT !.step = "llm"]
             ELSE [over EXCEPT !.order = i, !.step = "bind"])
  OBVIOUS
<1> HIDE DEF over
<1>4. CASE i = Raised
  BY <1>3, <1>4, DonePlain DEF Done
<1>5. CASE i # Raised /\ i = 0
  <2> DEFINE new == [over EXCEPT !.step = "llm"]
  <2>1. new \in Turn /\ new.gone = over.gone /\ new.step = "llm"
    BY <1>2 DEF Turn, Steps
  <2>2. tasks' = [tasks EXCEPT ![t] = new]
    BY <1>3, <1>5 DEF Set
  <2> HIDE DEF new
  <2> QED
    BY <1>1, <1>2, <2>1, <2>2 DEF Plain
<1>6. CASE i # Raised /\ i # 0
  <2>0. i \in 0..MaxOrders
    BY <1>6
  <2> DEFINE new == [over EXCEPT !.order = i, !.step = "bind"]
  <2>1. new \in Turn /\ new.gone = over.gone /\ new.step = "bind"
    BY <1>2, <2>0 DEF Turn, Steps
  <2>2. tasks' = [tasks EXCEPT ![t] = new]
    BY <1>3, <1>6 DEF Set
  <2> HIDE DEF new
  <2> QED
    BY <1>1, <1>2, <2>1, <2>2 DEF Plain
<1> QED
  BY <1>4, <1>5, <1>6

\* A message arrives, or turn t takes one of the three steps that a later step
\* relies on: the route of an agent, the session, the checks of the checkout.
Marked(t) == \E new \in Turn :
    /\ tasks' = [tasks EXCEPT ![t] = new]
    /\ \/ new.gone = gone /\ new.step \in {"lead", "guards"} /\ t \in scope.tasks
       \/ /\ new.gone = tasks[t].gone /\ tasks[t].step # "free"
          /\ \/ new.step = "record" /\ new.agent # "legacy"
             \/ new.step = "check" /\ new.sess = session /\ "finalize" \in scope.tools
             \/ /\ new.step = "create" /\ tasks[t].step = "check"
                /\ new.sess = tasks[t].sess /\ MayOrder(new.sess, new.asked)

LEMMA ArriveMarked ==
  ASSUME TypeOK, NEW t \in Tasks, NEW kind \in Kinds, Arrive(t, kind)
  PROVE  Marked(t)
<1> PICK free \in Turn : free = Free
  BY FreeTurn
<1> PICK step \in {"lead", "guards"} : step = IF Kommo THEN "lead" ELSE "guards"
  OBVIOUS
<1> PICK since \in 0..MaxOrders : since = Len(orders)
  BY CheckoutAssumption DEF TypeOK, CheckoutTypeOK
<1>0. hold \in Nat /\ gone \in SUBSET (1..MaxDrafts)
  BY DEF TypeOK, CheckoutTypeOK, PausesTypeOK
<1> DEFINE new == [free EXCEPT !.step = step, !.kind = kind, !.hold = hold, !.gone = gone,
                               !.since = since]
<1>1. new \in Turn /\ new.gone = gone /\ new.step = step
  BY <1>0 DEF Turn, Steps
<1>2. tasks' = [tasks EXCEPT ![t] = new] /\ t \in scope.tasks
  BY DEF Arrive, Set
<1> HIDE DEF new
<1> QED
  BY <1>1, <1>2 DEF Marked

LEMMA RouteMarked ==
  ASSUME TypeOK, NEW t \in Tasks, Route(t)
  PROVE  Plain(t) \/ Marked(t)
<1> PICK task \in Turn : task = tasks[t]
  BY TurnFields
<1> PICK agent \in Agents :
      Set(t, [tasks[t] EXCEPT !.agent = agent, !.step = IF agent = "legacy" THEN "llm" ELSE "record"])
  BY DEF Route
<1> PICK step \in {"llm", "record"} : step = IF agent = "legacy" THEN "llm" ELSE "record"
  OBVIOUS
<1> DEFINE new == [task EXCEPT !.agent = agent, !.step = step]
<1>1. new \in Turn /\ new.gone = task.gone /\ new.step = step /\ new.agent = agent
  BY DEF Turn, Steps
<1>2. tasks' = [tasks EXCEPT ![t] = new] /\ tasks[t].step # "free"
  BY DEF Set, Route, At
<1> HIDE DEF new
<1> QED
  BY <1>1, <1>2 DEF Plain, Marked

LEMMA FinalizeMarked ==
  ASSUME TypeOK, NEW t \in Tasks, FinalizeTool(t)
  PROVE  Marked(t)
<1> PICK startNew \in BOOLEAN :
      Set(t, [Round(t) EXCEPT !.sess = session, !.asked = startNew, !.step = "check"])
  BY DEF FinalizeTool
<1>0. MayUse(t, "finalize") /\ "finalize" \in Tools
  BY DEF FinalizeTool, Tools
<1> PICK round \in Turn : round = Round(t) /\ round.gone = tasks[t].gone
  BY <1>0, UsesTools
<1> PICK sess \in Session : sess = session
  BY DEF TypeOK, CheckoutTypeOK
<1> DEFINE new == [round EXCEPT !.sess = sess, !.asked = startNew, !.step = "check"]
<1>1. new \in Turn /\ new.gone = round.gone /\ new.step = "check" /\ new.sess = sess
  BY DEF Turn, Steps
<1>2. tasks' = [tasks EXCEPT ![t] = new] /\ tasks[t].step # "free" /\ "finalize" \in scope.tools
  BY <1>0 DEF Set, MayUse, At
<1> HIDE DEF new
<1> QED
  BY <1>1, <1>2 DEF Marked

LEMMA CheckMarked ==
  ASSUME TypeOK, NEW t \in Tasks, Check(t)
  PROVE  Plain(t) \/ Marked(t)
<1> PICK task \in Turn : task = tasks[t]
  BY TurnFields
<1>0. task.step = "check"
  BY DEF Check, At
<1>1. CASE MayOrder(task.sess, task.asked) /\ Goto(t, "create")
  <2> DEFINE new == [task EXCEPT !.step = "create"]
  <2>1. new \in Turn /\ new.gone = task.gone /\ new.step = "create" /\ new.sess = task.sess
        /\ new.asked = task.asked
    BY DEF Turn, Steps
  <2>2. tasks' = [tasks EXCEPT ![t] = new]
    BY <1>1 DEF Goto, Set
  <2>3. new.asked = tasks[t].asked /\ new.sess = tasks[t].sess
    BY <2>1
  <2> HIDE DEF new
  <2>4. MayOrder(new.sess, new.asked)
    BY <1>1, <2>3
  <2> QED
    BY <1>0, <2>1, <2>2, <2>4 DEF Marked
<1>2. CASE Set(t, [tasks[t] EXCEPT !.used = @ \cup {"finalize"}, !.sess = Fresh,
                                   !.asked = FALSE, !.step = "llm"])
  <2> PICK used \in SUBSET Tools : used = task.used \cup {"finalize"}
    BY DEF Turn, Tools
  <2> PICK fresh \in Session : fresh = Fresh
    BY FreshTyped
  <2> DEFINE new == [task EXCEPT !.used = used, !.sess = fresh, !.asked = FALSE, !.step = "llm"]
  <2>1. new \in Turn /\ new.gone = task.gone /\ new.step = "llm"
    BY DEF Turn, Steps
  <2>2. tasks' = [tasks EXCEPT ![t] = new]
    BY <1>2 DEF Set
  <2> HIDE DEF new
  <2> QED
    BY <1>0, <2>1, <2>2 DEF Plain
<1> QED
  BY <1>1, <1>2 DEF Check

-----------------------------------------------------------------------------
(* The purchase: what a step does to the session and the orders            *)

Quiet == Unmade \/ SessionMoves \/ OrdersMove
Made(t) ==
    /\ UNCHANGED <<session, drafts, gone>>
    /\ \/ tasks[t].step = "llm" /\ \E cart \in Carts : Makes(orders', cart, TRUE)
       \/ tasks[t].step = "create" /\ \E cart \in Carts : Makes(orders', cart, tasks[t].asked)

LEMMA StageMoves ==
  ASSUME TypeOK, NEW t \in Tasks, Sound(tasks[t]), RecordRoute(t) \/ Answer(t)
  PROVE  Quiet
<1>1. CASE RecordRoute(t)
  <2>1. tasks[t].agent \in Agents /\ tasks[t].agent # "legacy"
    BY <1>1 DEF RecordRoute, At, Sound, TypeOK
  <2> PICK stage \in Stages : stage = IF tasks[t].agent = "checkout" THEN "collecting"
                                      ELSE tasks[t].agent
    BY <2>1 DEF Agents, Stages
  <2>2. SetStage(stage)
    BY <1>1 DEF RecordRoute
  <2> QED
    BY <2>2 DEF Quiet, SessionMoves
<1>2. CASE Answer(t)
  <2>1. SetStage("collecting") \/ Unmade
    BY <1>2 DEF Answer, CheckoutKept, Unmade
  <2>2. "collecting" \in Stages
    BY DEF Stages
  <2> QED
    BY <2>1, <2>2 DEF Quiet, SessionMoves
<1> QED
  BY <1>1, <1>2

LEMMA BindMoves ==
  ASSUME TypeOK, NEW t \in Tasks, MarkVerified(t) \/ Bind(t)
  PROVE  Quiet
<1>0. 0 \in 0..MaxOrders /\ tasks[t].order \in 0..MaxOrders
  BY CheckoutAssumption DEF TypeOK
<1>1. "completed" \in Stages /\ "waiting" \in Stages
  BY DEF Stages
<1>2. SetCurrentOrder(0, "completed") \/ SetCurrentOrder(tasks[t].order, "waiting")
  BY DEF MarkVerified, Bind
<1> QED
  BY <1>0, <1>1, <1>2 DEF Quiet, SessionMoves

LEMMA ProofMoves ==
  ASSUME TypeOK, NEW t \in Tasks, StoreProof(t)
  PROVE  Quiet
<1> DEFINE i == tasks[t].order
<1>1. CASE orders[i].st = "pending" /\ RecordProof(i)
  <2>1. CASE i \in DOMAIN orders
    BY <1>1, <2>1, OrdersChanged DEF TypeOK, Quiet
  <2>2. CASE i \notin DOMAIN orders
    <3>1. orders' = [orders EXCEPT ![i].st = "proof"] /\ orders \in Seq(Order)
      BY <1>1 DEF RecordProof, TypeOK, CheckoutTypeOK
    <3> HIDE DEF i
    <3>2. orders' = orders
      BY <2>2, <3>1
    <3> QED
      BY <1>1, <3>2 DEF RecordProof, Quiet, Unmade, checkoutVars
  <2> QED
    BY <2>1, <2>2
<1>2. CASE CheckoutKept
  BY <1>2 DEF CheckoutKept, Quiet, Unmade
<1> QED
  BY <1>1, <1>2 DEF StoreProof

LEMMA ToolMoves ==
  ASSUME TypeOK, NEW t \in Tasks, Sound(tasks[t]),
         DraftTool(t) \/ CancelTool(t) \/ CreateTool(t) \/ Create(t)
  PROVE  Quiet \/ Made(t)
<1>0. ASSUME NEW cart \in Carts, NEW asked \in BOOLEAN, NEW made \in CreateOrder(cart, asked),
             orders' = made.all, UNCHANGED <<session, drafts, gone>>
      PROVE  Unmade \/ Makes(orders', cart, asked)
  BY <1>0, CreateMakes DEF TypeOK, Unmade, checkoutVars
<1>1. CASE DraftTool(t) \/ CancelTool(t)
  BY <1>1 DEF DraftTool, CancelTool, Quiet, SessionMoves
<1>2. CASE CreateTool(t)
  <2> PICK cart \in Carts : \E made \in CreateOrder(cart, TRUE) : orders' = made.all
    BY <1>2 DEF CreateTool
  <2> PICK made \in CreateOrder(cart, TRUE) : orders' = made.all
    OBVIOUS
  <2>1. UNCHANGED <<session, drafts, gone>> /\ tasks[t].step = "llm"
    BY <1>2 DEF CreateTool, MayUse, At
  <2>2. Unmade \/ Makes(orders', cart, TRUE)
    BY <1>0, <2>1
  <2> QED
    BY <2>1, <2>2 DEF Quiet, Made
<1>3. CASE Create(t)
  <2> PICK cart \in Carts : cart = tasks[t].sess.draft
    BY <1>3 DEF Create, At, Sound
  <2> PICK asked \in BOOLEAN : asked = tasks[t].asked
    BY DEF TypeOK
  <2> PICK made \in CreateOrder(cart, asked) : orders' = made.all
    BY <1>3 DEF Create
  <2>1. UNCHANGED <<session, drafts, gone>> /\ tasks[t].step = "create"
    BY <1>3 DEF Create, At
  <2>2. Unmade \/ Makes(orders', cart, asked)
    BY <1>0, <2>1
  <2> QED
    BY <2>1, <2>2 DEF Quiet, Made
<1> QED
  BY <1>1, <1>2, <1>3

LEMMA NextMoves ==
  ASSUME TypeOK, \A t \in Tasks : Sound(tasks[t]), [Next]_vars
  PROVE  Quiet \/ \E t \in Tasks : Made(t) /\ Plain(t)
<1>1. CASE UNCHANGED vars
  BY <1>1 DEF vars, Quiet, Unmade
<1>2. ASSUME NEW t \in Tasks, TaskStep(t)
      PROVE  Quiet \/ (Made(t) /\ Plain(t))
  <2>1. CASE \/ ReadLead(t) \/ InitializeMode(t) \/ ConfirmInitialMode(t) \/ MirrorMode(t)
             \/ ResumeJob(t) \/ Decide(t) \/ Guards(t) \/ ResumeTurn(t)
    BY <2>1 DEF ReadLead, InitializeMode, ConfirmInitialMode, MirrorMode, ResumeJob, Resume,
                Decide, Guards, ResumeTurn, CheckoutKept, Quiet, Unmade
  <2>2. CASE \/ Escalate(t) \/ Sync(t) \/ FindTarget(t) \/ Route(t) \/ EscalateTool(t)
             \/ HandoffTool(t) \/ FinalizeTool(t) \/ Check(t) \/ Reply(t)
    BY <2>2 DEF Escalate, Sync, FindTarget, Route, EscalateTool, HandoffTool, FinalizeTool,
                Check, Reply, CheckoutKept, Quiet, Unmade
  <2>3. CASE RecordRoute(t) \/ Answer(t) \/ MarkVerified(t) \/ Bind(t) \/ StoreProof(t)
    BY <2>3, StageMoves, BindMoves, ProofMoves
  <2>4. CASE DraftTool(t) \/ CancelTool(t) \/ CreateTool(t) \/ Create(t)
    BY <2>4, ToolMoves, ToolPlain, CreatePlain
  <2> QED
    BY <1>2, <2>1, <2>2, <2>3, <2>4 DEF TaskStep
<1>3. CASE \E t \in Tasks : Fail(t) \/ \E kind \in Kinds : Arrive(t, kind)
  BY <1>3 DEF Fail, Arrive, CheckoutKept, Quiet, Unmade
<1>4. CASE ReactStep
  BY <1>4 DEF ReactStep, Reactivate, CheckoutKept, Quiet, Unmade, SessionMoves
<1>5. CASE SweepBegins \/ ExpiryPasses \/ Crash
  BY <1>5 DEF SweepBegins, ExpiryPasses, Crash, CheckoutKept, Quiet, Unmade
<1>6. CASE People
  BY <1>6 DEF People, AdminResets, CheckoutKept, Quiet, Unmade, SessionMoves
<1>7. CASE OrdersChange
  <2> PICK i \in DOMAIN orders : OrderCloses(i) \/ OrderAges(i)
    BY <1>7 DEF OrdersChange, TimeAges
  <2> QED
    BY OrdersChanged DEF TypeOK, Quiet
<1> QED
  BY <1>1, <1>2, <1>3, <1>4, <1>5, <1>6, <1>7 DEF Next

-----------------------------------------------------------------------------
(* The purchase: the invariant                                             *)

LEMMA NextTasks ==
  ASSUME BuyInv, IInv, IInv', [Next]_vars
  PROVE  /\ scope' = scope
         /\ \/ tasks' = tasks \/ tasks' = [t \in Tasks |-> Free]
            \/ \E t \in Tasks : Plain(t) \/ Marked(t)
<1>0. TypeOK /\ cust' \in Cust
  BY DEF BuyInv, IInv, Shape
<1>1. CASE UNCHANGED vars
  BY <1>1 DEF vars, turnVars
<1>2. ASSUME NEW t \in Tasks, TaskStep(t)
      PROVE  scope' = scope /\ (tasks' = tasks \/ Plain(t) \/ Marked(t))
  <2>0. Sound(tasks[t])
    BY DEF BuyInv
  <2>1. CASE \/ ReadLead(t) \/ InitializeMode(t) \/ ConfirmInitialMode(t) \/ MirrorMode(t)
             \/ ResumeJob(t) \/ Decide(t) \/ Guards(t) \/ ResumeTurn(t)
    <3>1. tasks' = tasks \/ Plain(t)
      BY <1>0, <2>1, GatePlain
    <3>2. scope' = scope
      BY <2>1 DEF ReadLead, InitializeMode, ConfirmInitialMode, MirrorMode, ResumeJob, Resume,
                  Decide, Guards, ResumeTurn, Others
    <3> QED
      BY <3>1, <3>2
  <2>2. CASE \/ Escalate(t) \/ Sync(t) \/ FindTarget(t) \/ StoreProof(t) \/ MarkVerified(t)
             \/ RecordRoute(t) \/ Bind(t) \/ Answer(t) \/ Reply(t)
    <3>1. Plain(t)
      BY <1>0, <2>2, LatePlain
    <3>2. scope' = scope
      BY <2>2 DEF Escalate, Sync, FindTarget, StoreProof, MarkVerified, RecordRoute, Bind, Answer,
                  Reply, Others
    <3> QED
      BY <3>1, <3>2
  <2>3. CASE DraftTool(t) \/ CancelTool(t) \/ EscalateTool(t) \/ HandoffTool(t) \/ CreateTool(t)
    <3>1. Plain(t)
      BY <1>0, <2>3, ToolPlain
    <3>2. scope' = scope
      BY <2>3 DEF DraftTool, CancelTool, EscalateTool, HandoffTool, CreateTool, Others
    <3> QED
      BY <3>1, <3>2
  <2>4. CASE Route(t) \/ FinalizeTool(t) \/ Check(t) \/ Create(t)
    <3>1. Plain(t) \/ Marked(t)
      BY <1>0, <2>0, <2>4, RouteMarked, FinalizeMarked, CheckMarked, CreatePlain
    <3>2. scope' = scope
      BY <2>4 DEF Route, FinalizeTool, Check, Create, Others
    <3> QED
      BY <3>1, <3>2
  <2> QED
    BY <1>2, <2>1, <2>2, <2>3, <2>4 DEF TaskStep
<1>3. CASE \E t \in Tasks : Fail(t) \/ \E kind \in Kinds : Arrive(t, kind)
  <2> PICK t \in Tasks : Fail(t) \/ \E kind \in Kinds : Arrive(t, kind)
    BY <1>3
  <2>1. Plain(t) \/ Marked(t)
    BY <1>0, LatePlain, ArriveMarked
  <2>2. scope' = scope
    BY DEF Fail, Arrive
  <2> QED
    BY <2>1, <2>2
<1>4. CASE ReactStep
  <2>1. scope' = scope
    BY <1>4 DEF ReactStep, Others
  <2> QED
    BY <1>0, <1>4, <2>1, ReactPlain
<1>5. CASE SweepBegins \/ ExpiryPasses
  BY <1>5 DEF SweepBegins, ExpiryPasses, turnVars
<1>6. CASE Crash
  BY <1>6 DEF Crash
<1>7. CASE (People \/ OrdersChange) /\ UNCHANGED <<scope, turnVars>>
  BY <1>7 DEF turnVars
<1> QED
  BY <1>1, <1>2, <1>3, <1>4, <1>5, <1>6, <1>7 DEF Next

LEMMA BoundsTyped ==
  ASSUME TypeOK, [Next]_vars
  PROVE  messages' \in 0..scope.messages /\ faults' \in 0..scope.faults
<1>0. /\ messages \in 0..scope.messages /\ faults \in 0..scope.faults
      /\ scope.messages \in Nat /\ scope.faults \in Nat
  BY TurnsAssumption DEF TypeOK, Scope
<1>1. ASSUME NEW t \in Tasks, TaskStep(t)
      PROVE  Others
  <2>1. CASE \/ ReadLead(t) \/ InitializeMode(t) \/ ConfirmInitialMode(t) \/ MirrorMode(t)
             \/ ResumeJob(t) \/ Decide(t) \/ Guards(t) \/ ResumeTurn(t)
    BY <2>1 DEF ReadLead, InitializeMode, ConfirmInitialMode, MirrorMode, ResumeJob, Resume,
                Decide, Guards, ResumeTurn
  <2>2. CASE \/ Escalate(t) \/ Sync(t) \/ FindTarget(t) \/ StoreProof(t) \/ MarkVerified(t)
             \/ Route(t) \/ RecordRoute(t)
    BY <2>2 DEF Escalate, Sync, FindTarget, StoreProof, MarkVerified, Route, RecordRoute
  <2>3. CASE \/ DraftTool(t) \/ CancelTool(t) \/ EscalateTool(t) \/ HandoffTool(t)
             \/ CreateTool(t) \/ FinalizeTool(t)
    BY <2>3 DEF DraftTool, CancelTool, EscalateTool, HandoffTool, CreateTool, FinalizeTool
  <2>4. CASE Check(t) \/ Create(t) \/ Bind(t) \/ Answer(t) \/ Reply(t)
    BY <2>4 DEF Check, Create, Bind, Answer, Reply
  <2> QED
    BY <1>1, <2>1, <2>2, <2>3, <2>4 DEF TaskStep
<1>2. CASE \E t \in Tasks : Fail(t)
  <2>1. messages' = messages /\ Fault
    BY <1>2 DEF Fail
  <2> QED
    BY <1>0, <2>1 DEF Fault
<1>6. CASE \E t \in Tasks : \E kind \in Kinds : Arrive(t, kind)
  <2>1. messages > 0 /\ messages' = messages - 1 /\ faults' = faults
    BY <1>6 DEF Arrive
  <2> QED
    BY <1>0, <2>1
<1>3. CASE Crash
  BY <1>0, <1>3 DEF Crash, Fault
<1>4. CASE \/ UNCHANGED vars \/ ReactStep \/ SweepBegins \/ ExpiryPasses
           \/ (People \/ OrdersChange) /\ UNCHANGED <<scope, turnVars>>
  <2>1. UNCHANGED <<messages, faults>>
    BY <1>4 DEF vars, turnVars, ReactStep, Others, SweepBegins, ExpiryPasses
  <2> QED
    BY <1>0, <2>1
<1>5. CASE \E t \in Tasks : TaskStep(t)
  BY <1>0, <1>1, <1>5 DEF Others
<1> QED
  BY <1>2, <1>3, <1>4, <1>5, <1>6 DEF Next

\* The requests of people and the changes of Kommo's mode keep their types.
LEMMA PeopleTyped ==
  ASSUME PausesTypeOK, People
  PROVE  /\ mode' \in Modes /\ enabled' \in BOOLEAN /\ admin' \in Requests /\ people' \in Nat
         /\ react' = react
<1>0. mode \in Modes /\ enabled \in BOOLEAN /\ admin \in Requests /\ people \in Nat
  BY DEF PausesTypeOK
<1>1. ASSUME NEW what \in {"pause", "activate", "block", "save"}, Request(what)
      PROVE  /\ admin' \in Requests /\ people' \in Nat /\ UNCHANGED <<mode, enabled, react>>
  BY <1>0, <1>1 DEF Request, Intervenes, Requests
<1>2. CASE AdminUpdatesKommo
  <2>1. mode' \in Modes /\ admin' \in Requests
    BY <1>0, <1>2 DEF AdminUpdatesKommo, Modes, Requests
  <2> QED
    BY <1>0, <1>2, <2>1 DEF AdminUpdatesKommo
<1>3. CASE AdminConfirms \/ AdminWrites \/ AdminResets
  <2>1. admin' \in Requests
    BY <1>3 DEF AdminConfirms, AdminWrites, AdminResets, Requests
  <2> QED
    BY <1>0, <1>3, <2>1 DEF AdminConfirms, AdminWrites, AdminResets
<1>4. ASSUME NEW m \in {"active", "human", "paused"}, OperatorSets(m)
      PROVE  mode' \in Modes /\ people' \in Nat /\ UNCHANGED <<enabled, react, admin>>
  BY <1>0, <1>4 DEF OperatorSets, Intervenes, Modes
<1>5. CASE ToggleAssistant
  <2>1. enabled' \in BOOLEAN
    BY <1>5 DEF ToggleAssistant
  <2>2. people' \in Nat /\ UNCHANGED <<mode, react, admin>>
    BY <1>0, <1>5 DEF ToggleAssistant, Intervenes
  <2> QED
    BY <1>0, <2>1, <2>2
<1> QED
  BY <1>0, <1>1, <1>2, <1>3, <1>4, <1>5 DEF People

LEMMA PausesTyped ==
  ASSUME TypeOK, IInv', [Next]_vars
  PROVE  PausesTypeOK'
<1>0. /\ mode \in Modes /\ enabled \in BOOLEAN /\ admin \in Requests /\ people \in Nat
      /\ react \in React /\ (react.by = NoOne <=> react.step = "off") /\ PausesTypeOK
  BY DEF TypeOK, PausesTypeOK, React
<1> DEFINE Moves == react' = react \/ react' = Idle \/ react'.step # "off"
           Goal == /\ mode' \in Modes /\ enabled' \in BOOLEAN /\ admin' \in Requests
                   /\ people' \in Nat /\ Moves
<1> SUFFICES Goal
  <2> SUFFICES ASSUME Goal PROVE PausesTypeOK'
    OBVIOUS
  <2>1. /\ cust' \in Cust /\ hold' \in Nat /\ react' \in React
        /\ react'.step # "off" => react'.by # NoOne
    BY DEF IInv, Shape, Lock
  <2>2. Idle.by = NoOne /\ Idle.step = "off"
    BY DEF Idle
  <2>3. react'.by = NoOne <=> react'.step = "off"
    BY <1>0, <2>1, <2>2
  <2> QED
    BY <2>1, <2>3 DEF PausesTypeOK, React
<1>1. ASSUME NEW t \in Tasks, TaskStep(t)
      PROVE  Goal
  <2>1. CASE \/ ReadLead(t) \/ ConfirmInitialMode(t) \/ Decide(t) \/ Guards(t)
             \/ FindTarget(t) \/ StoreProof(t) \/ MarkVerified(t) \/ Route(t) \/ RecordRoute(t)
    <3>1. PausesKept
      BY <2>1 DEF ReadLead, ConfirmInitialMode, Decide, Guards, FindTarget, StoreProof,
                  MarkVerified, Route, RecordRoute
    <3> QED
      BY <1>0, <3>1 DEF PausesKept, pauseVars
  <2>2. CASE \/ DraftTool(t) \/ CancelTool(t) \/ EscalateTool(t) \/ HandoffTool(t) \/ CreateTool(t)
             \/ FinalizeTool(t) \/ Check(t) \/ Create(t) \/ Bind(t) \/ Answer(t) \/ Reply(t)
    <3>1. PausesKept
      BY <2>2 DEF DraftTool, CancelTool, EscalateTool, HandoffTool, CreateTool, FinalizeTool,
                  Check, Create, Bind, Answer, Reply
    <3> QED
      BY <1>0, <3>1 DEF PausesKept, pauseVars
  <2>3. CASE InitializeMode(t)
    BY <1>0, <2>3 DEF InitializeMode, WriteInitialMode, Modes
  <2>4. CASE MirrorMode(t) \/ Escalate(t)
    BY <1>0, <2>4 DEF MirrorMode, Escalate
  <2>5. CASE Sync(t)
    BY <1>0, <2>5 DEF Sync, SyncEscalation, Modes
  <2>6. CASE ResumeJob(t) \/ ResumeTurn(t)
    <3>1. Moves
      BY <2>6 DEF ResumeJob, ResumeTurn, Resume, BeginReactivation
    <3> QED
      BY <1>0, <2>6, <3>1 DEF ResumeJob, ResumeTurn, Resume
  <2> QED
    BY <1>1, <2>1, <2>2, <2>3, <2>4, <2>5, <2>6 DEF TaskStep
<1>2. CASE \E t \in Tasks : Fail(t)
  BY <1>0, <1>2 DEF Fail
<1>3. CASE \E t \in Tasks : \E kind \in Kinds : Arrive(t, kind)
  BY <1>0, <1>3 DEF Arrive, PausesKept, pauseVars
<1>4. CASE ReactStep
  <2>1. Moves
    BY <1>0, <1>4 DEF ReactStep, ReactivateInKommo, ReactivationConfirmed, Reactivate, React
  <2>2. mode' \in Modes
    BY <1>0, <1>4 DEF ReactStep, ReactivateInKommo, ReactivationConfirmed, Reactivate, Modes
  <2> QED
    BY <1>0, <1>4, <2>1, <2>2 DEF ReactStep
<1>5. CASE SweepBegins
  BY <1>0, <1>5 DEF SweepBegins, BeginReactivation
<1>6. CASE Crash
  BY <1>0, <1>6 DEF Crash, Requests
<1>7. CASE ExpiryPasses
  BY <1>0, <1>7 DEF ExpiryPasses
<1>8. CASE People
  BY <1>0, <1>8, PeopleTyped
<1>9. CASE OrdersChange \/ UNCHANGED vars
  <2>1. UNCHANGED pauseVars
    BY <1>9 DEF OrdersChange, PausesKept, vars
  <2> QED
    BY <1>0, <2>1 DEF pauseVars
<1> QED
  BY <1>1, <1>2, <1>3, <1>4, <1>5, <1>6, <1>7, <1>8, <1>9 DEF Next

\* create_order keeps the session, and types and numbers the orders.
LEMMA MakesTyped ==
  ASSUME CheckoutTypeOK, Versions, NEW t \in Tasks, Made(t)
  PROVE  CheckoutTypeOK' /\ Versions' /\ gone \subseteq gone'
<1>1. orders' \in Seq(Order) /\ Len(orders') <= MaxOrders
  BY DEF Made, Makes
<1> QED
  BY <1>1 DEF Made, CheckoutTypeOK, Versions

LEMMA CheckoutTyped ==
  ASSUME CheckoutTypeOK, Versions, Quiet \/ \E t \in Tasks : Made(t)
  PROVE  CheckoutTypeOK' /\ Versions' /\ gone \subseteq gone'
<1>1. CASE Unmade
  BY <1>1 DEF Unmade, checkoutVars, CheckoutTypeOK, Versions
<1>2. CASE SessionMoves
  BY <1>2, SessionTyped
<1>3. CASE OrdersMove
  <2>1. orders' \in Seq(Order) /\ Len(orders') <= MaxOrders
    BY <1>3 DEF OrdersMove, CheckoutTypeOK
  <2> QED
    BY <1>3, <2>1 DEF OrdersMove, CheckoutTypeOK, Versions
<1>4. CASE \E t \in Tasks : Made(t)
  BY <1>4, MakesTyped
<1> QED
  BY <1>1, <1>2, <1>3, <1>4 DEF Quiet

LEMMA FreeSound == Free.gone = {} /\ Free.step = "free" /\ Sound(Free)
  BY DEF Free, Sound

LEMMA TasksTyped ==
  ASSUME BuyInv, gone \subseteq gone',
         \/ tasks' = tasks \/ tasks' = [t \in Tasks |-> Free]
         \/ \E t \in Tasks : Plain(t) \/ Marked(t)
  PROVE  tasks' \in [Tasks -> Turn] /\ \A t \in Tasks : Sound(tasks[t])'
<1>0. /\ tasks \in [Tasks -> Turn] /\ \A t \in Tasks : Sound(tasks[t])
      /\ session.version \notin gone
  BY DEF BuyInv, TypeOK, Turn, Versions
<1>1. ASSUME NEW task, task = Free \/ Sound(task)
      PROVE  \A new : new = task => /\ new.gone \subseteq gone'
                                    /\ new.step = "record" => new.agent # "legacy"
                                    /\ new.step \in {"check", "create"}
                                         => new.sess.version \notin new.gone
                                    /\ new.step = "create" => new.sess.draft \in Carts
  BY <1>1, FreeSound DEF Sound
<1>2. CASE tasks' = tasks
  BY <1>0, <1>1, <1>2 DEF Sound
<1>3. CASE tasks' = [t \in Tasks |-> Free]
  <2>1. Free \in Turn
    BY FreeTurn DEF BuyInv
  <2> QED
    BY <1>1, <1>3, <2>1 DEF Sound
<1>4. ASSUME NEW t \in Tasks, NEW new \in Turn, tasks' = [tasks EXCEPT ![t] = new],
             /\ new.gone \subseteq gone'
             /\ new.step = "record" => new.agent # "legacy"
             /\ new.step \in {"check", "create"} => new.sess.version \notin new.gone
             /\ new.step = "create" => new.sess.draft \in Carts
      PROVE  tasks' \in [Tasks -> Turn] /\ \A u \in Tasks : Sound(tasks[u])'
  <2>1. tasks' \in [Tasks -> Turn] /\ tasks'[t] = new
        /\ \A u \in Tasks : u # t => tasks'[u] = tasks[u]
    BY <1>0, <1>4
  <2> SUFFICES ASSUME NEW u \in Tasks PROVE Sound(tasks[u])'
    BY <2>1
  <2>2. CASE u = t
    BY <1>4, <2>1, <2>2 DEF Sound
  <2>3. CASE u # t
    BY <1>0, <1>1, <2>1, <2>3 DEF Sound
  <2> QED
    BY <2>2, <2>3
<1>5. CASE \E t \in Tasks : Plain(t)
  <2> PICK t \in Tasks, new \in Turn :
        /\ tasks' = [tasks EXCEPT ![t] = new]
        /\ \/ new = Free
           \/ /\ tasks[t].step # "free" /\ new.gone = tasks[t].gone
              /\ new.step \notin {"record", "check", "create"}
    BY <1>5 DEF Plain
  <2>1. new.gone \subseteq gone' /\ new.step \notin {"record", "check", "create"}
    BY <1>0, FreeSound DEF Sound
  <2> QED
    BY <1>4, <2>1
<1>6. CASE \E t \in Tasks : Marked(t)
  <2> PICK t \in Tasks, new \in Turn :
        /\ tasks' = [tasks EXCEPT ![t] = new]
        /\ \/ new.gone = gone /\ new.step \in {"lead", "guards"} /\ t \in scope.tasks
           \/ /\ new.gone = tasks[t].gone /\ tasks[t].step # "free"
              /\ \/ new.step = "record" /\ new.agent # "legacy"
                 \/ new.step = "check" /\ new.sess = session /\ "finalize" \in scope.tools
                 \/ /\ new.step = "create" /\ tasks[t].step = "check"
                    /\ new.sess = tasks[t].sess /\ MayOrder(new.sess, new.asked)
    BY <1>6 DEF Marked
  <2>1. /\ tasks[t].gone \subseteq gone
        /\ tasks[t].step = "check" => tasks[t].sess.version \notin tasks[t].gone
    BY <1>0 DEF Sound
  <2>2. CASE new.gone = gone /\ new.step \in {"lead", "guards"}
    BY <1>4, <2>2
  <2>3. CASE new.gone = tasks[t].gone /\ new.step = "record" /\ new.agent # "legacy"
    BY <1>4, <2>1, <2>3
  <2>4. CASE new.gone = tasks[t].gone /\ new.step = "check" /\ new.sess = session
    BY <1>0, <1>4, <2>1, <2>4
  <2>5. CASE /\ new.gone = tasks[t].gone /\ new.step = "create" /\ tasks[t].step = "check"
             /\ new.sess = tasks[t].sess /\ MayOrder(new.sess, new.asked)
    <3>1. new.sess.draft \in Carts
      BY <2>5 DEF MayOrder
    <3> QED
      BY <1>4, <2>1, <2>5, <3>1
  <2> QED
    BY <2>2, <2>3, <2>4, <2>5
<1> QED
  BY <1>2, <1>3, <1>5, <1>6

LEMMA InitBuyInv == Init => BuyInv
<1> SUFFICES ASSUME Init PROVE BuyInv
  OBVIOUS
<1>0. MaxOrders \in Nat /\ MaxDrafts \in Nat /\ scope \in Scope
  BY CheckoutAssumption, TurnsAssumption DEF Init
<1>1. CheckoutTypeOK /\ Versions
  <2>1. session = Fresh /\ orders = <<>> /\ drafts = 0 /\ gone = {} /\ Fresh.version = 0
    BY DEF Init, CheckoutInit, Fresh
  <2>2. orders \in Seq(Order) /\ Len(orders) <= MaxOrders
    BY <1>0, <2>1
  <2>3. drafts \in 0..MaxDrafts /\ session.version <= drafts
    BY <1>0, <2>1
  <2> QED
    BY <2>1, <2>2, <2>3, FreshTyped DEF CheckoutTypeOK, Versions
<1>2. PausesTypeOK
  <2>1. /\ cust \in Cust /\ mode \in Modes /\ react = Idle /\ admin \in Requests /\ hold \in Nat
    BY Rows DEF Init, PausesInit, Modes, Requests
  <2>2. enabled \in BOOLEAN
    BY DEF Init, PausesInit
  <2>3. people \in Nat
    BY <1>0 DEF Init, Scope
  <2>4. Idle.by = NoOne /\ Idle.step = "off" /\ Idle \in React
    BY DEF Idle, React
  <2> QED
    BY <2>1, <2>2, <2>3, <2>4 DEF PausesTypeOK, React
<1>3. scope \in Scopes /\ messages \in 0..scope.messages /\ faults \in 0..scope.faults
  BY <1>0 DEF Init, Scope
<1>4. tasks = [t \in Tasks |-> Free] /\ react.by \notin Tasks
  BY NotReactor DEF Init, PausesInit, Idle
<1>5. Free \in Turn
  BY <1>0, Rows, FreshTyped, TurnsAssumption DEF Free, Turn, Steps, Kinds, Modes, Agents
<1> QED
  BY <1>1, <1>2, <1>3, <1>4, <1>5, FreeSound DEF BuyInv, TypeOK, Turn

LEMMA StepBuyInv == BuyInv /\ IInv /\ IInv' /\ [Next]_vars => BuyInv'
<1> SUFFICES ASSUME BuyInv, IInv, IInv', [Next]_vars PROVE BuyInv'
  OBVIOUS
<1>1. TypeOK /\ Versions /\ CheckoutTypeOK /\ \A t \in Tasks : Sound(tasks[t])
  BY DEF BuyInv, TypeOK
<1>2. CheckoutTypeOK' /\ Versions' /\ gone \subseteq gone'
  BY <1>1, NextMoves, CheckoutTyped
<1>3. PausesTypeOK'
  BY <1>1, PausesTyped
<1>4. /\ scope' = scope
      /\ \/ tasks' = tasks \/ tasks' = [t \in Tasks |-> Free]
         \/ \E t \in Tasks : Plain(t) \/ Marked(t)
  BY NextTasks
<1>5. tasks' \in [Tasks -> Turn] /\ \A t \in Tasks : Sound(tasks[t])'
  BY <1>2, <1>4, TasksTyped
<1>6. /\ scope' \in Scopes
      /\ messages' \in 0..scope'.messages /\ faults' \in 0..scope'.faults
  BY <1>1, <1>4, BoundsTyped DEF TypeOK
<1>7. react'.by \in Tasks => tasks'[react'.by].step \in {"expire", "resume"}
  BY DEF IInv, Lock
<1> QED
  BY <1>2, <1>3, <1>5, <1>6, <1>7 DEF BuyInv, TypeOK, Turn

THEOREM PurchaseInvariant == Spec => []BuyInv
<1>1. Spec => []IInv
  BY TurnsInvariant
<1> QED
  BY <1>1, InitBuyInv, StepBuyInv, PTL DEF Spec

\* A draft that was ordered, cancelled or reset away before the message came is
\* not ordered by its turn: the session it reads may have been renewed since,
\* never gone back.
THEOREM DiscardedIsDiscarded == Spec => []DiscardedStaysDiscarded
<1>1. BuyInv => DiscardedStaysDiscarded
  BY DEF BuyInv, Sound, DiscardedStaysDiscarded, At
<1> QED
  BY <1>1, PurchaseInvariant, PTL

-----------------------------------------------------------------------------
(* One order for one purchase                                              *)

\* The property, in terms of the orders alone.
Distinct(all) ==
    \A i, j \in DOMAIN all :
      i < j => /\ all[i].st = "pending" /\ all[j].st = "pending"
                    => all[i].asked \/ all[j].asked
               /\ all[i].st # "closed" /\ all[j].st # "closed" /\ all[i].recent
                    => all[i].cart # all[j].cart

\* A turn at work is one of the behaviour's; what its checks found still holds
\* when it creates the order.
AloneInv ==
    /\ Distinct(orders)
    /\ \A t \in Tasks :
         /\ tasks[t].step # "free" => t \in scope.tasks
         /\ tasks[t].step \in {"check", "create"} => "finalize" \in scope.tools
         /\ tasks[t].step = "create" /\ ~tasks[t].asked => Numbers({"pending"}) = {}

LEMMA DistinctIs ==
  ASSUME CheckoutTypeOK, Distinct(orders)
  PROVE  OneOrderPerPurchase
<1>1. \A i \in DOMAIN orders : i \in Unpaid => orders[i].st # "closed"
  BY DEF Unpaid, Numbers
<1> QED
  BY <1>1 DEF Distinct, OneOrderPerPurchase

\* No order begins to wait, is unpaid again or changes its content.
Calm == /\ DOMAIN orders' = DOMAIN orders
        /\ \A i \in DOMAIN orders :
             /\ orders'[i].cart = orders[i].cart /\ orders'[i].asked = orders[i].asked
             /\ orders'[i].recent => orders[i].recent
             /\ orders'[i].st = "pending" => orders[i].st = "pending"
             /\ orders'[i].st # "closed" => orders[i].st # "closed"

LEMMA QuietIsCalm ==
  ASSUME CheckoutTypeOK, Versions, Quiet
  PROVE  Calm
<1>1. CASE OrdersMove
  BY <1>1 DEF OrdersMove, Calm
<1>2. CASE orders' = orders
  BY <1>2 DEF Calm
<1> QED
  BY <1>1, <1>2, SessionTyped DEF Quiet, Unmade, checkoutVars

LEMMA CalmKeeps ==
  ASSUME Calm
  PROVE  /\ Distinct(orders) => Distinct(orders)'
         /\ Numbers({"pending"}) = {} => Numbers({"pending"})' = {}
<1>1. ASSUME Distinct(orders) PROVE Distinct(orders)'
  BY <1>1 DEF Calm, Distinct
<1>2. ASSUME Numbers({"pending"}) = {} PROVE Numbers({"pending"})' = {}
  BY <1>2 DEF Calm, Numbers
<1> QED
  BY <1>1, <1>2

\* What create_order makes of the orders keeps them apart, when a purchase that
\* is not asked for as a separate one finds none that waits.
LEMMA MakesDistinct ==
  ASSUME CheckoutTypeOK, NEW all, NEW cart, NEW asked \in BOOLEAN, Makes(all, cart, asked),
         Distinct(orders), asked \/ Numbers({"pending"}) = {}
  PROVE  Distinct(all)
<1> PICK i \in DOMAIN all :
    /\ all \in Seq(Order) /\ Len(all) <= MaxOrders /\ DOMAIN orders \subseteq DOMAIN all
    /\ \A k \in DOMAIN all : k # i => k \in DOMAIN orders /\ all[k] = orders[k]
    /\ all[i].cart = cart
    /\ \/ /\ i \in DOMAIN orders /\ i \in Unpaid /\ orders[i].cart = cart
          /\ all[i].recent = orders[i].recent
          /\ orders[i].asked \/ asked => all[i].asked
          /\ all[i].st = "pending" => orders[i].st \in {"pending", "reserving"}
       \/ /\ i = Len(orders) + 1 /\ SameOpen(cart) = {}
          /\ asked => all[i].asked
  BY DEF Makes
<1>0. /\ orders \in Seq(Order) /\ Len(orders) \in Nat /\ DOMAIN orders = 1..Len(orders)
      /\ DOMAIN all \subseteq Nat
  BY DEF CheckoutTypeOK
<1>1. \A k \in DOMAIN orders : orders[k].st = "pending" => asked
  BY DEF Numbers
<1>2. CASE /\ i \in DOMAIN orders /\ i \in Unpaid /\ orders[i].cart = cart
           /\ all[i].recent = orders[i].recent
           /\ orders[i].asked \/ asked => all[i].asked
           /\ all[i].st = "pending" => orders[i].st \in {"pending", "reserving"}
  <2>1. orders[i].st # "closed"
    BY <1>2 DEF Unpaid, Numbers
  <2> SUFFICES ASSUME NEW j \in DOMAIN all, NEW k \in DOMAIN all, j < k
               PROVE  /\ all[j].st = "pending" /\ all[k].st = "pending"
                           => all[j].asked \/ all[k].asked
                      /\ all[j].st # "closed" /\ all[k].st # "closed" /\ all[j].recent
                           => all[j].cart # all[k].cart
    BY DEF Distinct
  <2>2. j \in DOMAIN orders /\ k \in DOMAIN orders /\ j # k
    BY <1>0, <1>2
  <2>3. /\ orders[j].st = "pending" /\ orders[k].st = "pending"
              => orders[j].asked \/ orders[k].asked
        /\ orders[j].st # "closed" /\ orders[k].st # "closed" /\ orders[j].recent
              => orders[j].cart # orders[k].cart
    BY <2>2 DEF Distinct
  <2>4. CASE j = i
    BY <1>1, <1>2, <2>1, <2>2, <2>3, <2>4
  <2>5. CASE k = i
    BY <1>1, <1>2, <2>1, <2>2, <2>3, <2>5
  <2>6. CASE j # i /\ k # i
    BY <2>3, <2>6
  <2> QED
    BY <2>4, <2>5, <2>6
<1>3. CASE /\ i = Len(orders) + 1 /\ SameOpen(cart) = {}
           /\ asked => all[i].asked
  <2>1. \A k \in DOMAIN orders : orders[k].cart = cart /\ orders[k].recent
                                   => orders[k].st = "closed"
    <3> SUFFICES ASSUME NEW k \in DOMAIN orders, orders[k].cart = cart, orders[k].recent
                 PROVE  orders[k].st = "closed"
      OBVIOUS
    <3>1. orders[k].st \in {"reserving", "pending", "proof", "closed"}
      BY <1>0, OrderFields
    <3> QED
      BY <1>3, <3>1 DEF SameOpen, Unpaid, Numbers
  <2> SUFFICES ASSUME NEW j \in DOMAIN all, NEW k \in DOMAIN all, j < k
               PROVE  /\ all[j].st = "pending" /\ all[k].st = "pending"
                           => all[j].asked \/ all[k].asked
                      /\ all[j].st # "closed" /\ all[k].st # "closed" /\ all[j].recent
                           => all[j].cart # all[k].cart
    BY DEF Distinct
  <2>2. j \in DOMAIN orders /\ all[j] = orders[j] /\ (k # i => k \in DOMAIN orders /\ all[k] = orders[k])
    <3>1. j # i
      <4> SUFFICES ASSUME j = i PROVE FALSE
        OBVIOUS
      <4>1. k \in 1..Len(orders)
        BY <1>0
      <4> QED
        BY <1>0, <1>3, <4>1
    <3> QED
      BY <3>1
  <2>3. CASE k = i
    BY <1>1, <1>3, <2>1, <2>2, <2>3
  <2>4. CASE k # i
    BY <2>2, <2>4 DEF Distinct
  <2> QED
    BY <2>3, <2>4
<1> QED
  BY <1>2, <1>3

LEMMA WorkersAlone ==
  ASSUME BuysAlone, BuyInv, AloneInv, NEW t \in Tasks, NEW u \in Tasks,
         tasks[t].step # "free", tasks[u].step \in {"check", "create"}
  PROVE  t = u
<1>1. t \in scope.tasks /\ u \in scope.tasks /\ "finalize" \in scope.tools /\ scope \in Scopes
  BY DEF AloneInv, BuyInv, TypeOK
<1> QED
  BY <1>1 DEF BuysAlone

LEMMA InitAlone == Init => AloneInv
  BY DEF Init, CheckoutInit, Free, AloneInv, Distinct

LEMMA QuietAlone ==
  ASSUME BuyInv, AloneInv, Quiet, scope' = scope,
         \/ tasks' = tasks \/ tasks' = [t \in Tasks |-> Free]
         \/ \E t \in Tasks : Plain(t) \/ Marked(t)
  PROVE  AloneInv'
<1>1. Calm /\ tasks \in [Tasks -> Turn]
  BY QuietIsCalm DEF BuyInv, TypeOK, Turn
<1>2. Distinct(orders)' /\ (Numbers({"pending"}) = {} => Numbers({"pending"})' = {})
  BY <1>1, CalmKeeps DEF AloneInv
<1>3. CASE tasks' = tasks
  BY <1>2, <1>3 DEF AloneInv
<1>4. CASE tasks' = [t \in Tasks |-> Free]
  BY <1>2, <1>4, FreeSound DEF AloneInv
<1>5. ASSUME NEW t \in Tasks, NEW new \in Turn, tasks' = [tasks EXCEPT ![t] = new],
             new.step # "free" => t \in scope.tasks,
             new.step \in {"check", "create"} => "finalize" \in scope.tools,
             new.step = "create" /\ ~new.asked => Numbers({"pending"}) = {}
      PROVE  AloneInv'
  <2>1. tasks'[t] = new /\ \A u \in Tasks : u # t => tasks'[u] = tasks[u]
    BY <1>1, <1>5
  <2>2. ASSUME NEW u \in Tasks
        PROVE  /\ tasks'[u].step # "free" => u \in scope'.tasks
               /\ tasks'[u].step \in {"check", "create"} => "finalize" \in scope'.tools
               /\ tasks'[u].step = "create" /\ ~tasks'[u].asked => Numbers({"pending"})' = {}
    <3>1. CASE u = t
      BY <1>2, <1>5, <2>1, <3>1
    <3>2. CASE u # t
      BY <1>2, <2>1, <3>2 DEF AloneInv
    <3> QED
      BY <3>1, <3>2
  <2> QED
    BY <1>2, <2>2 DEF AloneInv
<1>6. CASE \E t \in Tasks : Plain(t)
  <2> PICK t \in Tasks, new \in Turn :
        /\ tasks' = [tasks EXCEPT ![t] = new]
        /\ \/ new = Free
           \/ /\ tasks[t].step # "free" /\ new.gone = tasks[t].gone
              /\ new.step \notin {"record", "check", "create"}
    BY <1>6 DEF Plain
  <2> QED
    BY <1>5, FreeSound DEF AloneInv
<1>7. CASE \E t \in Tasks : Marked(t)
  <2> PICK t \in Tasks, new \in Turn :
        /\ tasks' = [tasks EXCEPT ![t] = new]
        /\ \/ new.gone = gone /\ new.step \in {"lead", "guards"} /\ t \in scope.tasks
           \/ /\ new.gone = tasks[t].gone /\ tasks[t].step # "free"
              /\ \/ new.step = "record" /\ new.agent # "legacy"
                 \/ new.step = "check" /\ new.sess = session /\ "finalize" \in scope.tools
                 \/ /\ new.step = "create" /\ tasks[t].step = "check"
                    /\ new.sess = tasks[t].sess /\ MayOrder(new.sess, new.asked)
    BY <1>7 DEF Marked
  <2>1. tasks[t].step # "free" => t \in scope.tasks
    BY DEF AloneInv
  <2>2. CASE new.step \notin {"check", "create"}
    BY <1>5, <2>1, <2>2
  <2>3. CASE new.step = "check" /\ tasks[t].step # "free" /\ "finalize" \in scope.tools
    BY <1>5, <2>1, <2>3
  <2>4. CASE new.step = "create" /\ tasks[t].step = "check" /\ MayOrder(new.sess, new.asked)
    <3>1. "finalize" \in scope.tools
      BY <2>4 DEF AloneInv
    <3>2. ~new.asked => Numbers({"pending"}) = {}
      BY <2>4 DEF MayOrder
    <3> QED
      BY <1>5, <2>1, <2>4, <3>1, <3>2
  <2> QED
    BY <2>2, <2>3, <2>4
<1> QED
  BY <1>3, <1>4, <1>6, <1>7

LEMMA MadeAlone ==
  ASSUME BuysAlone, BuyInv, AloneInv, NEW t \in Tasks, Made(t), Plain(t), scope' = scope
  PROVE  AloneInv'
<1>0. CheckoutTypeOK /\ tasks \in [Tasks -> Turn] /\ tasks[t].asked \in BOOLEAN
  BY DEF BuyInv, TypeOK, Turn
<1>1. Distinct(orders)'
  <2>1. CASE \E cart \in Carts : Makes(orders', cart, TRUE)
    <3>1. Distinct(orders')
      BY <1>0, <2>1, MakesDistinct DEF AloneInv
    <3> QED
      BY <3>1 DEF Distinct
  <2>2. CASE tasks[t].step = "create" /\ \E cart \in Carts : Makes(orders', cart, tasks[t].asked)
    <3>1. tasks[t].asked \/ Numbers({"pending"}) = {}
      BY <2>2 DEF AloneInv
    <3>2. Distinct(orders')
      BY <1>0, <2>2, <3>1, MakesDistinct DEF AloneInv
    <3> QED
      BY <3>2 DEF Distinct
  <2> QED
    BY <2>1, <2>2 DEF Made
<1>2. tasks[t].step # "free"
  BY DEF Made
<1> PICK new \in Turn :
      /\ tasks' = [tasks EXCEPT ![t] = new]
      /\ \/ new = Free
         \/ /\ tasks[t].step # "free" /\ new.gone = tasks[t].gone
            /\ new.step \notin {"record", "check", "create"}
  BY DEF Plain
<1>3. new.step \notin {"check", "create"}
  BY FreeSound
<1>4. tasks'[t] = new /\ \A u \in Tasks : u # t => tasks'[u] = tasks[u]
  BY <1>0
<1>5. ASSUME NEW u \in Tasks
      PROVE  /\ tasks'[u].step # "free" => u \in scope'.tasks
             /\ tasks'[u].step \notin {"check", "create"}
  <2>1. CASE u = t
    BY <1>2, <1>3, <1>4, <2>1 DEF AloneInv
  <2>2. CASE u # t
    <3>1. tasks[u].step \notin {"check", "create"}
      BY <1>2, <2>2, WorkersAlone
    <3> QED
      BY <1>4, <2>2, <3>1 DEF AloneInv
  <2> QED
    BY <2>1, <2>2
<1> QED
  BY <1>1, <1>5 DEF AloneInv

LEMMA StepAlone == BuysAlone /\ BuyInv /\ IInv /\ IInv' /\ AloneInv /\ [Next]_vars => AloneInv'
<1> SUFFICES ASSUME BuysAlone, BuyInv, IInv, IInv', AloneInv, [Next]_vars PROVE AloneInv'
  OBVIOUS
<1>1. /\ scope' = scope
      /\ \/ tasks' = tasks \/ tasks' = [t \in Tasks |-> Free]
         \/ \E t \in Tasks : Plain(t) \/ Marked(t)
  BY NextTasks
<1>2. Quiet \/ \E t \in Tasks : Made(t) /\ Plain(t)
  BY NextMoves DEF BuyInv
<1> QED
  BY <1>1, <1>2, QuietAlone, MadeAlone

\* A customer whose checkouts come one after the other does not end up with two
\* orders for one purchase (finalize_checkout's checks, create_order's match),
\* whatever crashes, time-outs, failed reservations and resets come between.
THEOREM PurchasedOnce == BuysAlone => (Spec => []OneOrderPerPurchase)
<1> SUFFICES ASSUME BuysAlone PROVE Spec => []OneOrderPerPurchase
  OBVIOUS
<1>1. Spec => []BuyInv /\ []IInv
  BY TurnsInvariant, PurchaseInvariant
<1>2. BuyInv /\ IInv /\ IInv' /\ AloneInv /\ [Next]_vars => AloneInv'
  BY StepAlone
<1>3. Init => AloneInv
  BY InitAlone
<1>4. BuyInv /\ AloneInv => OneOrderPerPurchase
  BY DistinctIs DEF BuyInv, TypeOK, AloneInv
<1> QED
  BY <1>1, <1>2, <1>3, <1>4, PTL DEF Spec
=============================================================================
