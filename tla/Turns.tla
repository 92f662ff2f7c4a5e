-------------------------------- MODULE Turns --------------------------------
(***************************************************************************)
(* The turns of one customer, from the message to the reply: the gate of a *)
(* Kommo job (_launch_salesbot_for_job, store/app/integrations/kommo), the *)
(* engine (store/app/ai/engine.py), the router and the agent that runs     *)
(* tools (routing.py, runner.py, tools/), over the pauses of module Pauses *)
(* and the purchase of module Checkout.                                    *)
(*                                                                         *)
(* A turn is a chain of separate statements and calls: pauses, resets, the *)
(* sweep and other turns of the customer come between any two of them.     *)
(* Texts, models and prompts are left out: the message is of one of four   *)
(* kinds, and the model calls whichever tools its agent may use.           *)
(***************************************************************************)
EXTENDS Pauses

CONSTANTS Scopes, \* bounds of a behaviour: delivery, agents, tasks, messages
          Rounds  \* max_tool_rounds

\* "human" asks for a person or insults, "simple" is a comment, an invitation
\* or the exchange rate, "proof" a payment screenshot, "talk" goes to an agent.
Kinds == {"human", "simple", "proof", "talk"}
Tools == {"draft", "finalize", "cancel", "create", "escalate", "handoff"}
Scope == [provider : {"meta", "kommo"}, agents : {"legacy", "multi_agent"}, tasks : SUBSET Tasks,
          kinds : SUBSET Kinds, tools : SUBSET Tools,
          messages : Nat, people : Nat, faults : Nat]
ASSUME TurnsAssumption ==
    /\ \A s \in Scopes : s \in Scope
    /\ Rounds \in Nat

VARIABLES scope,    \* of this behaviour; no step changes it
          tasks,    \* the turns at work
          messages, \* bound: messages still to come
          faults    \* bound: errors and crashes still to come

turnVars == <<tasks, messages, faults>>
vars == <<scope, turnVars, pauseVars, checkoutVars>>

Agents == {"legacy", "checkout", "sales", "support"}

\* "seen", "row" and "sess" are the turn's copies of the AI Mode, the customer
\* and the session; "used" are the single-use tools, "order" the one in hand.
\* "hold", "gone" and "since" are history: pause, discarded drafts and orders
\* at the turn's start.
Free == [step |-> "free", kind |-> "talk", seen |-> "none", row |-> Active, sess |-> Fresh,
         agent |-> "legacy", rounds |-> 0, used |-> {}, asked |-> FALSE, order |-> 0,
         hold |-> 0, gone |-> {}, since |-> 0]

Steps == {"free", "lead", "again", "init", "initread", "mirror", "expire", "decide",
          "guards", "resume", "escalate", "sync", "target", "proof", "verified", "route",
          "record", "llm", "check", "create", "bind", "reply"}

TypeOK ==
    /\ CheckoutTypeOK /\ PausesTypeOK
    /\ scope \in Scopes /\ messages \in 0..scope.messages /\ faults \in 0..scope.faults
    /\ tasks \in [Tasks -> [step : Steps, kind : Kinds, seen : Modes, row : Cust,
                            sess : Session, agent : Agents, rounds : 0..Rounds,
                            used : SUBSET Tools, asked : BOOLEAN, order : 0..MaxOrders,
                            hold : Nat, gone : SUBSET (1..MaxDrafts), since : 0..MaxOrders]]
    /\ react.by \in Tasks => tasks[react.by].step \in {"expire", "resume"}

Init ==
    /\ scope \in Scopes
    /\ tasks = [t \in Tasks |-> Free]
    /\ messages = scope.messages /\ faults = scope.faults /\ people = scope.people
    /\ PausesInit(scope.provider) /\ CheckoutInit

\* The step goes on with t changed; the turn is over.
Set(t, new) == tasks' = [tasks EXCEPT ![t] = new]
Goto(t, step) == Set(t, [tasks[t] EXCEPT !.step = step])
Done(t) == Set(t, Free)
At(t, step) == tasks[t].step = step

Others == UNCHANGED <<scope, messages, faults>>
PausesKept == UNCHANGED pauseVars
CheckoutKept == UNCHANGED checkoutVars
Fault == faults > 0 /\ faults' = faults - 1

-----------------------------------------------------------------------------
(* The gate of a Kommo job                                                 *)

Arrive(t, kind) ==
    /\ At(t, "free") /\ messages > 0
    /\ t \in scope.tasks /\ kind \in scope.kinds
    /\ messages' = messages - 1
    /\ Set(t, [Free EXCEPT !.step = IF Kommo THEN "lead" ELSE "guards", !.kind = kind,
                           !.hold = hold, !.gone = gone, !.since = Len(orders)])
    /\ UNCHANGED <<scope, faults>> /\ PausesKept /\ CheckoutKept

\* get_lead, and the second read of ensure_ai_mode_initialized.
ReadLead(t) ==
    /\ \/ At(t, "lead")
          /\ Set(t, [tasks[t] EXCEPT !.seen = mode,
                                     !.step = IF mode = "empty" THEN "again" ELSE "mirror"])
       \/ At(t, "again")
          /\ Set(t, [tasks[t] EXCEPT !.seen = mode,
                                     !.step = IF mode = "empty" THEN "init" ELSE "mirror"])
    /\ Others /\ PausesKept /\ CheckoutKept

\* Its update, and the read that has to confirm it.
InitializeMode(t) ==
    /\ At(t, "init")
    /\ WriteInitialMode /\ Goto(t, "initread")
    /\ Others /\ CheckoutKept
    /\ UNCHANGED <<cust, enabled, react, admin, hold, people>>
ConfirmInitialMode(t) ==
    /\ At(t, "initread")
    /\ IF mode = "active" THEN Set(t, [tasks[t] EXCEPT !.seen = mode, !.step = "mirror"])
                          ELSE Done(t)
    /\ Others /\ PausesKept /\ CheckoutKept

\* sync_local_state_from_ai_mode; the row it returns is the turn's.
MirrorMode(t) ==
    /\ At(t, "mirror")
    /\ Mirror(tasks[t].seen)
    /\ Set(t, [tasks[t] EXCEPT !.row = cust', !.step = "expire"])
    /\ Others /\ CheckoutKept
    /\ UNCHANGED <<mode, enabled, react, admin, people>>

\* reactivate_if_expired for the row that the turn has read: skipped when that
\* is not expired, or when the row itself, once locked, is not.
Resume(t, next) ==
    /\ react.by # t
    /\ \/ BeginReactivation(t) /\ Expired(tasks[t].row) /\ UNCHANGED tasks
       \/ /\ ~Expired(tasks[t].row) \/ (Unlocked /\ ~Expired(cust))
          /\ Goto(t, next) /\ UNCHANGED react
    /\ Others /\ CheckoutKept
    /\ UNCHANGED <<cust, mode, enabled, admin, hold, people>>
ResumeJob(t) == At(t, "expire") /\ Resume(t, "decide")

\* evaluate_automation_state; a message that is not answered is stored.
Decide(t) ==
    /\ At(t, "decide")
    /\ IF enabled /\ tasks[t].row.state = "active" /\ tasks[t].seen = "active"
         THEN Goto(t, "guards") ELSE Done(t)
    /\ Others /\ PausesKept /\ CheckoutKept

-----------------------------------------------------------------------------
(* generate_response                                                       *)

Begin(kind) == CASE kind = "human" -> "escalate" [] kind = "simple" -> "reply"
                 [] kind = "proof" -> "target"   [] kind = "talk" -> "route"

\* Mutant: an escalation is not looked at.
GuardsBlockedOnly(t) ==
    /\ At(t, "guards")
    /\ IF ~enabled \/ cust.state = "blocked" THEN Done(t) ELSE Goto(t, Begin(tasks[t].kind))
    /\ Others /\ PausesKept /\ CheckoutKept

\* The settings and the customer's row, read again.
Guards(t) ==
    /\ At(t, "guards")
    /\ IF cust.state = "escalated" /\ Expired(cust)
         THEN Set(t, [tasks[t] EXCEPT !.row = cust, !.step = "resume"])
       ELSE IF ~enabled \/ cust.state # "active" THEN Done(t)
       ELSE Goto(t, Begin(tasks[t].kind))
    /\ Others /\ PausesKept /\ CheckoutKept

\* Only a reactivation of its own lets the turn go on.
ResumeTurn(t) == At(t, "resume") /\ Resume(t, "free")

\* A reactivation's next step; its result is what the turn waits for.
ReactStep ==
    LET t == react.by
        resumed == [tasks[t] EXCEPT !.row = Active,
                      !.seen = IF Kommo THEN "active" ELSE @,
                      !.step = IF At(t, "expire") THEN "decide"
                               ELSE IF enabled THEN Begin(tasks[t].kind) ELSE "free"]
        failed == IF At(t, "expire") THEN [tasks[t] EXCEPT !.step = "decide"] ELSE Free
    IN
    /\ \/ ReactivateInKommo /\ UNCHANGED <<cust, hold>> /\ CheckoutKept
       \/ ReactivationConfirmed /\ UNCHANGED <<cust, hold>> /\ CheckoutKept
       \/ Reactivate /\ UNCHANGED hold
    /\ IF t = Sweep \/ react'.by = t THEN UNCHANGED tasks
       ELSE Set(t, IF react.step = "local" THEN resumed ELSE failed)
    /\ Others
    /\ UNCHANGED <<enabled, admin, people>>

\* Hostile messages, requests for a person, and the tool escalate_to_human.
Escalate(t) ==
    /\ At(t, "escalate")
    /\ EscalateAutomatically
    /\ Goto(t, "sync")
    /\ Others /\ CheckoutKept
    /\ UNCHANGED <<mode, enabled, react, admin, people>>
Sync(t) ==
    /\ At(t, "sync")
    /\ SyncEscalation
    /\ Goto(t, IF tasks[t].kind = "talk" THEN "llm" ELSE "reply")
    /\ Others /\ CheckoutKept
    /\ UNCHANGED <<cust, enabled, react, admin, hold, people>>

\* verify_payment_proof: the order, the verdict on the screenshot, the status.
FindTarget(t) ==
    /\ At(t, "target")
    /\ \/ PaymentTarget # 0 /\ orders[PaymentTarget].st = "proof" /\ Goto(t, "verified")
       \/ PaymentTarget # 0 /\ orders[PaymentTarget].st # "proof"
          /\ Set(t, [tasks[t] EXCEPT !.order = PaymentTarget, !.step = "proof"])
       \/ (PaymentTarget # 0 => orders[PaymentTarget].st # "proof") /\ Goto(t, "reply")
    /\ Others /\ PausesKept /\ CheckoutKept
StoreProof(t) ==
    LET i == tasks[t].order IN
    /\ At(t, "proof")
    /\ IF orders[i].st = "pending" THEN RecordProof(i) /\ Goto(t, "verified")
                                   ELSE CheckoutKept /\ Goto(t, "reply")
    /\ Others /\ PausesKept
\* _mark_session_payment_verified
MarkVerified(t) ==
    /\ At(t, "verified")
    /\ SetCurrentOrder(0, "completed") /\ Goto(t, "reply")
    /\ Others /\ PausesKept

\* The route: an open checkout keeps the conversation.
Route(t) ==
    /\ At(t, "route")
    /\ \E agent \in Agents :
         /\ scope.agents = "legacy" => agent = "legacy"
         /\ scope.agents = "multi_agent" /\ session.stage \in {"collecting", "ready"}
              => agent = "checkout"
         /\ Set(t, [tasks[t] EXCEPT !.agent = agent,
                                    !.step = IF agent = "legacy" THEN "llm" ELSE "record"])
    /\ Others /\ PausesKept /\ CheckoutKept
\* _record_active_route
RecordRoute(t) ==
    /\ At(t, "record")
    /\ SetStage(IF tasks[t].agent = "checkout" THEN "collecting" ELSE tasks[t].agent)
    /\ Goto(t, "llm")
    /\ Others /\ PausesKept

-----------------------------------------------------------------------------
(* AgentRunner.run                                                         *)

MayUse(t, tool) ==
    /\ At(t, "llm") /\ tasks[t].rounds < Rounds
    /\ tool \in scope.tools \ tasks[t].used
    /\ tool \in CASE tasks[t].agent = "legacy" -> {"draft", "finalize", "cancel", "create", "escalate"}
                  [] tasks[t].agent = "checkout" -> {"draft", "finalize", "cancel"}
                  [] tasks[t].agent = "sales" -> {"handoff"}
                  [] tasks[t].agent = "support" -> {"escalate"}
Round(t) == [tasks[t] EXCEPT !.rounds = @ + 1]
Once(t, tool) == [Round(t) EXCEPT !.used = @ \cup {tool}]

DraftTool(t) ==
    /\ MayUse(t, "draft")
    /\ \E draft \in Carts \cup {"partial"} : UpdateDraft(draft)
    /\ Set(t, Round(t))
    /\ Others /\ PausesKept
CancelTool(t) ==
    /\ MayUse(t, "cancel")
    /\ ResetSession /\ Set(t, Round(t))
    /\ Others /\ PausesKept
EscalateTool(t) ==
    /\ MayUse(t, "escalate")
    /\ Set(t, [Once(t, "escalate") EXCEPT !.step = "escalate"])
    /\ Others /\ PausesKept /\ CheckoutKept
HandoffTool(t) ==
    /\ MayUse(t, "handoff")
    /\ Set(t, Once(t, "handoff"))
    /\ Others /\ PausesKept /\ CheckoutKept

\* create_order, the tool of the single agent: no draft, no question asked.
CreateTool(t) ==
    /\ MayUse(t, "create")
    /\ \E cart \in Carts : \E made \in CreateOrder(cart, TRUE) :
         /\ orders' = made.all
         /\ Set(t, IF made.order > 0 THEN Once(t, "create") ELSE Round(t))
    /\ Others /\ PausesKept
    /\ UNCHANGED <<session, drafts, gone>>

\* finalize_checkout: the session, the checks, the order, the session.
FinalizeTool(t) ==
    /\ MayUse(t, "finalize")
    /\ \E startNew \in BOOLEAN :
         Set(t, [Round(t) EXCEPT !.sess = session, !.asked = startNew, !.step = "check"])
    /\ Others /\ PausesKept /\ CheckoutKept
Check(t) ==
    LET s == tasks[t].sess IN
    /\ At(t, "check")
    /\ IF MayOrder(s, tasks[t].asked) THEN Goto(t, "create")
       ELSE Set(t, [tasks[t] EXCEPT !.used = @ \cup {"finalize"}, !.sess = Fresh,
                                    !.asked = FALSE, !.step = "llm"])
    /\ Others /\ PausesKept /\ CheckoutKept
Create(t) ==
    LET over == [tasks[t] EXCEPT !.used = @ \cup {"finalize"}, !.sess = Fresh, !.asked = FALSE] IN
    /\ At(t, "create")
    /\ \E made \in CreateOrder(tasks[t].sess.draft, tasks[t].asked) :
         /\ orders' = made.all
         /\ Set(t, IF made.order = Raised THEN Free
                   ELSE IF made.order = 0 THEN [over EXCEPT !.step = "llm"]
                   ELSE [over EXCEPT !.order = made.order, !.step = "bind"])
    /\ Others /\ PausesKept
    /\ UNCHANGED <<session, drafts, gone>>
Bind(t) ==
    /\ At(t, "bind")
    /\ SetCurrentOrder(tasks[t].order, "waiting")
    /\ Set(t, [tasks[t] EXCEPT !.order = 0, !.step = "llm"])
    /\ Others /\ PausesKept

\* The answer of the model; a handoff takes effect for the next turn.
Answer(t) ==
    /\ At(t, "llm")
    /\ Goto(t, "reply")
    /\ IF "handoff" \in tasks[t].used THEN SetStage("collecting") ELSE CheckoutKept
    /\ Others /\ PausesKept
Reply(t) ==
    /\ At(t, "reply")
    /\ Done(t)
    /\ Others /\ PausesKept /\ CheckoutKept

-----------------------------------------------------------------------------
(* Failures and time                                                       *)

\* Mutant: the lock of a turn outlives it.
FailKeepsLock(t) ==
    /\ ~At(t, "free") /\ Fault
    /\ Done(t)
    /\ UNCHANGED <<scope, messages, cust, mode, enabled, react, admin, hold, people>> /\ CheckoutKept

\* An error of a service or AI_TURN_TIMEOUT_SECONDS ends a turn; its
\* transaction, if it is in one, is rolled back.
Fail(t) ==
    /\ ~At(t, "free") /\ Fault
    /\ Done(t)
    /\ react' = IF react.by = t THEN Idle ELSE react
    /\ UNCHANGED <<scope, messages, cust, mode, enabled, admin, hold, people>> /\ CheckoutKept

\* The process stops and starts again.
Crash ==
    /\ Fault
    /\ tasks' = [t \in Tasks |-> Free]
    /\ react' = Idle /\ admin' = "free"
    /\ UNCHANGED <<scope, messages, cust, mode, enabled, hold, people>> /\ CheckoutKept

\* A turn is over long before an order that it made is thirty minutes old.
TimeAges(i) ==
    /\ \A t \in Tasks : ~At(t, "free") => tasks[t].since >= i
    /\ OrderAges(i)

SweepBegins ==
    /\ BeginReactivation(Sweep)
    /\ UNCHANGED <<scope, turnVars, cust, mode, enabled, admin, hold, people>> /\ CheckoutKept

People ==
    \/ /\ \/ \E what \in {"pause", "activate", "block", "save"} : Request(what)
          \/ AdminUpdatesKommo \/ AdminConfirms \/ AdminWrites
          \/ \E m \in {"active", "human", "paused"} : OperatorSets(m)
          \/ ToggleAssistant
       /\ CheckoutKept
    \/ AdminResets
ExpiryPasses ==
    /\ ExpiryDue
    /\ UNCHANGED <<scope, turnVars, mode, enabled, react, admin, hold, people>> /\ CheckoutKept
OrdersChange ==
    /\ \E i \in DOMAIN orders : OrderCloses(i) \/ TimeAges(i)
    /\ PausesKept

-----------------------------------------------------------------------------
TaskStep(t) ==
    \/ ReadLead(t) \/ InitializeMode(t) \/ ConfirmInitialMode(t) \/ MirrorMode(t)
    \/ ResumeJob(t) \/ Decide(t) \/ Guards(t) \/ ResumeTurn(t)
    \/ Escalate(t) \/ Sync(t) \/ FindTarget(t) \/ StoreProof(t) \/ MarkVerified(t)
    \/ Route(t) \/ RecordRoute(t)
    \/ DraftTool(t) \/ CancelTool(t) \/ EscalateTool(t) \/ HandoffTool(t) \/ CreateTool(t)
    \/ FinalizeTool(t) \/ Check(t) \/ Create(t) \/ Bind(t) \/ Answer(t) \/ Reply(t)

Next ==
    \/ \E t \in Tasks : TaskStep(t) \/ Fail(t) \/ \E kind \in Kinds : Arrive(t, kind)
    \/ ReactStep \/ SweepBegins \/ ExpiryPasses
    \/ (People \/ OrdersChange) /\ UNCHANGED <<scope, turnVars>>
    \/ Crash

Spec == Init /\ [][Next]_vars

(***************************************************************************)
(* Fairness: the event loop, the scheduler's sweep and time.  Kommo does   *)
(* not fail for ever: an update and its confirmation, tried again and      *)
(* again, succeed in the end.  Nobody owes a message or an intervention.   *)
(***************************************************************************)
FairSpec ==
    /\ Spec
    /\ \A t \in Tasks : WF_vars(TaskStep(t))
    /\ WF_vars(ReactStep) /\ WF_vars(SweepBegins) /\ WF_vars(ExpiryPasses)
    /\ SF_vars(ReactStep /\ react'.by # NoOne)
    /\ SF_vars(ReactStep /\ react.step = "confirm" /\ react'.step = "local")

-----------------------------------------------------------------------------
(* Properties                                                              *)

\* The leases of a conversation let its turns check out one after the other.
BuysAlone == \A s \in Scopes : "finalize" \in s.tools => \A t, u \in s.tasks : t = u

\* A conversation that a person has paused, in the panel, in Telegram or in
\* Kommo, stays silent until the pause is taken back, by a person or, if it
\* came from Kommo, by Kommo's AI Mode: a turn that begins after the pause does
\* not reply, whatever expires, escalates, mirrors or is in flight meanwhile.
SilentWhilePaused == \A t \in Tasks : At(t, "reply") => ~(Held /\ tasks[t].hold = hold)

\* A draft that was ordered, cancelled or reset away before the message came is
\* not ordered by its turn.
DiscardedStaysDiscarded ==
    /\ TypeOK
    /\ \A t \in Tasks : At(t, "create") => tasks[t].sess.version \notin tasks[t].gone

\* An automatic escalation does not outlive its expiry: the sweep, or the
\* customer's next message, gives the conversation back to the assistant.
ExpiredIsResumed == Expired(cust) ~> ~Expired(cust)
=============================================================================
