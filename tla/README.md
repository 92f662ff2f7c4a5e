# Verification of the Social-Media-Manager store and its master

This directory holds TLA+ models of the parts of the store service (`store/app`)
and of the control plane (`master/app`) that coordinate several actors over
durable state. TLC checks small instances of each model; TLAPS proves the safety
properties that the runs check for instances of any size (section 4).

`PROJECT.json` lists the components, the runs, the source lines of every
definition, the hazards the properties are aimed at, the disagreements found
between code and documentation, and the theorems.

## 1. The system

A *store* is one FastAPI process (`store/DEPLOYMENT.md`: a single instance with a
single worker) with a PostgreSQL database, a Google Sheet as catalog and stock,
Meta's Graph API (WhatsApp and Instagram) or Kommo as channel, language models,
and an APScheduler loop for periodic jobs. A *master* service keeps the list of
stores and their credentials, deploys them to Railway, writes settings and
exchange rates into their databases and checks their health.

| Component | State | Operations | Hard behaviour | Modules |
|---|---|---|---|---|
| Orders, `crm/orders.py`, `catalog/sheets.py` | `orders`, `payment_proof_replays`, the sheet's stock and ledger, the ledger cache | create, delete, payment update, release of expired reservations | a two-system saga: lost answers, crashes between steps, payments that do not take the inventory lock | `Orders` |
| Meta inbound, `webhooks/inbound_buffer.py` | `meta_inbound_jobs`, `meta_inbound_receipts`, worker tasks | enqueue, two claims, process, heartbeat, requeue, recover | duplicate deliveries, leases that expire under a live worker, sends of unknown outcome, merges with newer messages | `MetaInbound` |
| Broadcasts, `broadcast/sender.py`, `broadcast/api.py` | `broadcasts`, `broadcast_deliveries` | create, execute, recover, reset, retry | a crash in mid-campaign, reset of a running campaign, slow tasks | `Broadcast` |
| Kommo jobs over the Salesbot, `integrations/kommo/jobs.py`, `webhooks/kommo.py` | `kommo_message_jobs`, receipts, AI Mode of a lead | intake, two claims, launch, callback, turn, continuation, recovery, takeover | callbacks late, lost or repeated, continuations of unknown outcome, operators who step in | `KommoJobs` |
| Kommo jobs over the Chats API, `jobs.py`, `delivery.py`, `files.py` | the same jobs, `kommo_outbound_deliveries`, media cache | claim, fence, send, report, rescue, reconcile, native comment callback | a send that cannot be taken back, reports that come late or never, a comment that supersedes a private job | `KommoDirect` |
| Meta context, `integrations/meta_context/` | context events, waiting jobs, `instagram_content` | ingest, correlate, enrich, backfill, release | events in any order, ambiguous matches, deadlines, several tasks on the same rows | `MetaContext` |
| Pauses, `crm/escalations.py`, `integrations/kommo/state.py`, `admin/` | conversation state of a customer, AI Mode of the lead | escalate, pause, mirror, expire, activate, block, reset | two copies of one fact, a row lock held across HTTP, expiry against an operator | `Pauses` |
| Session and checkout, `crm/sessions.py`, `ai/checkout/`, `ai/payment/verifier.py` | the workflow session, its draft, the customer's orders | merge a draft, finalize, bind, cancel, reset, payment proof | concurrent turns on one draft, stale copies | `Checkout`, `Drafts` |
| Engine, routing, runner, tools, `ai/` | none durable | gate, guards, router, tool rounds | everything above comes between two statements of a turn | `Turns` |
| Delivery policy and catalog look-up, `shipping.py`, `catalog/sheets.py` | settings, catalog cache | quote, match | they change between the steps of a call | `Drafts` |
| Master, `master/app/stores/`, `railway/`, `exchange_rates/`, `health.py` | `stores`, `store_credentials`, Railway variables, settings of each store's database | set up, edit, pause, rotate and delete keys, deploy, refresh and copy rates, poll | deploys beside deletions, lost answers, stale rows, overlapping edits | `Master` |
| Customers, senders, scheduler, settings, Telegram | various | request handlers | modelled where they disturb a module above | see `PROJECT.json` |
| Channel mappings, retention, analytics, authentication, dashboards | various | look-ups, batch jobs, browser code | - | not modelled |

Interaction: webhooks write queue rows and answer at once; scheduler jobs and
accelerator tasks claim rows and run turns; a turn may call `create_order` or
attach a payment proof; the dashboard, Telegram and the campaign API call the
same operations directly; the master writes into the store's database and
restarts the store. The serialising devices are transactions, row locks,
`SKIP LOCKED` claims, lease tokens, partial unique indexes and two kinds of
advisory locks (one per sender, one for the inventory).

## 2. Modules

| Module | Models | Extends, uses |
|---|---|---|
| `Answers` | **abstract**: what a customer who writes is promised, whatever the channel | - |
| `MetaInbound` | the inbound queue, its workers and sends | implements `Answers` |
| `KommoJobs` | the jobs of WhatsApp messages that go through a Kommo Salesbot | implements `Answers` |
| `KommoDirect` | the jobs of Instagram messages answered over the Chats API, with the ledger of sends | implements `Answers` |
| `MetaContext` | the search for the comment or story behind an Instagram message | its release is the action `ContextReleased` of `KommoDirect` |
| `Orders` | the reservation saga, payments, customer totals | - |
| `Broadcast` | one campaign, its ledger, the tasks working on it | - |
| `Checkout` | session, drafts, orders of one customer, as single statements | - |
| `Pauses` | who answers a customer, as single statements | `Checkout` |
| `Turns` | turns that string these statements together, beside everybody else | `Pauses` |
| `Drafts` | the fields of a draft and what is ordered from it | - |
| `Master` | one store in the control plane | - |
| `OrdersProofs`, `InboundProofs`, `KommoProofs`, `DirectProofs`, `BroadcastProofs`, `TurnsProofs`, `ContextDraftsProofs`, `MasterProofs` | theorems | `Orders`, `MetaInbound`, `KommoJobs`, `KommoDirect`, `Broadcast`, `Turns`, `Drafts` and `MetaContext`, `Master` |
| `MC*` | the instances TLC checks | the module of the name |

Definitions marked *Mutant* in a module are deliberately wrong variants of the
definition that follows them. They belong to no specification; replacing the
definition by its mutant makes TLC report the property that `PROJECT.json` pairs
with it, which shows that the property can fail.

Where several small worlds are needed to reach every branch, a module has a
constant `Scopes`: a behaviour chooses one of them at its start (which rows,
which tasks, how many faults) and keeps it. This bounds each world by itself and
checks all of them in one run.

### Answers

A message is *none*, *open* or *closed*, and has a number of `copies` the customer
received. It is accepted in the order of its chat; `Answer(batch)` needs every
message of the batch unanswered and no earlier message of the chat left behind
open; `Undelivered` is the provider's word that a message never arrived;
`Close` is final. A message may be closed without an answer (the promise is at
most one), and a late task may answer a message that was closed as failed.

Three queues have a property `AnswersImplemented == Promise!Spec` with
`Promise == INSTANCE Answers WITH ...`: `phase` is read off the rows, `copies`
off what the provider accepted. In `KommoDirect` a message that Kommo reports as
not delivered no longer counts as a copy, which is what makes a rescue send of
the same answer legal, and only then.

### Orders

`create_order`, `delete_order` and the clean-up hold one session advisory lock
from their first to their last transaction, so at most one of them is inside:
`section` names the operation, its order and its next step. Each transaction and
each sheet call is one action. Payment updates lock only the order row and are
actions that may come between any two steps of the section.

* `orders[o]` is the row: existence, customer, cart (items with shipping and
  payment method, compared as a whole by the repeated-request match),
  `inventory_status`, `payment_status`, `totals_applied`, the proof, and an age:
  *recent* (30 minutes), *open*, *expired* (past the reservation's TTL).
* The sheet is `stock` and `ledger`. A mutation writes the stock cell and a
  ledger row in one batch. `WriteSheet` has an answer that arrives or is lost;
  `RefuseSheet` covers errors before anything is written.
* `cache` is `_inventory_ledger_cache`. `_update_stock` reads the idempotency
  check and the next free row from it; `inventory_operation_applied` reloads it.
* `Abandon` is an exception or a cancelled request at any step: the lock is
  released, the rows stay as they are. `Crash` also empties the memory.
* `UnverifiedWrites` says whether the check after a lost answer may fail too. It
  is FALSE in the passing runs and in the theorems, TRUE in `orders_unverified`.

Left out: prices, discounts and address validation (they decide only whether
`create_order` starts), `sync_purchase_tier_tags`, notification texts,
`update_order_shipping`, and the clean-up's `LIMIT 20`.

### MetaInbound

Every transaction holds the sender's advisory lock or the lock of the one
pending row it changes, so each is one action; the steps of a worker between
transactions are separate actions (`Generate`, `Fence`, `Send`, `Record`,
`Complete`, `Requeue`).

* A message is its arrival number. A job is named by the message that inserted
  its row. `parts` is the sequence of messages in the batch, `media` the image.
* A lease is a number; `stale` says that `PROCESSING_LEASE_MINUTES` have passed
  since the last heartbeat. `LeaseExpires` on a job whose worker is alive (the
  worker cannot reach the database) counts as a fault and can be undone by
  `Heartbeat`.
* The AI turn is `Generate`: any number of sends up to `MaxReply`, none, or one
  apology. A send is accepted with an answer, accepted without one (time-out,
  5xx), refused for good, or refused in a way that is retried (no connection,
  401, 403, 429), as `whatsapp_sender._send` classifies them.

Left out: the text and profile merging, the history rows, the clean-up of closed
jobs, `outbound_processing_enabled`.

### Broadcast

One campaign; campaigns share nothing but customers. A task is one call of
`execute_broadcast`, and every SQL statement of it is one action, because only
the conditional UPDATEs are atomic. The two UPDATEs of the recovery change
disjoint rows and are one action. `ClaimAges` lets `claimed_at` grow older than
five minutes; with `SlowTasks` FALSE only when no live task holds the claim (a
send times out after 15 seconds). `Retry` assumes what the endpoint asks the
operator to confirm: the message was not delivered. Left out: the refusal of
Kommo mode and of other channels, and message personalisation.

### KommoJobs

A message joins or opens a *pending* job of its chat. When the buffer has run
out, a task claims the job, marks it `waiting_for_salesbot` and launches a
Salesbot run for its *lead*. The run calls back with a return URL, the job is
`ready`, a task claims it, takes the AI turn, marks it `continuing`, posts the
answer to the URL, writes the history and closes the job.

* A lease is the value of `attempt_count` that its claim wrote. `timed` says that
  the timer of the row's status has run out. No heartbeat renews a processing
  row, so a slow task can be overtaken: that counts as a fault.
* `runs` are the Salesbot runs Kommo accepted, with the `iat` each signs and the
  number of times it was continued. A callback may come at any time and again. It
  serves the newest waiting job of its *lead*, as in the code, which need not be
  the job that launched it; a launch in the same second is not later than `iat`.
* `blocked` are the leads for which `evaluate_automation_state` says no.
* `ClaimStarts` and `ClaimPending` are one UPDATE: its sub-select sees other rows
  in the snapshot the statement started with, only the locked row is read again.
* `TakeBack` is the UPDATE of `recover_stale_jobs` that collides with the unique
  index of pending rows (`Collides`); the later UPDATEs and claims of a scheduler
  cycle are owed by `FairSpec` only while nothing collides.

Left out: the filters of a callback by widget contact and channel (the model
allows more callbacks), transcription beyond its outcomes, database errors inside
a task, which end it as a crash does.

### KommoDirect

The jobs of one chat, each already debounced. A task claims a job, decides
whether the assistant may answer, waits for context if it must, generates, and
sends: `Claim` takes the row of the ledger for a fingerprint, `Fence` is
`send_attempt_count`, the send has an outcome (accepted, refused, unknown,
crashed), and the job waits for Kommo's delivery report. `Reconcile*` are
`process_waiting_for_delivery_jobs`: delivered closes the job and writes the
history, an error may lead to one rescue (a text instead of an image), no report
leaves the job waiting and holds back the later messages of its lead. The native
comment callback discards a private job that mirrors it, in every status before
the answer.

Left out: request signing, payloads and the Drive's two-step upload (one step
with its outcomes).

### MetaContext

Events and held jobs, one kind at a time. The score of `_score_candidate` is
computed from a set of `Signals` per pair (identifier, identity, user name, text,
time distance, two strangers with the same text). Each task holds the copy of its
event that it read at its start; correlation, enrichment, the look-up of products,
the backfill and the release are separate steps, so that two tasks, changes of
the mappings, ageing events and a crash come between them. The last conjunct of
`ContextOK` is the agreement of the two tables. Its specification is `ContextSpec`
(`Spec` is that of `Drafts`; `ContextDraftsProofs` extends both).

### Checkout, Pauses and Turns

`Checkout` and `Pauses` have one operator per statement or transaction; `Turns`
puts them in the order of the code: the gate of a Kommo job, `expire` and
`mirror`, the guards, the router, the rounds of tools of the agent that runs, the
last check before the reply. The message is of one of four kinds, and the model
calls any tool its agent is given. A reactivation (`reactivate_if_expired` and
the sweep) holds the customer's row lock across its calls to Kommo: `react` is
that lock, and every other write of the row waits for it. `hold`, `gone` and
`since` are history variables (a person's pause, discarded drafts, orders at the
turn's start).

### Drafts

One draft with one item, its delivery fields and payment method; calls come one
after the other, while catalog and policy change between the steps of a call.
`normalize_shipping_policy`, `resolve_delivery_quote`, the catalog look-ups and
the null-or-absent distinction of partial updates are operators.

The catalog is a search by words. `FoundBy[t]` stands for the test of
`find_catalog_matches`: the rows whose SKU, parent SKU, name, brand, category,
description and presentation, joined, contain `t` or all its terms. The only thing
assumed of it is that a SKU finds its own row; whether it finds others is up to the
instance. `Query` has the order of precedence of the code: the SKU an item resolved
to (`canon`), then the SKU passed, then the name. `RowOf` takes the first match in
stock in the order of the sheet (`Place`). `Variants` is the second look-up, inside
`create_order`: the SKU exactly, or, when its row has left the cache, a row of its
`Kin` (it is their parent SKU, or they have its name) in the same presentation;
which of several is left open. `asked` is a history variable: the text and the
presentation that the customer asked for last. A row has one presentation or none
(`docs/CATALOG_SCHEMA.md`); the several sizes of the legacy sheet are left out.

### Master

One store: its row, its credentials, two Railway environments (variables and what
the running service was started with), the settings in each database it may have
been pointed at, rates and their provider. A request handler is a task with one
step per database statement or Railway call; `Loop` is the refresh loop; `ping`
a health check in flight. `work` bounds edits, failures, new rates and checks
together. A Railway call takes effect before its answer or not at all. The
endpoint that refreshes every store copies as the loop does and is not a separate
action; `StoreEdits` is a store with `LLM_MANAGED_EXTERNALLY` off. Connection
pools appear only in that an access may fail.

## 3. What the runs show

| Run | Instance | Distinct states | Shows |
|---|---|---|---|
| `orders_safety` | 2 orders, each possibly older than the inventory columns, 1 customer, a cart of 2 of 3 units, 2 proofs with one reference | 1.42 million | stock moves once per operation; status and stock agree; the clean-up never takes a paid order's stock; totals and proofs count once |
| `orders_live` | 1 order, fair clean-up | 2,744 | every due reservation is released, interrupted releases included |
| `orders_unverified` | verification may fail | - | **violation**: a second deduction from the stale ledger cache |
| `inbound` | 2 messages of one sender with media, 2 workers, 1 fault, fair | 247 thousand | the queue implements `Answers`; nothing is lost, doubled or reordered, the newest image is looked at; leases protect their holder; every message settles |
| `broadcast` | 2 customers, 2 tasks, 1 fault, 2 resets, fair | 534 thousand | one template per customer, fixed audience, truthful ledger and counts, no claim stuck |
| `kommo_safety` | 2 messages in 2 chats of a lead, 2 tasks, 1 fault | 5.55 million | one turn, one run, one answer per job; closed jobs stay closed; `sent` and the history are true; no reply over an operator |
| `kommo_live` | 2 messages of 1 chat, 2 tasks, 1 fault, fair | 488 thousand | the jobs implement `Answers`; every message closes unless the recovery collides; one active job per chat |
| `kommo_direct` | 1 message with 2 tasks, a fault and a comment it may mirror; or 2 messages and 1 task; fair | 268 thousand | the jobs and their ledger implement `Answers`; rows and history are true; a reported message closes its job |
| `meta_context` | nine scopes of up to 2 events, 2 jobs, 2 tasks, changes of the mappings, aged events, a crash; fair | 266 thousand | a match is the best for both sides, a verdict is never changed, every held job is released |
| `turns` | five scopes: two concurrent turns or one after another, one or two interventions, errors and crashes; fair | 404 thousand | a paused conversation stays silent, a purchase is ordered once, a discarded draft never, an automatic pause ends |
| `drafts` | 4 rows of 2 products, 2 of one name and presentation, one SKU part of another; 2 cities, 4 updates, 1 change of catalog or policy, 2 orders | 3.79 million | an order can be delivered as quoted, its row is where the text asked for last leads, and a SKU alone in the sheet is ordered exactly |
| `master` | 2 databases, 2 environments, 3 units of work beside the refresh loop; fair | 459 thousand | deleted keys are gone from Railway, deploys are current, provider and model agree, published rates arrive |

The bounds are the smallest at which every branch is taken: a second order is
what the unpaid limit, the repeated request and a shared proof need; two messages
of one sender are what a merge in front of a waiting batch needs, two workers what
a late worker and its successor need (the theorems about `MetaInbound` hold for
any number of both); two campaign tasks are what a reset and a second execution
need. For Kommo, two chats of one lead are what a callback that serves another job
needs, two messages of one chat what a collision in the recovery needs; three
attempts are those of the code, so that a job can be recovered and also exhausted.
Two events and two jobs are what a better claimant and a tie need. Two interventions
are what a pause, its lifting and a second pause during one turn need. Faults
are counted because an unbounded number of crashes adds no behaviour but makes
lease numbers grow. Runs whose configuration says `CHECK_DEADLOCK FALSE` are of
systems that come to rest when the bounded messages are settled and the faults
are used up.

Fairness. *Orders*: the scheduler starts the clean-up again and again (weak
fairness of `SweepSelect`), a started section runs on, each step of the
clean-up succeeds if it is tried for ever (strong fairness: the sheet and the
database are not down at every attempt), and crashes end. *MetaInbound*: the
event loop runs every task, windows and unattended leases run out, and the
scheduler calls `process_due_inbound_jobs` every five seconds. *Broadcast*: tasks
run, claims grow old, and the scheduler's recovery runs every minute. *KommoJobs*
and *KommoDirect*: tasks run, timers of unattended rows run out, and the scheduler
calls `_process_kommo_jobs` every 15 seconds; nothing is assumed of Kommo, which
may never call back or report: `ClosesWhenReported` says what follows if it does.
*MetaContext*: deadlines pass, and the scheduler visits every waiting job, earliest
deadline first; strong fairness, because other tasks may occupy the job between
two visits. *Turns*: the sweep runs, and Kommo does not fail at every one of
infinitely many attempts (strong fairness of the two steps of a reactivation).
*Master*: the loop's steps run, and it asks every source again and again. Nothing
is assumed of customers, operators or faults.

One run exhibits a disagreement between the code and what the repository says of it
(`findings` in `PROJECT.json`): `orders_unverified`, described with `Orders`. Another
has no run of its own. "Checkout always re-resolves the exact sellable SKU"
(`docs/CATALOG_SCHEMA.md:80`) is not true of every sheet: when the row of a draft's SKU
sells out, the search for that SKU may find a row of another product that contains it,
in the same presentation, and this is checked, priced and ordered. `OrderedAsAsked`
therefore demands the SKU itself only of one that is `Alone` in the sheet; without that
condition TLC finds the order of `b10` for the draft of `a1` in the instance `MCDrafts`.

## 4. What is proved

All eight proof modules are checked to the last leaf by TLAPS. Each has the same
plan: an inductive invariant that is a conjunction of named parts, one lemma per
action, `Init` and step lemmas, and theorems that follow from the invariant.

**`OrdersProofs`**, for every finite set of orders, any customers, carts and proofs, any
quantities and any initial stock, under `~UnverifiedWrites`: `SagaInvariant`,
`MutatedOnce` (`AppliedOnce`), `StatusIsTrue`, `ProofsNotReused` (`ProofUsedOnce`),
`PaidOrdersKeepStock` (`PaidKeepsStock`), `StockIsAccounted` (`StockAccounted`) and
`TotalsAreExact` (`TotalsExact`). `AppliedOnce` is not inductive: whether a
retry deducts again depends on what the cached ledger says. `IndInv` adds that the
cache is the sheet's ledger whenever a mutation consults it (`CacheFresh`), that
the ledger records exactly the mutations made (`LedgerExact`), and what each step
of the locked section knows of its order (`SectionKnows`). The hypothesis is needed
where an abandoned section would otherwise leave the cache behind the sheet,
which is the behaviour `orders_unverified` exhibits.

The sums over orders are cardinalities, so that no induction is needed: `UnitsOf`
has one element per unit that an order asks for, and an order that is reserved or
released adds or takes its units from the set. `StockAccounted` says nothing while an
order is half-way; `Accounted` holds at every moment, because it counts the
orders whose units the sheet has given out and not taken back (`Held`) instead of
their status. `TotalsExact` needs `FlagTells`: the flag `customer_order_applied` is set
on paid orders only, and on every paid order that has a customer, so that neither a second
confirmation nor the reversal of an order that never counted moves the total.

**`InboundProofs`**, for any messages, senders, workers and bounds, without a
hypothesis: `QueueInvariant`, `QueueImplements` (`AnswersImplemented`: the
refinement of `Answers`), `LeasesAreRespected` (`LeasesRespected`),
`MessagesStayIntact` (`MessagesIntact`) and `QueueTyped` (`TypeOK`, which includes the
two partial unique indexes). That a second answer is impossible needs to know where an
answered message is: its row is closed, or at work and marked as started, and then only a worker that knows of
the send may give it back (`Known`). A worker past its fence keeps its batch from
everybody else for good (`Exclusive`): while its lease lasts nobody merges or
claims the row, and when the lease is taken away the row, being started, is
closed. The order of answers needs that whatever is past the fence is preceded in
its chat by closed messages only (`Answerable`), which comes from the two indexes
(`Unique`) and from the batch at work being older than the one that waits
(`InOrder`). `MessagesIntact` adds `Intact`: a row that counts is strictly increasing,
so that a message has one position in it, and an open row names the newest of its
images; a merge keeps both because the batch in front is the older one.

**`KommoProofs`**, for any messages, chats, leads, tasks and bounds, without a
hypothesis: `KommoInvariant`, `JobsRunOnce` (`AtMostOnce`), `SentIsTrue` (`Truthful`),
`ChatsAreServedAlone` (`OneActivePerChat`), `ClosedForGood` (`ClosedStaysClosed`),
`HandoffKept` (`HandoffRespected`) and `JobsImplement` (`AnswersImplemented`). None of
these is inductive, since almost every statement of a task follows an await in
which the row may have been recovered, claimed again, closed or written by the
callback. The invariant has four parts:

* *Rows and messages.* Messages are recorded in the order of their numbers
  (`Numbered`), each is in one row, named by one of its messages (`Filled`, `Placed`);
  the two partial indexes (`Single`); what was claimed is older than what waits,
  and what is closed older than what is active (`Ordered`); a candidate of the
  snapshot of a claim that is pending has no active row beside it (`Current`).
* *The course of a row* (`RowOK`, `RunsOK`): which fields a status implies, that the
  turn of a row not yet `ai` has not begun, that every run belongs to one job and
  has posted only if it was consumed.
* *What a task may assume* (`Launching`, `Turning`, `Telling`, `Withheld`). The heart is
  `Turning`: from the claim of the AI turn to its end the row is the task's own or is
  closed. Nobody takes it in between, because `recover_stale_jobs` closes a turn
  that went stale and never returns it to *pending* or *ready*, except through the
  task itself. This is why a write that is fenced by the lease is enough.
* `Apart`: two tasks with the same job have different leases, and only one is in a
  turn, or between the mark and the launch of the Salesbot.

The refinement maps the statement by which a run speaks to the customer to `Answer`, every statement that closes
a row to `Close`, a recorded message to `Accept`, and all else to a stutter. That an
`Answer` leaves no older message of its chat open follows from `Ordered` and `Single`:
an older message is in a closed row or in this one.

**`DirectProofs`**, for any messages, tasks, mirrors, faults and bounds, without a
hypothesis: `DirectInvariant`, `DirectIsTrue` (`Truthful`) and `DirectImplements`
(`AnswersImplemented`). A message cannot be taken back here and its fate may stay
unknown, so that everything hangs on what is known of the ledger:

* *A job* (`JobOK`): of the messages that Kommo took for it one at most is not
  reported as lost, and if no row of its ledger has begun, none (`Single`); until
  its turn, and again after a rescue, what was sent is known to be lost (`Stands`,
  `Clear`); while it waits for delivery, the message it awaits belongs to an
  accepted row and every other message is lost (`Awaited`); `kept`, `stored` and
  *sent* agree (`Told`); a superseded job has begun nothing (`Silent`).
* *A task* (`Fits`): as in `KommoProofs`, from the claim of its turn on the job is its
  own or closed; past the claim of a send, its row is *sending* and the only one
  that may carry a message (`Sends`), even when the job was recovered meanwhile. A
  task before that claim looks at the job again in the transaction that begins the row
  (`_claim_delivery`), which is what makes the discard by a comment and the start of a
  send exclude each other.
* *The reconciler* (`Looks`): the job that it copied still waits, since recovery
  and the callback leave a job that waits alone, and there is one reconciler.
* `OneActive` and `Ordered`: whatever was claimed once has only closed jobs before it.

The refinement maps a message that Kommo takes to `Answer`, its report of an error
to `Undelivered`, each closing statement to `Close`, and all else to a stutter.

**`BroadcastProofs`**, for any customers, tasks and bounds, under `~SlowTasks`:
`CampaignTyped`, `CampaignInvariant`, `TemplateNotRepeated` (`TemplateOnce`),
`SnapshotKept` (`AudienceFixed`), `LedgerIsTrue` (`LedgerTruthful`). The invariant says
of each ledger row, and of the task that holds it, what Meta has accepted, and of
each execution what it has counted. Without the hypothesis `TemplateOnce` is false.

**`TurnsProofs`**, for any tasks, messages, carts and scopes: `TurnsInvariant`,
`PausedIsSilent` (`SilentWhilePaused`), `PurchaseInvariant`, `DiscardedIsDiscarded`
(`DiscardedStaysDiscarded`) without a hypothesis, and `PurchasedOnce`
(`OneOrderPerPurchase`) under `BuysAlone`. `SilentWhilePaused` speaks of a turn
at its reply; the invariant says of every step past the guards that the turn
began before the pause in force, of the row that a person's pause is what it
says, and of the row lock that it is on an automatic escalation. For a draft, what
counts is the version of the session: versions only grow and `gone` is only added
to, so that a session read by `finalize` which still has the version it had cannot
hold a draft discarded before (`Versions`, `Sound`; `BuyInv`). For a purchase,
`AloneInv` says that no two orders repeat each other (`Distinct`) and that what the
turn's checks found still holds when it creates the order. The second part is true
only while no other turn of the conversation is between its checks and its order,
which is `BuysAlone`: in a scope with `finalize` there is one task at a time. The queues of
sections 2 see to it with the lease of a conversation (`OneActivePerChat` in
`KommoJobs`, `AnswersImplemented` in `MetaInbound`); `MCTurns` evaluates it. Without the
hypothesis TLC finds two turns that both pass the check and order twice with
different carts, which takes a turn whose lease was taken over while it ran.

**`ContextDraftsProofs`**, on `Drafts`: for any catalog and any search by words, any
policies, updates and bounds: `DraftsInvariant`, `DraftsDeliverable`
(`DeliverableAsQuoted`) and `DraftsAsAsked` (`OrderedAsAsked`), whose last part speaks
of a SKU that is `Alone`: it is part of no other row's text, and the rows that share
its name or parent differ in presentation. The
invariant follows a purchase from the request to the order: unless the text slipped,
the draft is looked up by the text that was asked for, or by the SKU of a row which
that text finds, and has the presentation asked for (`DraftSuits`); once `Check` has
passed, the call's row matches its draft, is one the request leads to, and its quote
has a tariff (`CallKnows`); every order is made of these (`OrdersOK`, with `OrderFound`
for the SKU of the draft). Nothing but the call itself touches
the draft while a call runs, so catalog and policy may change under it: the row was
matched on what never changes, the stock is looked at again, and the policy is
the copy that the call holds. `PatchOfCall` is the lemma about partial updates: whatever
is laid over the draft says of the item what the call said, or adds the SKU of a row
that its text finds, and that row's presentation. `OrderedAsAsked` bounds how far an
order can be from the request: a text finds a row (when the draft is updated), whose SKU
finds a row (when the order is checked), for which `create_order` may take one of its
kin. `DraftsExact` says when these three are one.
`DeliveryQuoted` shows why the two checks
of delivery fields are enough together: `Delivery` drops a zone or courier that
the quote did not confirm, and `Required` then misses it.

On `MetaContext`, for any finite sets of events and jobs, any tasks, signals, contents
and bounds, without a hypothesis: `ContextInvariant`, `ContextIsTyped` (`ContextOK`),
`MatchesAreMutual` (`MatchIsMutualBest`) and `VerdictsAreFinal` (`VerdictFinal`). The
invariant says of the rows that the two tables agree (`Agree`), that a matched job has
its event, which keeps a visit of a matched job from starting without one, and
that a released job has a verdict that still stands (`Verdict`); of a task that it
has the event or the job that its step works on (`Works`). `Correlated` is the heart of
the matching: a search marks, or joins a pair that is the only best one from both
sides, and a pair that alone is best beats every other (`BestAlone`). It rests on
the search being one transaction: a task's own copies are never used to match. Every
step is then one of few kinds (`NoRowStep`, `EventStep`, `JobStep`, `SearchSteps`,
`ReleaseSteps`, `TimeOutSteps`) that leave released jobs alone.

**`MasterProofs`**, for any tasks, credentials, environments and values, without a
hypothesis: `Invariance`, `DeletionReachesRailway` (`DeletedIsUndeployed`),
`DeployIsCurrent` (`DeployedIsCurrent`), `ModelIsOfProvider` (`ModelOfProvider`). The
first invariant says which requests on Railway know of each other, what a deploy
has read and whether that is still true. The second, `SettingsInv`, says of an edit
under way that the settings it has seen together with its patch have a model of
their provider, and that a database whose settings have changed since is in
`mixed`. It rests on `MasterAssumption`: the patches name models that the API accepts
(`api.py:602`, against `AVAILABLE_MODELS`), and a deployed store has a database.

Only model-checked: the liveness properties (`DueIsReleased`, `EveryMessageSettles`,
`ClaimsResolve`, `ClosesUnlessWedged`, `ClosesWhenReported`, `EveryJobReleased`,
`ExpiredIsResumed`, `RatesArrive`), which are out of the prover's reach. Every safety
property of a passing run is also a theorem, under the hypotheses named above.

## 5. Known limits of the code

Behaviour met while modelling that a property excludes, or that the repository
does not promise otherwise. Each is in the models, or named here because it is
left out.

* Broadcast: a task that is slower than the five minutes of a claim may send the
  template a second time (`sender.py:106`; `SlowTasks` TRUE violates `TemplateOnce`).
* Kommo jobs: a stale job and a newer pending one of the same chat collide in
  `recover_stale_jobs` (`jobs.py:788`) at every cycle, and later UPDATEs of the
  cycle do not run: `Wedged` in `ClosesUnlessWedged`. `jobs.py:2528` works on a
  snapshot of the job taken before the turn.
* Kommo direct: the report is looked for in the newest 250 messages of a chat only
  (`client.py:311`); a job whose report never comes holds its lead back for ever.
* Meta inbound: the history keeps the text of the first turn when a batch grows
  before a retry (`conversations.py:53`).
* Meta context: with more than ten waiting events the scheduler's page may starve
  the younger ones.
* Pauses: an automatic expiry overwrites an operator's *Human* set in Kommo during
  the call; a manual pause that Kommo mirrors becomes external and is then lifted
  by Kommo; a turn already past its guards still replies after a pause;
  `init` of an empty AI Mode (`kommo/state.py:97`) may write over an operator;
  `process_expired` holds row locks during calls to Kommo.
* Sessions: a verified proof for one order wipes a draft in progress
  (`verifier.py:448`); `set_active_agent` may take the stage back
  (`sessions.py:414`).
* Drafts: the search for a draft's SKU takes the first row in stock that contains it
  (`catalog.py:123`, `service.py:421`; see the end of section 3), also when a look-alike only
  stands before it in the sheet; with a presentation given, the first of several
  products that match is taken without asking; a row that sells out between the check
  and `create_order` is replaced by one of the same name and presentation, whatever its
  brand (`crm/orders.py:225`). A SKU or name that does not resolve by itself leaves the
  old `canonical_sku` in force (`service.py:278`, 374; `slipped` in `OrderedAsAsked`);
  address and agency of a former city stay in the draft, though not in an order.
* Master: a health check in flight un-pauses a store that was paused meanwhile
  (`health.py:95`); a deploy beside `delete_credential` can leave the variable on
  Railway without a local row (excluded from `gone`); a deploy may write a stale
  database URL to the credentials; overlapping edits mix provider and model, and a
  store that changes its provider alone keeps the old model (`admin/settings.py`
  139-180; `mixed`).
* Orders: more than 20 rows whose release keeps failing occupy every clean-up
  (`orders.py:1221`). Meta inbound: a customer who never pauses is never answered,
  each message restarting the window (`inbound_buffer.py:90`); the clean-up after
  seven days deletes the receipts of a merged job whose messages live on
  (`inbound_buffer.py:287`). Broadcast: a read time-out after Meta accepted the template
  is recorded as failed (`sender.py:146`).

## 6. Not modelled, and what is left

Not modelled, because nothing concurrent or stateful happens there or because it
is pure input and output: channel mappings and customer identity (upserts of one
row), data retention, analytics, payment methods, exchange-rate formatting in the
store, authentication, the PDF catalog, payload building of the senders, the
Telegram conversation, prompts, the dashboards and the Kommo widget. The database
pool and the settings cache appear only through the atomicity of transactions.

What a next step would add, in this order:

1. Several stores and the connection pools in `Master`; several campaigns and the
   consent of shared customers in `Broadcast`.
2. The composition of `Checkout` with `Orders`: an order as `Checkout` sees it,
   implemented by the reservation saga.
3. The seven-day and retention clean-ups beside the queues they delete from.
