------------------------------- MODULE Orders -------------------------------
(***************************************************************************)
(* Orders of a store: the reservation saga between the orders table and    *)
(* the Google Sheet that holds the stock (store/app/crm/orders.py,         *)
(* store/app/catalog/sheets.py), together with the payment updates that    *)
(* run beside it without the inventory lock.                               *)
(*                                                                         *)
(* create_order, delete_order and the reservation clean-up each hold the   *)
(* session advisory lock INVENTORY_LOCK_KEY from their first to their last *)
(* transaction, so at most one of them is inside its critical section:     *)
(* the variable section.  Payment updates are single transactions that     *)
(* lock only the order's row, and interleave with the section's steps.     *)
(*                                                                         *)
(* The sheet is external.  A write sets the stock cell and one ledger row  *)
(* in one batch; its answer may be lost.  The store process keeps the      *)
(* ledger in memory (_inventory_ledger_cache) and takes both the           *)
(* idempotency check and the row it writes to from that copy.              *)
(***************************************************************************)
EXTENDS Integers, Sequences, FiniteSets

CONSTANTS Orders,       \* order identifiers, each used by one row at most
          Customers,
          Carts,        \* item lists (with shipping and payment method)
          Qty,          \* units of stock a cart asks for
          InitialStock,
          MaxUnpaid,    \* MAX_ACTIVE_UNPAID_ORDERS
          Proofs,       \* payment proofs: records [hash, ref]
          UnverifiedWrites, \* may a write with a lost answer stay unverified?
          Null

ASSUME OrdersAssumption ==
    /\ IsFiniteSet(Orders)
    /\ Qty \in [Carts -> Nat \ {0}]
    /\ Carts # {} /\ Customers # {}
    /\ InitialStock \in Nat
    /\ MaxUnpaid \in Nat \ {0}
    /\ UnverifiedWrites \in BOOLEAN
    /\ Null \notin Orders \cup Customers \cup Carts \cup Proofs

VARIABLES orders,    \* the orders table
          replays,   \* payment_proof_replays: proofs of deleted orders
          customers, \* customers: existence and total_orders
          stock,     \* the sheet's stock cell
          ledger,    \* the sheet's ledger rows, in row order
          cache,     \* the process's copy of the ledger, Null before a load
          section,   \* the operation that holds the inventory lock
          sweep,     \* rows the clean-up selected and has not handled yet
          deducts,   \* history: stock deductions the sheet applied, by order
          restores   \* history: stock restorations the sheet applied

vars == <<orders, replays, customers, stock, ledger, cache, section, sweep,
          deducts, restores>>
sheet == <<stock, ledger, deducts, restores>>

PAID_STATUSES == {"proof_received", "confirmed"}
VALID_PAYMENT_STATUSES == PAID_STATUSES \cup {"pending", "failed", "rejected"}
OPEN_STATUSES == {"pending", "proof_received"}
InventoryStatuses == {"legacy_unknown", "reservation_pending", "reserved",
                      "reservation_failed", "release_pending", "released"}

Operations == [kind : {"reserve", "release"}, order : Orders]
Reserve(o) == [kind |-> "reserve", order |-> o]
Release(o) == [kind |-> "release", order |-> o]

Row == [state : {"absent", "live", "deleted"}, cust : Customers \cup {Null},
        cart : Carts \cup {Null}, inv : InventoryStatuses,
        pay : VALID_PAYMENT_STATUSES, applied : BOOLEAN,
        proof : Proofs \cup {Null}, age : {"recent", "open", "expired"}]

Idle == [op |-> "none", order |-> Null, step |-> "none"]
Steps == {"deduct", "verify_deduct", "mark_failed", "finalize",
          "inspect", "restore", "verify_restore", "finish"}
Section == [op : {"create", "delete", "release"}, order : Orders, step : Steps]
               \cup {Idle}

TypeOK ==
    /\ orders \in [Orders -> Row]
    /\ replays \subseteq Proofs
    /\ customers \in [Customers -> [live : BOOLEAN, total : Int]]
    /\ stock \in Int
    /\ ledger \in Seq(Operations)
    /\ cache \in Seq(Operations) \cup {Null}
    /\ section \in Section
    /\ sweep \subseteq Orders
    /\ deducts \in [Orders -> Nat]
    /\ restores \in [Orders -> Nat]

(***************************************************************************)
(* Rows before the first request: orders that predate the inventory        *)
(* columns are open and unpaid, everything else is unused.                 *)
(***************************************************************************)
FreshRow ==
    [state |-> "absent", cust |-> Null, cart |-> Null, inv |-> "legacy_unknown",
     pay |-> "pending", applied |-> FALSE, proof |-> Null, age |-> "open"]
LegacyRow(c, k) == [FreshRow EXCEPT !.state = "live", !.cust = c, !.cart = k]

Init ==
    /\ orders \in [Orders -> {FreshRow} \cup {LegacyRow(c, k) : c \in Customers, k \in Carts}]
    /\ replays = {}
    /\ customers = [c \in Customers |-> [live |-> TRUE, total |-> 0]]
    /\ stock = InitialStock
    /\ ledger = <<>>
    /\ cache = Null
    /\ section = Idle
    /\ sweep = {}
    /\ deducts = [o \in Orders |-> 0]
    /\ restores = [o \in Orders |-> 0]

-----------------------------------------------------------------------------
(* Helpers shared by the operations.                                       *)

Live(o) == orders[o].state = "live"
Enter(op, o, step) == section' = [op |-> op, order |-> o, step |-> step]
Goto(step) == section' = [section EXCEPT !.step = step]
Leave == section' = Idle
At(o, step) == section.order = o /\ section.step = step

\* _cached_inventory_ledger_records: load on first use, or when forced.
LoadedLedger == IF cache = Null THEN ledger ELSE cache
Records(rows, op) == \E i \in DOMAIN rows : rows[i] = op

\* The batch write puts the row at the cached next_row, over whatever is there.
PutRow(rows, n, op) ==
    IF n > Len(rows) THEN Append(rows, op) ELSE [rows EXCEPT ![n] = op]

\* An order that still needs payment and holds or may hold stock.
ActiveUnpaid(o, c) ==
    /\ Live(o) /\ orders[o].cust = c
    /\ orders[o].pay \in OPEN_STATUSES
    /\ orders[o].inv \in {"reservation_pending", "reserved", "legacy_unknown"}

\* The repeated-request match of create_order.
Matches(o, c, k) ==
    /\ Live(o) /\ orders[o].cust = c /\ orders[o].cart = k
    /\ orders[o].pay \in OPEN_STATUSES
    /\ \/ orders[o].inv = "reservation_pending"
       \/ orders[o].inv = "reserved" /\ orders[o].age = "recent"

\* Mutant: a confirmation after proof_received counts the order again.
TotalsNotOnce(o, pay) ==
    LET c == orders[o].cust IN
    CASE pay \in PAID_STATUSES /\ c # Null -> [customers EXCEPT ![c].total = @ + 1]
      [] pay \notin PAID_STATUSES /\ orders[o].applied /\ c # Null ->
           [customers EXCEPT ![c].total = IF @ > 0 THEN @ - 1 ELSE 0]
      [] OTHER -> customers

\* customers.increment_orders / decrement_orders for order o moving to pay.
Totals(o, pay) ==
    LET c == orders[o].cust IN
    CASE pay \in PAID_STATUSES /\ ~orders[o].applied /\ c # Null ->
           [customers EXCEPT ![c].total = @ + 1]
      [] pay \notin PAID_STATUSES /\ orders[o].applied /\ c # Null ->
           [customers EXCEPT ![c].total = IF @ > 0 THEN @ - 1 ELSE 0]
      [] OTHER -> customers
Applied(o, pay) ==
    IF pay \in PAID_STATUSES THEN orders[o].applied \/ orders[o].cust # Null
                             ELSE FALSE

-----------------------------------------------------------------------------
(* The sheet (deduct_stock / restore_stock = _update_stock).               *)

\* The operation is already in the ledger the process knows: no mutation.
AlreadyApplied(op, next) ==
    /\ Records(LoadedLedger, op)
    /\ cache' = LoadedLedger
    /\ UNCHANGED sheet
    /\ Goto(next)

\* Mutant: an acknowledged write is not appended to the cached ledger.
WriteSheetNotCached(op, acked, next, lost) ==
    LET rows == LoadedLedger
        o == op.order
        quantity == Qty[orders[o].cart]
    IN /\ ~Records(rows, op)
       /\ IF op.kind = "reserve"
            THEN /\ stock >= quantity
                 /\ stock' = stock - quantity
                 /\ deducts' = [deducts EXCEPT ![o] = @ + 1]
                 /\ UNCHANGED restores
            ELSE /\ stock' = stock + quantity
                 /\ restores' = [restores EXCEPT ![o] = @ + 1]
                 /\ UNCHANGED deducts
       /\ ledger' = PutRow(ledger, Len(rows) + 1, op)
       /\ cache' = rows
       /\ Goto(IF acked THEN next ELSE lost)

\* The batch is applied; its answer arrives or is lost on the way back.
WriteSheet(op, acked, next, lost) ==
    LET rows == LoadedLedger
        o == op.order
        quantity == Qty[orders[o].cart]
    IN /\ ~Records(rows, op)
       /\ IF op.kind = "reserve"
            THEN /\ stock >= quantity
                 /\ stock' = stock - quantity
                 /\ deducts' = [deducts EXCEPT ![o] = @ + 1]
                 /\ UNCHANGED restores
            ELSE /\ stock' = stock + quantity
                 /\ restores' = [restores EXCEPT ![o] = @ + 1]
                 /\ UNCHANGED deducts
       /\ ledger' = PutRow(ledger, Len(rows) + 1, op)
       /\ cache' = IF acked THEN Append(rows, op) ELSE rows
       /\ Goto(IF acked THEN next ELSE lost)

\* Nothing is written: a network error, a validation error (price or active
\* flag changed) or too little stock.
RefuseSheet(lost) ==
    /\ cache' \in {cache, LoadedLedger}
    /\ UNCHANGED sheet
    /\ Goto(lost)

\* Mutant: the lookup trusts the cached ledger instead of reloading it.
ReadCachedLedger(op, found, missing) ==
    /\ cache' = LoadedLedger
    /\ UNCHANGED sheet
    /\ Goto(IF Records(LoadedLedger, op) THEN found ELSE missing)

\* inventory_operation_applied reads the durable ledger into the cache.
ReadLedger(op, found, missing) ==
    /\ cache' = ledger
    /\ UNCHANGED sheet
    /\ Goto(IF Records(ledger, op) THEN found ELSE missing)

-----------------------------------------------------------------------------
(* create_order                                                            *)

\* First transaction: reuse a matching open order or insert a new row.
CreateReuse(o) ==
    /\ section = Idle
    /\ Matches(o, orders[o].cust, orders[o].cart)
    /\ orders[o].inv = "reservation_pending"
    /\ Enter("create", o, "deduct")
    /\ UNCHANGED <<orders, replays, customers, sheet, cache, sweep>>

CreateInsert(o, c, k) ==
    /\ section = Idle
    /\ orders[o].state = "absent"
    /\ customers[c].live
    /\ ~ \E x \in Orders : Matches(x, c, k)
    /\ Cardinality({x \in Orders : ActiveUnpaid(x, c)}) < MaxUnpaid
    /\ orders' = [orders EXCEPT ![o] =
                    [FreshRow EXCEPT !.state = "live", !.cust = c, !.cart = k,
                       !.inv = "reservation_pending", !.age = "recent"]]
    /\ Enter("create", o, "deduct")
    /\ UNCHANGED <<replays, customers, sheet, cache, sweep>>

\* _deduct_order_inventory: the mutation, then the check after any error.
Deduct(o) ==
    /\ At(o, "deduct")
    /\ \/ AlreadyApplied(Reserve(o), "finalize")
       \/ \E acked \in BOOLEAN :
            WriteSheet(Reserve(o), acked, "finalize", "verify_deduct")
       \/ RefuseSheet("verify_deduct")
    /\ UNCHANGED <<orders, replays, customers, sweep>>

\* Mutant: any error of the deduction is taken as "not applied".
VerifyDeductSkipped(o) ==
    /\ At(o, "verify_deduct")
    /\ Goto("mark_failed")
    /\ UNCHANGED <<orders, replays, customers, sheet, cache, sweep>>

VerifyDeduct(o) ==
    /\ At(o, "verify_deduct")
    /\ ReadLedger(Reserve(o), "finalize", "mark_failed")
    /\ UNCHANGED <<orders, replays, customers, sweep>>

\* Mutant: the payment status is written to inventory_status.
RejectedWrongColumn(row, inv) ==
    [row EXCEPT !.inv = "rejected"]

\* The row ends without stock; a payment that is still awaited is rejected.
Rejected(row, inv) ==
    [row EXCEPT !.inv = inv, !.pay = IF row.pay = "pending" THEN "rejected" ELSE row.pay]

\* _mark_inventory_reservation_failed.
MarkFailed(o) ==
    /\ At(o, "mark_failed")
    /\ orders' = IF orders[o].inv = "reservation_pending"
                   THEN [orders EXCEPT ![o] = Rejected(@, "reservation_failed")]
                   ELSE orders
    /\ Leave
    /\ UNCHANGED <<replays, customers, sheet, cache, sweep>>

\* Last transaction of create_order: inventory_reserved_at restarts the TTL.
Reserved(row) ==
    [row EXCEPT !.inv = "reserved", !.age = IF row.age = "expired" THEN "open" ELSE row.age]

Finalize(o) ==
    /\ At(o, "finalize")
    /\ orders' = IF orders[o].inv = "reservation_pending"
                   THEN [orders EXCEPT ![o] = Reserved(@)]
                   ELSE orders
    /\ Leave
    /\ UNCHANGED <<replays, customers, sheet, cache, sweep>>

-----------------------------------------------------------------------------
(* delete_order and the reservation clean-up                               *)

\* Mutant: a reservation with an unknown outcome is taken as not made.
PlanNoInspection(op, o) ==
    /\ orders' = IF orders[o].inv = "reserved"
                   THEN [orders EXCEPT ![o].inv = "release_pending"] ELSE orders
    /\ IF orders[o].inv \in {"reserved", "release_pending"}
         THEN Enter(op, o, "restore") ELSE Enter(op, o, "finish")

\* First transaction: what the operation does next, by inventory status.
Plan(op, o) ==
    /\ orders' = IF orders[o].inv = "reserved"
                   THEN [orders EXCEPT ![o].inv = "release_pending"] ELSE orders
    /\ CASE orders[o].inv \in {"reserved", "release_pending"} -> Enter(op, o, "restore")
         [] orders[o].inv = "reservation_pending" -> Enter(op, o, "inspect")
         [] OTHER -> Enter(op, o, "finish")

DeleteBegin(o) ==
    /\ section = Idle
    /\ Live(o)
    /\ Plan("delete", o)
    /\ UNCHANGED <<replays, customers, sheet, cache, sweep>>

Holding == {"reserved", "release_pending", "reservation_pending"}
RELEASABLE == {"pending", "failed", "rejected"}
Releasable(o) == Live(o) /\ orders[o].pay \in RELEASABLE

\* release_expired_inventory_reservations: the rows this run will handle.
Due(o) ==
    /\ Live(o) /\ orders[o].inv \in Holding
    /\ \/ orders[o].pay \in {"failed", "rejected"}
       \/ orders[o].pay = "pending" /\ orders[o].age = "expired"

\* Mutant: only 'reserved' rows are selected, interrupted releases are not.
SweepSelectReserved ==
    /\ sweep = {}
    /\ sweep' = {o \in Orders : Due(o) /\ orders[o].inv = "reserved"}
    /\ UNCHANGED <<orders, replays, customers, sheet, cache, section>>

SweepSelect ==
    /\ sweep = {}
    /\ sweep' = {o \in Orders : Due(o)}
    /\ UNCHANGED <<orders, replays, customers, sheet, cache, section>>

\* _release_inventory_reservation, first transaction, for one selected row.
ReleaseBegin(o) ==
    /\ section = Idle
    /\ o \in sweep
    /\ sweep' = sweep \ {o}
    /\ IF Releasable(o) /\ orders[o].inv \in Holding
         THEN Plan("release", o)
         ELSE UNCHANGED <<orders, section>>
    /\ UNCHANGED <<replays, customers, sheet, cache>>

\* A reservation with an unknown outcome: look it up, then mark the release.
Inspect(o) ==
    /\ At(o, "inspect")
    /\ ReadLedger(Reserve(o), "restore", "finish")
    /\ orders' = IF Records(ledger, Reserve(o))
                   THEN [orders EXCEPT ![o].inv = "release_pending"] ELSE orders
    /\ UNCHANGED <<replays, customers, sweep>>

\* _restore_order_inventory.
Restore(o) ==
    /\ At(o, "restore")
    /\ \/ AlreadyApplied(Release(o), "finish")
       \/ \E acked \in BOOLEAN :
            WriteSheet(Release(o), acked, "finish", "verify_restore")
       \/ RefuseSheet("verify_restore")
    /\ UNCHANGED <<orders, replays, customers, sweep>>

\* The outcome is known: finish, or give up and leave the row release_pending.
VerifyRestore(o) ==
    /\ At(o, "verify_restore")
    /\ cache' = ledger
    /\ IF Records(ledger, Release(o)) THEN Goto("finish") ELSE Leave
    /\ UNCHANGED <<orders, replays, customers, sheet, sweep>>

\* Last transaction of delete_order.
DeleteFinish(o) ==
    /\ At(o, "finish") /\ section.op = "delete"
    /\ customers' = Totals(o, "rejected")
    /\ replays' = replays \cup ({orders[o].proof} \ {Null})
    /\ orders' = [orders EXCEPT ![o] = [FreshRow EXCEPT !.state = "deleted"]]
    /\ Leave
    /\ UNCHANGED <<sheet, cache, sweep>>

\* Last transaction of the clean-up: the payment status is read again.
ReleaseFinish(o) ==
    /\ At(o, "finish") /\ section.op = "release"
    /\ orders' = IF Releasable(o)
                   THEN [orders EXCEPT ![o] = Rejected(@, "released")]
                   ELSE orders
    /\ Leave
    /\ UNCHANGED <<replays, customers, sheet, cache, sweep>>

-----------------------------------------------------------------------------
(* Failures                                                                *)

\* An exception or a cancelled request ends the section: a database error, a
\* failed ledger read, a cancellation.  _run_sheet_operation waits for a
\* running sheet call, so the section is never left in the middle of one; the
\* check after a lost answer is left out only when UnverifiedWrites.
Abandon ==
    /\ section # Idle
    /\ section.step \in {"verify_deduct", "verify_restore"} => UnverifiedWrites
    /\ Leave
    /\ UNCHANGED <<orders, replays, customers, sheet, cache, sweep>>

\* The store process dies: its session locks and its memory go with it.
Crash ==
    /\ section # Idle \/ cache # Null \/ sweep # {}
    /\ Leave
    /\ cache' = Null
    /\ sweep' = {}
    /\ UNCHANGED <<orders, replays, customers, sheet>>

-----------------------------------------------------------------------------
(* Payments and time                                                       *)

SetPayment(o, pay, proof) ==
    /\ orders' = [orders EXCEPT ![o] =
                    [@ EXCEPT !.pay = pay, !.proof = proof, !.applied = Applied(o, pay)]]
    /\ customers' = Totals(o, pay)
    /\ UNCHANGED <<replays, sheet, cache, section, sweep>>

\* Mutant: an order may be marked paid whatever its inventory status.
AdminPaymentUnchecked(o, pay) ==
    /\ Live(o) /\ orders[o].pay # pay
    /\ SetPayment(o, pay, orders[o].proof)

\* update_order_payment_status without proof: dashboard and Telegram.
AdminPayment(o, pay) ==
    /\ Live(o) /\ orders[o].pay # pay
    /\ pay \in PAID_STATUSES => orders[o].inv \in {"reserved", "legacy_unknown"}
    /\ SetPayment(o, pay, orders[o].proof)

SameProof(p, q) == p # Null /\ q # Null /\ (p.hash = q.hash \/ p.ref = q.ref)
Replayed(o, p) ==
    \/ \E x \in Orders \ {o} : SameProof(orders[x].proof, p)
    \/ \E q \in replays : SameProof(q, p)

\* Mutant: a repeated proof is recognised by its image only.
ProofPaymentHashOnly(o, p) ==
    /\ Live(o) /\ orders[o].pay = "pending"
    /\ ~ \E x \in Orders \ {o} : orders[x].proof # Null /\ orders[x].proof.hash = p.hash
    /\ ~ \E q \in replays : q.hash = p.hash
    /\ orders[o].inv \in {"reserved", "legacy_unknown"}
    /\ SetPayment(o, "proof_received", p)

\* update_order_payment_status with the proof a customer sent.
ProofPayment(o, p) ==
    /\ Live(o) /\ orders[o].pay = "pending"
    /\ ~Replayed(o, p)
    /\ orders[o].inv \in {"reserved", "legacy_unknown"}
    /\ SetPayment(o, "proof_received", p)

\* customers.delete_customer: orders.customer_id is ON DELETE SET NULL.
DeleteCustomer(c) ==
    /\ customers[c].live
    /\ customers' = [customers EXCEPT ![c] = [live |-> FALSE, total |-> 0]]
    /\ orders' = [o \in Orders |->
                    IF orders[o].cust = c THEN [orders[o] EXCEPT !.cust = Null]
                                          ELSE orders[o]]
    /\ UNCHANGED <<replays, sheet, cache, section, sweep>>

\* Half an hour after creation, and 48 hours after the reservation.
Age(o) ==
    /\ Live(o) /\ orders[o].age # "expired"
    /\ orders' = [orders EXCEPT ![o].age = IF @ = "recent" THEN "open" ELSE "expired"]
    /\ UNCHANGED <<replays, customers, sheet, cache, section, sweep>>

-----------------------------------------------------------------------------

SectionStep(o) ==
    \/ Deduct(o) \/ VerifyDeduct(o) \/ MarkFailed(o) \/ Finalize(o)
    \/ Inspect(o) \/ Restore(o) \/ VerifyRestore(o)
    \/ DeleteFinish(o) \/ ReleaseFinish(o)

Next ==
    \/ \E o \in Orders :
         \/ CreateReuse(o)
         \/ \E c \in Customers, k \in Carts : CreateInsert(o, c, k)
         \/ DeleteBegin(o)
         \/ ReleaseBegin(o)
         \/ SectionStep(o)
         \/ \E pay \in VALID_PAYMENT_STATUSES : AdminPayment(o, pay)
         \/ \E p \in Proofs : ProofPayment(o, p)
         \/ Age(o)
    \/ SweepSelect
    \/ Abandon
    \/ Crash
    \/ \E c \in Customers : DeleteCustomer(c)

Spec == Init /\ [][Next]_vars

(***************************************************************************)
(* Fairness.  The scheduler runs the clean-up every few minutes and the    *)
(* event loop finishes what it started; a lock, a query or the sheet may   *)
(* fail any number of times but not at every attempt the clean-up makes,   *)
(* and crashes stop eventually.                                            *)
(***************************************************************************)
Fairness ==
    /\ WF_vars(SweepSelect)
    /\ <>[][~Crash]_vars
    /\ \A o \in Orders :
         /\ WF_vars(SectionStep(o))
         /\ SF_vars(ReleaseBegin(o))
         /\ SF_vars(Inspect(o) /\ section.op = "release")
         /\ SF_vars(Restore(o) /\ section.op = "release" /\ section'.step = "finish")
         /\ SF_vars(ReleaseFinish(o))

FairSpec == Spec /\ Fairness

-----------------------------------------------------------------------------
(* Properties                                                              *)

(***************************************************************************)
(* Retries of create_order, delete_order and the clean-up, after lost      *)
(* answers, errors, cancellations and crashes, change the sheet's stock at *)
(* most once per operation id, and give back only what was taken.          *)
(***************************************************************************)
AppliedOnce ==
    \A o \in Orders : deducts[o] <= 1 /\ restores[o] <= deducts[o]

(***************************************************************************)
(* What inventory_status says is what the sheet did: a reserved order's    *)
(* units were taken and kept, a released, failed or deleted order's units  *)
(* were given back or never taken, a release_pending order's were taken.   *)
(***************************************************************************)
StatusMatchesStock ==
    \A o \in Orders :
        /\ orders[o].state = "deleted" => deducts[o] = restores[o]
        /\ Live(o) =>
             CASE orders[o].inv = "reserved" -> deducts[o] = 1 /\ restores[o] = 0
               [] orders[o].inv = "released" -> deducts[o] = restores[o]
               [] orders[o].inv = "release_pending" -> deducts[o] = 1
               [] orders[o].inv = "reservation_pending" -> restores[o] = 0
               [] OTHER -> deducts[o] = 0 /\ restores[o] = 0

(***************************************************************************)
(* The strengthening that makes the two properties above inductive.  The   *)
(* cached ledger is the sheet's whenever a mutation consults it; the       *)
(* ledger records exactly the mutations made; and each step of the locked  *)
(* section knows the order's status and what the sheet did for it.         *)
(***************************************************************************)
CacheFresh ==
    section.step \notin {"verify_deduct", "verify_restore"} => cache \in {Null, ledger}

LedgerExact ==
    \A o \in Orders :
        /\ deducts[o] = IF Records(ledger, Reserve(o)) THEN 1 ELSE 0
        /\ restores[o] = IF Records(ledger, Release(o)) THEN 1 ELSE 0
        /\ restores[o] <= deducts[o]
        /\ orders[o].state = "absent" => deducts[o] = 0

LiveHasCart == \A o \in Orders : Live(o) => orders[o].cart \in Carts

SectionKnows ==
    section # Idle =>
        LET o == section.order
            inv == orders[o].inv
        IN /\ Live(o)
           /\ section.step \in {"deduct", "verify_deduct", "mark_failed", "finalize"} =>
                section.op = "create" /\ inv = "reservation_pending"
           /\ section.step \in {"inspect", "restore", "verify_restore", "finish"} =>
                section.op \in {"delete", "release"}
           /\ section.step = "mark_failed" => deducts[o] = 0
           /\ section.step = "finalize" => deducts[o] = 1
           /\ section.step = "inspect" => inv = "reservation_pending"
           /\ section.step \in {"restore", "verify_restore"} => inv = "release_pending"
           /\ section.step = "finish" => deducts[o] = restores[o]
           /\ section.op = "release" =>
                inv \in {"reservation_pending", "release_pending"}

IndInv ==
    /\ TypeOK /\ LiveHasCart
    /\ CacheFresh /\ LedgerExact /\ StatusMatchesStock /\ SectionKnows

\* The units the orders of a set ask for, one element per unit.
UnitsOf(set) == UNION {{o} \X (1 .. Qty[orders[o].cart]) : o \in set}

(***************************************************************************)
(* Between operations, when no order is half-way, the stock cell is the    *)
(* initial stock less the units of the reserved orders: nothing leaks.     *)
(***************************************************************************)
StockAccounted ==
    (/\ section = Idle
     /\ \A o \in Orders : Live(o) =>
          orders[o].inv \notin {"reservation_pending", "release_pending"})
    => stock = InitialStock
                 - Cardinality(UnitsOf({o \in Orders : Live(o) /\ orders[o].inv = "reserved"}))

(***************************************************************************)
(* The clean-up never takes the stock of a paid order, although payment    *)
(* updates do not take the inventory lock: while it works on an order the  *)
(* order is unpaid, and a paid order is never in a released state.         *)
(***************************************************************************)
PaidKeepsStock ==
    /\ section.op = "release" => orders[section.order].pay \notin PAID_STATUSES
    /\ \A o \in Orders : Live(o) /\ orders[o].pay \in PAID_STATUSES =>
         orders[o].inv \in {"legacy_unknown", "reserved", "release_pending"}

(***************************************************************************)
(* customers.total_orders counts the customer's paid orders, each once,    *)
(* whatever the sequence of confirmations, reversals and deletions.        *)
(***************************************************************************)
TotalsExact ==
    \A c \in Customers : customers[c].live =>
        customers[c].total =
          Cardinality({o \in Orders : /\ Live(o) /\ orders[o].cust = c
                                      /\ orders[o].pay \in PAID_STATUSES})

(***************************************************************************)
(* A payment proof on record belongs to one order, deleted ones included:  *)
(* no two orders share the hash or the reference.                          *)
(***************************************************************************)
ProofUsedOnce ==
    \A o \in Orders : orders[o].proof # Null => ~Replayed(o, orders[o].proof)

(***************************************************************************)
(* The clean-up gives every reservation that is due back, through any      *)
(* finite run of failures, unless the order is paid or removed first.      *)
(***************************************************************************)
DueIsReleased == \A o \in Orders : Due(o) ~> ~Due(o)
=============================================================================
