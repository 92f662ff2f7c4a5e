------------------------------ MODULE Checkout ------------------------------
(***************************************************************************)
(* The purchase of one customer: the workflow session                      *)
(* (store/app/crm/sessions.py), the checkout service that turns its draft  *)
(* into an order (store/app/ai/checkout/service.py) and the order a        *)
(* payment proof is held against (store/app/ai/payment/verifier.py).       *)
(*                                                                         *)
(* The operators below are single statements or transactions on the        *)
(* session and the orders; module Turns strings them together.  An order   *)
(* is here what those callers see of it: module Orders has its             *)
(* reservation in the stock sheet.                                         *)
(***************************************************************************)
EXTENDS Integers, Sequences, FiniteSets

CONSTANTS Carts,     \* complete drafts: items, address, payment method
          MaxUnpaid, \* MAX_ACTIVE_UNPAID_ORDERS
          MaxOrders, \* bound: orders ever made
          MaxDrafts  \* bound: versions of the draft

ASSUME CheckoutAssumption ==
    /\ IsFiniteSet(Carts) /\ Carts \cap {"empty", "partial"} = {}
    /\ MaxUnpaid \in Nat \ {0} /\ MaxOrders \in Nat /\ MaxDrafts \in Nat

VARIABLES session, \* the conversation_sessions row
          orders,  \* the customer's orders, oldest first
          drafts,  \* history: versions of the draft so far
          gone     \* history: versions that were ordered, cancelled or reset away

checkoutVars == <<session, orders, drafts, gone>>

Stages == {"idle", "sales", "support", "collecting", "ready", "waiting", "completed"}
Session == [stage : Stages, draft : Carts \cup {"empty", "partial"},
            version : 0..MaxDrafts, order : 0..MaxOrders]
Fresh == [stage |-> "idle", draft |-> "empty", version |-> 0, order |-> 0]

\* A reserving order is reservation_pending, an open one pending or
\* proof_received with its stock reserved; a closed one is paid, rejected or
\* released.  "asked" is history: it was asked for as a separate purchase.
Order == [st : {"reserving", "pending", "proof", "closed"}, cart : Carts,
          recent : BOOLEAN, asked : BOOLEAN]

Numbers(S) == {i \in DOMAIN orders : orders[i].st \in S}
Unpaid == Numbers({"reserving", "pending", "proof"})
Open == Numbers({"pending", "proof"})
Newest(S) == CHOOSE i \in S : \A j \in S : j <= i

CheckoutInit ==
    /\ session = Fresh
    /\ orders = <<>>
    /\ drafts = 0 /\ gone = {}

-----------------------------------------------------------------------------
(* sessions.py                                                             *)

\* Mutant: the stage is reset and the draft is kept.
ResetKeepsDraft ==
    /\ session' = [session EXCEPT !.stage = "idle", !.order = 0]
    /\ gone' = gone \cup ({session.version} \ {0})
    /\ UNCHANGED <<orders, drafts>>

\* reset_session
ResetSession ==
    /\ session' = Fresh
    /\ gone' = gone \cup ({session.version} \ {0})
    /\ UNCHANGED <<orders, drafts>>

\* set_current_order: clears the draft with the statement that binds.
SetCurrentOrder(order, stage) ==
    /\ session' = [Fresh EXCEPT !.stage = stage, !.order = order]
    /\ gone' = gone \cup ({session.version} \ {0})
    /\ UNCHANGED <<orders, drafts>>

\* set_active_agent: the stage of the agent, whatever the stage was.
SetStage(stage) ==
    /\ session' = [session EXCEPT !.stage = stage]
    /\ UNCHANGED <<orders, drafts, gone>>

\* update_checkout_draft: merges the fields under the row's lock; the stage
\* follows from the draft alone.
UpdateDraft(draft) ==
    /\ drafts < MaxDrafts
    /\ drafts' = drafts + 1
    /\ session' = [session EXCEPT !.draft = draft, !.version = drafts + 1,
                                  !.stage = IF draft \in Carts THEN "ready" ELSE "collecting"]
    /\ UNCHANGED <<orders, gone>>

-----------------------------------------------------------------------------
(* finalize_checkout and create_order                                      *)

\* The order that the session waits to be paid for.
Bound(s) == s.order # 0 /\ s.stage = "waiting"

\* Mutant: only the session's own order stands in the way of another.
MayOrderUnbound(s, startNew) ==
    /\ IF startNew THEN Cardinality(Unpaid) < MaxUnpaid ELSE ~Bound(s)
    /\ s.draft \in Carts

\* finalize_checkout with the session it read: it goes on to create_order;
\* otherwise it answers already_finalized, existing_unpaid_order,
\* max_pending_orders or missing_fields.
MayOrder(s, startNew) ==
    /\ IF startNew THEN Cardinality(Unpaid) < MaxUnpaid
                   ELSE ~Bound(s) /\ Numbers({"pending"}) = {}
    /\ s.draft \in Carts

\* Mutant: only reserved orders are looked at.
SameOpenPending(cart) ==
    {i \in Open : orders[i].cart = cart /\ orders[i].recent}

\* The recent order with the same content that create_order takes instead.
SameOpen(cart) ==
    {i \in Unpaid : /\ orders[i].cart = cart
                    /\ orders[i].st = "reserving" \/ orders[i].recent}

\* What create_order may make of the orders under the inventory lock, and the
\* number it returns, 0 when the customer has too many: it takes the matching
\* order or a new one; the reservation succeeds, or fails, or its outcome stays
\* unknown.
Raised == -1
CreateOrder(cart, asked) ==
    LET same == SameOpen(cart)
        i == IF same # {} THEN Newest(same) ELSE Len(orders) + 1
        found == IF same # {} THEN [orders EXCEPT ![i].asked = @ \/ asked]
                 ELSE Append(orders, [st |-> "reserving", cart |-> cart, recent |-> TRUE,
                                      asked |-> asked])
    IN  IF same = {} /\ Cardinality(Unpaid) >= MaxUnpaid THEN {[order |-> 0, all |-> orders]}
        ELSE IF i > MaxOrders THEN {}
        ELSE IF found[i].st # "reserving" THEN {[order |-> i, all |-> found]}
        ELSE {[order |-> i, all |-> [found EXCEPT ![i].st = "pending"]],
              [order |-> Raised, all |-> [found EXCEPT ![i].st = "closed"]],
              [order |-> Raised, all |-> found]}

-----------------------------------------------------------------------------
(* The payment verifier                                                    *)

\* _get_payment_target_order: the session's order, or the only open one;
\* 0 when there is none or several.
PaymentTarget ==
    IF Bound(session) /\ session.order \in Open THEN session.order
    ELSE IF Cardinality(Open) = 1 THEN Newest(Open)
    ELSE 0

\* update_order_payment_status(proof_received); an order that was closed in
\* between is refused.
RecordProof(i) ==
    /\ orders' = [orders EXCEPT ![i].st = "proof"]
    /\ UNCHANGED <<session, drafts, gone>>

-----------------------------------------------------------------------------
(* The environment                                                         *)

\* An administrator confirms or rejects it, the clean-up releases it.
OrderCloses(i) ==
    /\ i \in Unpaid
    /\ orders' = [orders EXCEPT ![i].st = "closed"]
    /\ UNCHANGED <<session, drafts, gone>>

\* Thirty minutes pass: create_order does not match it any more.
OrderAges(i) ==
    /\ i \in Unpaid /\ orders[i].recent
    /\ orders' = [orders EXCEPT ![i].recent = FALSE]
    /\ UNCHANGED <<session, drafts, gone>>

-----------------------------------------------------------------------------
CheckoutTypeOK ==
    /\ session \in Session
    /\ orders \in Seq(Order) /\ Len(orders) <= MaxOrders
    /\ drafts \in 0..MaxDrafts
    /\ gone \subseteq 1..MaxDrafts

(***************************************************************************)
(* A customer does not end up with two orders for one purchase: of two     *)
(* that wait for their payment one was asked for as a separate purchase,   *)
(* and a crash, a lost answer or a time-out that makes the customer, or    *)
(* the model, order the same content again within thirty minutes finds the *)
(* first order (finalize_checkout's checks, create_order's match).         *)
(***************************************************************************)
OneOrderPerPurchase ==
    \A i, j \in DOMAIN orders :
      i < j => /\ orders[i].st = "pending" /\ orders[j].st = "pending"
                    => orders[i].asked \/ orders[j].asked
               /\ i \in Unpaid /\ j \in Unpaid /\ orders[i].recent
                    => orders[i].cart # orders[j].cart
=============================================================================
