------------------------------- MODULE Drafts -------------------------------
(***************************************************************************)
(* What a checkout draft says and what is ordered from it: the tool calls  *)
(* update_checkout_draft, finalize_checkout and create_order               *)
(* (store/app/ai/checkout/service.py, store/app/ai/tools/orders.py), the   *)
(* merge of partial updates (store/app/crm/sessions.py), the delivery      *)
(* policy (store/app/shipping.py) and the lookup of products in the cached *)
(* catalog, both of which change between any two steps of a call.          *)
(*                                                                         *)
(* Module Checkout has the life of the session and of its orders; here the *)
(* draft has its fields, and the calls come one after the other.  A draft  *)
(* has one item, and a row one presentation or none.  The catalog is a     *)
(* search by words: FoundBy[t] has every row whose text contains t, or all *)
(* terms of t, so the SKU of one row may find another row as well.         *)
(***************************************************************************)
EXTENDS Naturals, Sequences, FiniteSets

CONSTANTS Rows,           \* the active rows of the sheet, each by its SKU
          Texts,          \* what may be searched for, the SKUs among them
          FoundBy,        \* rows whose searchable text has a text
          Place, SizeOf,  \* of a row: position in the sheet, presentation or None
          Kin,            \* of a row: those with it as parent SKU, or with its name
          MaxStock,       \* bound: units of a row
          Cities, Zones, Couriers,
          Updates,        \* what the model may pass to update_checkout_draft
          Args,           \* what it may pass to create_order
          MaxUpdates, MaxChanges, MaxOrders, \* bounds of a behaviour
          None

\* "query" is product_query, or the name that create_order passes; canon is
\* canonical_sku.  The name and parent SKU of a draft are set together with
\* canon, and never looked up instead of it.
ItemFields == {"query", "sku", "canon", "size", "qty"}
DeliveryFields == {"city", "zone", "address", "method", "agency", "fulfil"}
Fields == ItemFields \cup DeliveryFields \cup {"pay"}

\* A patch has the fields the call names, None stands for null; the schemas of
\* the tools have neither canonical_sku nor fulfillment_type.
ASSUME DraftsAssumption ==
    /\ Rows \subseteq Texts /\ None \notin Texts
    /\ FoundBy \in [Texts -> SUBSET Rows] /\ \A r \in Rows : r \in FoundBy[r]
    /\ Place \in [Rows -> Nat] /\ DOMAIN SizeOf = Rows /\ Kin \in [Rows -> SUBSET Rows]
    /\ \A u \in Updates : /\ u.list \in BOOLEAN /\ u.saved \in BOOLEAN
                          /\ DOMAIN u.patch \subseteq Fields \ {"canon", "fulfil"}
                          /\ \A f \in DOMAIN u.patch \cap {"query", "sku"} :
                               u.patch[f] \in Texts \cup {None}
    /\ \A d \in Args : /\ d = [f \in Fields |-> d[f]] /\ d.canon = None /\ d.fulfil = None
                       /\ d.query \in Texts \cup {None} /\ d.sku \in Texts \cup {None}
    /\ MaxStock \in Nat /\ MaxUpdates \in Nat /\ MaxChanges \in Nat /\ MaxOrders \in Nat

VARIABLES catalog, \* cached stock of each row
          policy,  \* the delivery policy in the settings
          saved,   \* the customer's last delivery
          draft,   \* checkout_draft
          call,    \* the finalize_checkout or create_order at work
          orders,
          asked,   \* history: text and presentation the customer asked for last
          updates, changes

vars == <<catalog, policy, saved, draft, call, orders, asked, updates, changes>>

Empty == [f \in Fields |-> None]
Idle == [step |-> "idle", policy |-> None, draft |-> Empty, row |-> None, legacy |-> FALSE]
NothingAsked == [text |-> None, size |-> None, slipped |-> FALSE]

-----------------------------------------------------------------------------
(* The delivery policy                                                     *)

\* normalize_shipping_policy: a zone lies in a city with home delivery, and
\* such a city has no courier rate; the dashboard cannot save anything else.
Policies ==
    {p \in [home : SUBSET Cities, zones : SUBSET (Cities \X Zones), rates : SUBSET Cities] :
       /\ \A z \in p.zones : z[1] \in p.home
       /\ p.home \cap p.rates = {}}

\* resolve_delivery_quote and _resolve_home_delivery.
HomeQuote(p, city, zone) ==
    [fulfil |-> "home",
     status |-> IF zone = None THEN "needs_delivery_zone"
                ELSE IF <<city, zone>> \in p.zones THEN "quoted" ELSE "rate_unavailable"]
AgencyQuote(p, city, method) ==
    [fulfil |-> "agency",
     status |-> IF method \notin Couriers THEN "needs_shipping_method"
                ELSE IF city \in p.rates THEN "quoted" ELSE "rate_unavailable"]
Quote(p, city, zone, method) ==
    IF city = None THEN [fulfil |-> None, status |-> "needs_city"]
    ELSE IF city \in p.home THEN HomeQuote(p, city, zone)
    ELSE AgencyQuote(p, city, method)
QuoteFor(p, d) == Quote(p, d.city, d.zone, d.method)

-----------------------------------------------------------------------------
(* The catalog                                                             *)

\* The text that an item is looked up by: the SKU that it resolved to stays in
\* force when a later SKU or name does not resolve.
Query(item) == IF item.canon # None THEN item.canon
               ELSE IF item.sku # None THEN item.sku ELSE item.query

\* find_catalog_matches, by text and by presentation when there is one; the
\* exact _direct_catalog_matches after it finds nothing that this does not.
Matches(item) ==
    IF Query(item) = None THEN {}
    ELSE {r \in FoundBy[Query(item)] : item.size # None => SizeOf[r] = item.size}

\* The cache has only rows in stock.  The first match is taken.
InStock(item) == {r \in Matches(item) : catalog[r] > 0}
RowOf(item) == CHOOSE r \in InStock(item) : \A q \in InStock(item) : Place[r] <= Place[q]

\* _resolve_catalog_item
Resolution(item) ==
    IF InStock(item) = {} THEN "refused"
    ELSE IF item.size = None /\ Cardinality(InStock(item)) > 1 THEN "needs_presentation"
    ELSE IF item.qty # None /\ item.qty > catalog[RowOf(item)] THEN "refused"
    ELSE "ok"

-----------------------------------------------------------------------------
(* update_checkout_draft                                                   *)

\* A copy of a patch with the entries of new assigned.
Over(new, patch) == [f \in DOMAIN new \cup DOMAIN patch |->
                       IF f \in DOMAIN new THEN new[f] ELSE patch[f]]
Field(patch, f) == IF f \in DOMAIN patch THEN patch[f] ELSE None

\* _normalize_item_patch: a product that resolves by itself gets the SKU of the
\* row, and its presentation if none was given; any other patch stays as it is.
NormalizeItem(patch) ==
    LET item == [f \in ItemFields |-> Field(patch, f)]
        row == RowOf(item)
        skus == [sku |-> row, canon |-> row]
    IN  IF Query(item) = None \/ Resolution(item) # "ok" THEN patch
        ELSE IF item.size = None /\ SizeOf[row] # None
          THEN Over(Over([size |-> SizeOf[row]], skus), patch)
        ELSE Over(skus, patch)

\* _apply_delivery_context: a city decides how the order is delivered, and
\* clears what the other way of delivery needs.
ApplyDelivery(patch) ==
    LET quote == Quote(policy, Field(patch, "city"), Field(patch, "zone"), Field(patch, "method"))
    IN  CASE quote.fulfil = None -> patch
          [] quote.fulfil = "home" ->
               Over([fulfil |-> "home", method |-> None, agency |-> None], patch)
          [] quote.fulfil = "agency" ->
               Over([fulfil |-> "agency", address |-> None, zone |-> None], patch)

\* Mutant: the items of a list are merged field by field.
MergeDraftFields(list, patch) == [f \in Fields |-> IF f \in DOMAIN patch THEN patch[f] ELSE draft[f]]

\* merge_checkout_draft: a list of items replaces the item, fields by
\* themselves are laid over it.
MergeDraft(list, patch) ==
    [f \in Fields |-> IF f \in DOMAIN patch THEN patch[f]
                      ELSE IF list /\ f \in ItemFields THEN None ELSE draft[f]]

\* The saved delivery comes first if the customer agreed to it.
Known(d) == {f \in DeliveryFields : d[f] # None}
UseSaved(patch) == Over([f \in Known(saved) |-> saved[f]], patch)

\* What the customer has asked for: the last SKU or name, and the last
\* presentation since.  It "slipped" when it did not resolve by itself, was laid
\* over an item, and is not what that item is looked up by.
Asked(u, patch) ==
    LET said == {"query", "sku"} \cap DOMAIN u.patch
        text == IF Field(u.patch, "sku") # None THEN u.patch.sku ELSE Field(u.patch, "query")
    IN  IF u.list \/ said # {}
          THEN [text |-> text, size |-> Field(u.patch, "size"),
                slipped |-> /\ "canon" \notin DOMAIN patch
                            /\ Query(MergeDraft(u.list, patch)) # text]
        ELSE IF "size" \in DOMAIN u.patch THEN [asked EXCEPT !.size = u.patch.size]
        ELSE asked

Update(u) ==
    LET given == IF u.saved THEN UseSaved(u.patch) ELSE u.patch
        patch == ApplyDelivery(NormalizeItem(given))
    IN
    /\ call = Idle /\ updates < MaxUpdates
    /\ updates' = updates + 1
    /\ draft' = MergeDraft(u.list, patch)
    /\ asked' = Asked(u, patch)
    /\ UNCHANGED <<catalog, policy, saved, call, orders, changes>>

\* reset_session
Cancel ==
    /\ call = Idle
    /\ draft' = Empty /\ asked' = NothingAsked
    /\ UNCHANGED <<catalog, policy, saved, call, orders, updates, changes>>

-----------------------------------------------------------------------------
(* finalize_checkout and create_order                                      *)

\* CheckoutDraft.missing_fields and _missing_fields: the delivery is the one
\* that the policy resolves now.
Missing(d, quote) ==
    LET needed == CASE quote.fulfil = "home" -> {"zone", "address"}
                    [] quote.fulfil = "agency" -> {"method", "agency"}
                    [] OTHER -> {"method", "address"}
    IN  {f \in {"qty", "city", "pay"} \cup needed : d[f] = None}
          \cup (IF Query(d) = None \/ Resolution(d) = "needs_presentation" THEN {"items"} ELSE {})

\* Mutant: a city without a tariff is not an error.
NoErrorsInItems(d, quote) == Resolution(d) # "refused"

\* _validate_draft
NoErrors(d, quote) == Resolution(d) # "refused" /\ quote.status # "rate_unavailable"

\* The policy is read before the session.
Finalize ==
    /\ call = Idle /\ Len(orders) < MaxOrders
    /\ call' = [Idle EXCEPT !.step = "draft", !.policy = policy]
    /\ UNCHANGED <<catalog, policy, saved, draft, orders, asked, updates, changes>>

\* validate_legacy_delivery: the single agent's create_order passes the fields
\* itself; nothing is read from the session.
LegacyOrder(args) ==
    /\ call = Idle /\ Len(orders) < MaxOrders
    /\ call' = [Idle EXCEPT !.step = "draft", !.policy = policy, !.legacy = TRUE, !.draft = args]
    /\ UNCHANGED <<catalog, policy, saved, draft, orders, asked, updates, changes>>

\* The draft is complete and its item is looked up, or the call is refused.
Check ==
    LET d == IF call.legacy THEN call.draft ELSE draft
        quote == QuoteFor(call.policy, d)
    IN
    /\ call.step = "draft"
    /\ call' = IF Missing(d, quote) = {} /\ NoErrors(d, quote)
                  /\ (call.legacy => quote.status = "quoted")
                 THEN [call EXCEPT !.step = "create", !.draft = d, !.row = RowOf(d)]
                 ELSE Idle
    /\ UNCHANGED <<catalog, policy, saved, draft, orders, asked, updates, changes>>

\* create_order with the fields of the quote.
Delivery(p, d) ==
    LET quote == QuoteFor(p, d)
        home == quote.fulfil = "home"
    IN  [fulfil |-> quote.fulfil, city |-> d.city,
         zone |-> IF home /\ quote.status = "quoted" THEN d.zone ELSE None,
         address |-> IF home THEN d.address ELSE None,
         method |-> IF home \/ d.method \notin Couriers THEN None ELSE d.method,
         agency |-> IF home THEN None ELSE d.agency]
Required(to) == IF to.fulfil = "home" THEN {"city", "zone", "address"}
                                      ELSE {"city", "method", "agency"}

\* Mutant: a variant of any presentation will do.
VariantsOfAnySize(row) == IF catalog[row] > 0 THEN {row} ELSE {k \in Kin[row] : catalog[k] > 0}

\* _resolve_catalog_variant looks the SKU up again, exactly; when its row has
\* gone from the cache, by parent SKU and then by name in the same presentation.
Variants(row) ==
    IF catalog[row] > 0 THEN {row}
    ELSE {k \in Kin[row] : catalog[k] > 0 /\ SizeOf[row] \in {None, SizeOf[k]}}

\* Mutant: the stock is not looked at again.
OrderableAsChecked(row, to, qty) == \A f \in Required(to) : to[f] # None
Orderable(row, to, qty) ==
    /\ \A f \in Required(to) : to[f] # None
    /\ qty <= catalog[row]

\* What the arguments of create_order ask for.
AskedBy(args) == [text |-> Query(args), size |-> args.size, slipped |-> FALSE]

\* create_order has its own checks against the catalog as it is then; it may
\* also be refused by other checks, or fail.
Create ==
    LET to == Delivery(call.policy, call.draft)
        qty == call.draft.qty
    IN
    /\ call.step = "create"
    /\ \/ /\ \E v \in Variants(call.row) :
               /\ Orderable(v, to, qty)
               /\ orders' = Append(orders,
                    [row |-> v, qty |-> qty, to |-> to, policy |-> call.policy,
                     stock |-> catalog[v], canon |-> call.draft.canon, size |-> call.draft.size,
                     asked |-> IF call.legacy THEN AskedBy(call.draft) ELSE asked])
          /\ call' = [call EXCEPT !.step = "save"]
       \/ call' = Idle /\ UNCHANGED orders
    /\ UNCHANGED <<catalog, policy, saved, draft, asked, updates, changes>>

\* _save_shipping_address; the single agent's tool saves it as well.
SaveAddress ==
    /\ call.step = "save"
    /\ saved' = Delivery(call.policy, call.draft)
    /\ call' = IF call.legacy THEN Idle ELSE [call EXCEPT !.step = "bind"]
    /\ UNCHANGED <<catalog, policy, draft, orders, asked, updates, changes>>

\* set_current_order clears the draft.
Bind ==
    /\ call.step = "bind"
    /\ draft' = Empty /\ asked' = NothingAsked /\ call' = Idle
    /\ UNCHANGED <<catalog, policy, saved, orders, updates, changes>>

\* An error or a crash between two steps of a call.
Fail ==
    /\ call # Idle
    /\ call' = Idle
    /\ UNCHANGED <<catalog, policy, saved, draft, orders, asked, updates, changes>>

-----------------------------------------------------------------------------
(* The environment                                                         *)

\* The catalog is refreshed, or its cache adjusted by another order.
StockChanges ==
    /\ changes < MaxChanges /\ changes' = changes + 1
    /\ \E r \in Rows, n \in 0..MaxStock :
         n # catalog[r] /\ catalog' = [catalog EXCEPT ![r] = n]
    /\ UNCHANGED <<policy, saved, draft, call, orders, asked, updates>>

\* update_shipping_policy
PolicyChanges ==
    /\ changes < MaxChanges /\ changes' = changes + 1
    /\ policy' \in Policies \ {policy}
    /\ UNCHANGED <<catalog, saved, draft, call, orders, asked, updates>>

Init ==
    /\ catalog = [r \in Rows |-> MaxStock]
    /\ policy \in Policies
    /\ saved = Empty /\ draft = Empty /\ call = Idle
    /\ orders = <<>> /\ asked = NothingAsked
    /\ updates = 0 /\ changes = 0

Next ==
    \/ \E u \in Updates : Update(u)
    \/ \E args \in Args : LegacyOrder(args)
    \/ Cancel \/ Finalize \/ Check \/ Create \/ SaveAddress \/ Bind \/ Fail
    \/ StockChanges \/ PolicyChanges

Spec == Init /\ [][Next]_vars

-----------------------------------------------------------------------------
(* Properties                                                              *)

TypeOK ==
    /\ catalog \in [Rows -> 0..MaxStock]
    /\ policy \in Policies
    /\ DOMAIN draft = Fields
    /\ {draft.sku, draft.query} \subseteq Texts \cup {None} /\ draft.canon \in Rows \cup {None}
    /\ draft.fulfil \in {"home", "agency", None}
    /\ call.step \in {"idle", "draft", "create", "save", "bind"}
    /\ Len(orders) <= MaxOrders

\* An order can be delivered and was charged a tariff that existed when the
\* call read the policy: at home in a known zone, with an address and nothing
\* of a courier, or at an agency of a city with a rate, with courier and agency
\* and nothing of a home; whatever the draft still had of an earlier city, of a
\* saved delivery or of an earlier policy.
DeliverableAsQuoted ==
    /\ TypeOK
    /\ \A i \in DOMAIN orders :
      LET o == orders[i]
          to == o.to
      IN  \/ /\ to.fulfil = "home" /\ <<to.city, to.zone>> \in o.policy.zones
             /\ to.address # None /\ to.method = None /\ to.agency = None
          \/ /\ to.fulfil = "agency" /\ to.city \in o.policy.rates
             /\ to.method \in Couriers /\ to.agency # None
             /\ to.zone = None /\ to.address = None

\* Rows that a text may end in: it finds a row, whose SKU finds a row, in whose
\* place create_order may take one of its kin.
LookUps(text) == UNION {FoundBy[r] : r \in FoundBy[text]}
Ends(text) == LookUps(text) \cup UNION {Kin[r] : r \in LookUps(text)}

\* No row but r has the SKU of r in its text, and create_order has no row of the
\* same presentation to put in its place.
Alone(r) == FoundBy[r] = {r} /\ \A k \in Kin[r] : SizeOf[r] \notin {None, SizeOf[k]}

\* What is ordered is what the customer asked for last, in that presentation:
\* never a product of an earlier mind, and nothing further from the words than
\* the look-ups lead.  Texts that slipped are left out: see the README.  The
\* quantity was in the catalog at that moment.  "Checkout always re-resolves the
\* exact sellable SKU" (docs/CATALOG_SCHEMA.md:80): a draft that holds a SKU
\* orders that SKU, through every sell-out between the look-ups, if it is alone in
\* the sheet; if it is not, the search by words may find another row.
OrderedAsAsked ==
    \A i \in DOMAIN orders :
      LET o == orders[i] IN
      /\ o.qty <= o.stock
      /\ \/ o.asked.slipped
         \/ /\ o.asked.text \in Texts /\ o.row \in Ends(o.asked.text)
            /\ o.asked.size \in {None, SizeOf[o.row]}
      /\ o.canon # None /\ Alone(o.canon) => o.row = o.canon
=============================================================================
