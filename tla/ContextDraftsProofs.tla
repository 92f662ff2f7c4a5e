------------------------- MODULE ContextDraftsProofs -------------------------
(***************************************************************************)
(* Theorems about the two things that give a message its meaning: the      *)
(* checkout draft of the conversation, and the post or story behind it.    *)
(*                                                                         *)
(* Drafts, for any catalog, search by words, cities, updates and bounds:   *)
(* what the draft has to do with what the customer asked for, what a call  *)
(* knows of the row and the delivery that it checked, that every order can *)
(* be delivered as quoted and that its row is where the words asked for    *)
(* lead; and, if no SKU is part of another row's text, that it is exactly  *)
(* the row of the draft's SKU.                                             *)
(*                                                                         *)
(* MetaContext, for any finite sets of events and jobs, any tasks, signals *)
(* and bounds: the two tables agree on every match, a match is made only   *)
(* between two rows that prefer each other, and a verdict is final.        *)
(***************************************************************************)
EXTENDS Drafts, MetaContext, FiniteSetTheorems, WellFoundedInduction, TLAPS


-----------------------------------------------------------------------------
(* Values and types                                                        *)

\* What a field of a draft may hold.
Values == (UNION {{u.patch[f] : f \in DOMAIN u.patch} : u \in Updates})
          \cup (UNION {{d[f] : f \in Fields} : d \in Args})
          \cup Texts \cup {SizeOf[r] : r \in Rows} \cup {"home", "agency", None}
Ways == {"home", "agency", None}
DraftSet == [Fields -> Values]
To == [fulfil : Ways, city : Values, zone : Values, address : Values, method : Values,
       agency : Values]
AskedSet == [text : Texts \cup {None}, size : Values, slipped : BOOLEAN]
Calls == [step : {"idle", "draft", "create", "save", "bind"}, policy : Policies \cup {None},
          draft : DraftSet, row : Rows \cup {None}, legacy : BOOLEAN]
Order == [row : Rows, qty : Values, to : To, policy : Policies \cup {None},
          stock : 0..MaxStock, canon : Rows \cup {None}, size : Values, asked : AskedSet]

Named(d) == /\ d.canon \in Rows \cup {None} /\ d.sku \in Texts \cup {None}
            /\ d.query \in Texts \cup {None} /\ d.fulfil \in Ways
Typed ==
    /\ catalog \in [Rows -> 0..MaxStock] /\ policy \in Policies
    /\ draft \in DraftSet /\ Named(draft)
    /\ \A f \in DeliveryFields : saved[f] \in Values
    /\ saved.fulfil \in Ways
    /\ call \in Calls /\ orders \in Seq(Order) /\ asked \in AskedSet
    /\ Len(orders) <= MaxOrders

-----------------------------------------------------------------------------
(* The invariant                                                           *)

\* A row is one that the look-ups of a request lead to, in its presentation.
Fits(request, row) ==
    request.slipped \/ /\ request.text \in Texts /\ row \in LookUps(request.text)
                       /\ request.size \in {None, SizeOf[row]}

\* The draft is looked up by the text that was asked for, or by the SKU of a row
\* which that text finds.
DraftSuits ==
    asked.slipped \/ /\ asked.size \in {None, draft.size}
                     /\ \/ Query(draft) = asked.text
                        \/ asked.text \in Texts /\ draft.canon \in FoundBy[asked.text]

\* What a call has read or checked; nothing else moves the draft meanwhile.
Request == IF call.legacy THEN AskedBy(call.draft) ELSE asked
CallKnows ==
    /\ call.step \in {"draft", "create"} => Len(orders) < MaxOrders
    /\ call.step = "draft" /\ call.legacy => call.draft \in Args
    /\ call.step = "create" =>
         /\ call.row \in Matches(call.draft) /\ Fits(Request, call.row) /\ Named(call.draft)
         /\ QuoteFor(call.policy, call.draft).status # "rate_unavailable"

DeliveredAsQuoted(to, p) ==
    \/ /\ to.fulfil = "home" /\ <<to.city, to.zone>> \in p.zones
       /\ to.address # None /\ to.method = None /\ to.agency = None
    \/ /\ to.fulfil = "agency" /\ to.city \in p.rates
       /\ to.method \in Couriers /\ to.agency # None
       /\ to.zone = None /\ to.address = None
OrderSuits(o) ==
    /\ o.qty <= o.stock
    /\ o.asked.slipped \/ /\ o.asked.text \in Texts /\ o.row \in Ends(o.asked.text)
                          /\ o.asked.size \in {None, SizeOf[o.row]}
\* The row that an order was made from, by the SKU of its draft; create_order
\* took that row, or one of its kin in the same presentation.
OrderFound(o) ==
    o.canon # None => \E r \in FoundBy[o.canon] :
                        \/ o.row = r
                        \/ o.row \in Kin[r] /\ SizeOf[r] \in {None, SizeOf[o.row]}
OrdersOK == \A i \in DOMAIN orders :
    /\ DeliveredAsQuoted(orders[i].to, orders[i].policy)
    /\ OrderSuits(orders[i]) /\ OrderFound(orders[i])

IInv == Typed /\ DraftSuits /\ CallKnows /\ OrdersOK
-----------------------------------------------------------------------------
(* The catalog                                                             *)

\* A row that matches an item is found by what the item is looked up by, and has
\* the presentation that the item has.
LEMMA RowMatches ==
  ASSUME NEW item, Named(item), NEW r \in Matches(item)
  PROVE  /\ r \in Rows /\ Query(item) \in Texts /\ r \in FoundBy[Query(item)]
         /\ item.size # None => SizeOf[r] = item.size
<1>1. Query(item) # None /\ r \in FoundBy[Query(item)]
  BY DEF Matches
<1>2. Query(item) \in Texts
  BY <1>1, DraftsAssumption DEF Query, Named
<1>3. item.size # None => SizeOf[r] = item.size
  BY DEF Matches
<1> QED
  BY <1>1, <1>2, <1>3, DraftsAssumption

\* Of any rows there is a first one in the sheet.
LEMMA FirstRow ==
  ASSUME NEW S \in SUBSET Rows, S # {}
  PROVE  \E r \in S : \A q \in S : Place[r] <= Place[q]
<1> DEFINE T == {Place[r] : r \in S}
           R == OpToRel(<, Nat)
<1>1. T \subseteq Nat /\ T # {}
  BY DraftsAssumption
<1>2. IsWellFoundedOn(R, Nat)
  BY NatLessThanWellFounded
<1>3. \A x, y \in Nat : y < x => <<y, x>> \in R
  BY DEF OpToRel
<1> HIDE DEF T, R
<1>4. PICK x \in T : \A y \in T : ~(<<y, x>> \in R)
  BY <1>1, <1>2, WFMin
<1>5. ASSUME NEW y \in T PROVE x <= y
  <2>1. <<y, x>> \notin R /\ x \in Nat /\ y \in Nat
    BY <1>1, <1>4
  <2>2. ~(y < x)
    BY <1>3, <2>1
  <2> QED
    BY <2>1, <2>2
<1>6. \A q \in S : x <= Place[q]
  BY <1>5 DEF T
<1>7. PICK r \in S : x = Place[r]
  BY <1>4 DEF T
<1> QED
  BY <1>6, <1>7

\* An item that is not refused has a row in stock, and RowOf gives one.
LEMMA RowFound ==
  ASSUME NEW item, Named(item), Resolution(item) # "refused"
  PROVE  RowOf(item) \in Matches(item)
<1>1. InStock(item) # {}
  BY DEF Resolution
<1>2. InStock(item) \in SUBSET Rows
  BY RowMatches DEF InStock
<1>3. RowOf(item) \in InStock(item)
  BY <1>1, <1>2, FirstRow DEF RowOf
<1> QED
  BY <1>3 DEF InStock

-----------------------------------------------------------------------------
(* Patches                                                                 *)

\* A patch on its way to the draft.
Patch(p) ==
    /\ DOMAIN p \subseteq Fields /\ \A f \in DOMAIN p : p[f] \in Values
    /\ "canon" \in DOMAIN p => p["canon"] \in Rows
    /\ "sku" \in DOMAIN p => p["sku"] \in Texts \cup {None}
    /\ "query" \in DOMAIN p => p["query"] \in Texts \cup {None}
    /\ "fulfil" \in DOMAIN p => p["fulfil"] \in Ways

\* Two patches say the same of the item.
SameItem(p, q) == \A f \in ItemFields : /\ f \in DOMAIN p <=> f \in DOMAIN q
                                        /\ f \in DOMAIN p => p[f] = q[f]

\* The text of a patch: a SKU before a name.
TextOf(p) == IF Field(p, "sku") # None THEN Field(p, "sku") ELSE Field(p, "query")

\* q is what NormalizeItem makes of p when it resolves: with the SKU of a row
\* that the text of p finds, in the presentation that p has, if it has one.
Resolved(p, q) ==
    /\ TextOf(p) \in Texts
    /\ "canon" \in DOMAIN q /\ q["canon"] \in FoundBy[TextOf(p)]
    /\ Field(p, "size") = None \/ ("size" \in DOMAIN q /\ q["size"] = Field(p, "size"))

LEMMA OverOf ==
  ASSUME NEW new, NEW patch
  PROVE  /\ DOMAIN Over(new, patch) = DOMAIN new \cup DOMAIN patch
         /\ \A f \in DOMAIN new : Over(new, patch)[f] = new[f]
         /\ \A f \in DOMAIN patch \ DOMAIN new : Over(new, patch)[f] = patch[f]
BY DEF Over

LEMMA FieldsApart == /\ ItemFields \cap DeliveryFields = {} /\ DeliveryFields \subseteq Fields
                     /\ ItemFields \subseteq Fields /\ "fulfil" \in DeliveryFields
                     /\ {"query", "sku", "canon", "size", "qty"} \subseteq ItemFields
BY DEF ItemFields, DeliveryFields, Fields

LEMMA ValuesHave ==
  /\ \A u \in Updates : \A f \in DOMAIN u.patch : u.patch[f] \in Values
  /\ \A d \in Args : \A f \in Fields : d[f] \in Values
  /\ \A t \in Texts : t \in Values
  /\ \A r \in Rows : r \in Texts /\ SizeOf[r] \in Values
  /\ Ways \subseteq Values /\ None \in Values
<1> DEFINE Of(u) == {u.patch[f] : f \in DOMAIN u.patch}
           All == UNION {Of(u) : u \in Updates}
           In(d) == {d[f] : f \in Fields}
           AllArgs == UNION {In(d) : d \in Args}
<1>1. ASSUME NEW u \in Updates, NEW f \in DOMAIN u.patch
      PROVE  u.patch[f] \in All
  <2>1. u.patch[f] \in Of(u)
    OBVIOUS
  <2>2. Of(u) \in {Of(x) : x \in Updates}
    OBVIOUS
  <2> QED
    BY <2>1, <2>2
<1>2. ASSUME NEW d \in Args, NEW f \in Fields
      PROVE  d[f] \in AllArgs
  <2>1. d[f] \in In(d)
    OBVIOUS
  <2>2. In(d) \in {In(x) : x \in Args}
    OBVIOUS
  <2> QED
    BY <2>1, <2>2
<1>3. Values = All \cup AllArgs \cup Texts \cup {SizeOf[r] : r \in Rows} \cup {"home", "agency", None}
  BY DEF Values
<1> HIDE DEF All, AllArgs
<1>4. \A r \in Rows : SizeOf[r] \in Values
  BY <1>3
<1>5. Ways \subseteq Values /\ None \in Values /\ \A t \in Texts : t \in Values
  BY <1>3 DEF Ways
<1>6. \A r \in Rows : r \in Texts
  BY DraftsAssumption
<1> QED
  BY <1>1, <1>2, <1>3, <1>4, <1>5, <1>6

\* A patch laid over another one is a patch.
LEMMA OverPatch ==
  ASSUME NEW new, NEW p, Patch(new), Patch(p)
  PROVE  Patch(Over(new, p))
<1> DEFINE q == Over(new, p)
<1>1. \A f \in DOMAIN q : (f \in DOMAIN new /\ q[f] = new[f]) \/ (f \in DOMAIN p /\ q[f] = p[f])
  BY DEF Over
<1>2. DOMAIN q = DOMAIN new \cup DOMAIN p
  BY OverOf
<1> HIDE DEF q
<1>3. DOMAIN q \subseteq Fields /\ \A f \in DOMAIN q : q[f] \in Values
  BY <1>1, <1>2 DEF Patch
<1>4. "canon" \in DOMAIN q => q["canon"] \in Rows
  BY <1>1 DEF Patch
<1>5. /\ "sku" \in DOMAIN q => q["sku"] \in Texts \cup {None}
      /\ "query" \in DOMAIN q => q["query"] \in Texts \cup {None}
  BY <1>1 DEF Patch
<1>6. "fulfil" \in DOMAIN q => q["fulfil"] \in Ways
  BY <1>1 DEF Patch
<1>7. Patch(q)
  BY <1>3, <1>4, <1>5, <1>6 DEF Patch
<1> QED
  BY <1>7 DEF q

\* A patch of the delivery leaves the item alone.
LEMMA OverItem ==
  ASSUME NEW new, NEW p, DOMAIN new \subseteq DeliveryFields
  PROVE  SameItem(p, Over(new, p))
<1>1. SUFFICES ASSUME NEW f \in ItemFields
               PROVE  /\ f \in DOMAIN p <=> f \in DOMAIN Over(new, p)
                      /\ f \in DOMAIN p => p[f] = Over(new, p)[f]
  BY DEF SameItem
<1>2. f \notin DOMAIN new
  BY FieldsApart
<1>3. f \in DOMAIN p <=> f \in DOMAIN Over(new, p)
  BY <1>2, OverOf
<1>4. f \in DOMAIN p => Over(new, p)[f] = p[f]
  BY <1>2 DEF Over
<1> QED
  BY <1>3, <1>4

LEMMA GivenPatch ==
  ASSUME NEW u \in Updates
  PROVE  Patch(u.patch) /\ "canon" \notin DOMAIN u.patch
<1>1. DOMAIN u.patch \subseteq Fields \ {"canon", "fulfil"}
  BY DraftsAssumption
<1>2. \A f \in DOMAIN u.patch : u.patch[f] \in Values
  BY ValuesHave
<1>3. /\ "query" \in DOMAIN u.patch => u.patch["query"] \in Texts \cup {None}
      /\ "sku" \in DOMAIN u.patch => u.patch["sku"] \in Texts \cup {None}
  BY DraftsAssumption
<1> QED
  BY <1>1, <1>2, <1>3 DEF Patch

LEMMA SavedPatch ==
  ASSUME NEW p, Patch(p), Typed
  PROVE  Patch(UseSaved(p)) /\ SameItem(p, UseSaved(p))
<1> DEFINE new == [f \in Known(saved) |-> saved[f]]
<1>1. DOMAIN new \subseteq DeliveryFields /\ \A f \in DOMAIN new : new[f] = saved[f]
  BY DEF Known
<1>2. \A f \in DOMAIN new : new[f] \in Values
  BY <1>1 DEF Typed
<1>3. "fulfil" \in DOMAIN new => new["fulfil"] \in Ways
  BY <1>1 DEF Typed
<1>4. {"sku", "query", "canon"} \cap DOMAIN new = {}
  BY <1>1, FieldsApart
<1>5. UseSaved(p) = Over(new, p)
  BY DEF UseSaved
<1> HIDE DEF new
<1>6. Patch(new)
  BY <1>1, <1>2, <1>3, <1>4, FieldsApart DEF Patch
<1>7. Patch(Over(new, p)) /\ SameItem(p, Over(new, p))
  BY <1>1, <1>6, OverPatch, OverItem
<1> QED
  BY <1>5, <1>7

LEMMA DeliveryPatch ==
  ASSUME NEW p, Patch(p)
  PROVE  Patch(ApplyDelivery(p)) /\ SameItem(p, ApplyDelivery(p))
<1> DEFINE home == [fulfil |-> "home", method |-> None, agency |-> None]
           agency == [fulfil |-> "agency", address |-> None, zone |-> None]
<1>1. ASSUME NEW new \in {home, agency}
      PROVE  Patch(Over(new, p)) /\ SameItem(p, Over(new, p))
  <2>1. DOMAIN new \subseteq DeliveryFields
    BY DEF DeliveryFields
  <2>2. \A f \in DOMAIN new : new[f] \in {"home", "agency", None}
    OBVIOUS
  <2> HIDE DEF home, agency
  <2>3. {"home", "agency", None} \subseteq Values /\ Ways = {"home", "agency", None}
    BY ValuesHave DEF Ways
  <2>4. {"sku", "query", "canon"} \cap DOMAIN new = {}
    BY <2>1, FieldsApart
  <2>5. Patch(new)
    BY <2>1, <2>2, <2>3, <2>4, FieldsApart DEF Patch
  <2> QED
    BY <2>1, <2>5, OverPatch, OverItem
<1> DEFINE quote == Quote(policy, Field(p, "city"), Field(p, "zone"), Field(p, "method"))
<1>2. quote.fulfil \in {None, "home", "agency"}
  BY DEF Quote, HomeQuote, AgencyQuote
<1>3. ApplyDelivery(p) \in {p, Over(home, p), Over(agency, p)}
  BY <1>2 DEF ApplyDelivery
<1>4. SameItem(p, p)
  BY DEF SameItem
<1> QED
  BY <1>1, <1>3, <1>4

LEMMA NormalizedPatch ==
  ASSUME NEW p, Patch(p), "canon" \notin DOMAIN p
  PROVE  LET q == NormalizeItem(p)
         IN  Patch(q) /\ (q = p \/ Resolved(p, q))
<1> DEFINE item == [f \in ItemFields |-> Field(p, f)]
           row == RowOf(item)
           skus == [sku |-> row, canon |-> row]
           sized == Over([size |-> SizeOf[row]], skus)
<1>1. CASE Query(item) # None /\ Resolution(item) = "ok"
  <2>1. /\ item.canon = None /\ item.size = Field(p, "size")
        /\ item.sku = Field(p, "sku") /\ item.query = Field(p, "query")
    BY FieldsApart DEF Field
  <2>2. Query(item) = TextOf(p)
    BY <2>1 DEF Query, TextOf
  <2>3. row \in Rows /\ TextOf(p) \in Texts /\ row \in FoundBy[TextOf(p)]
        /\ (item.size # None => SizeOf[row] = item.size)
    <3>1. InStock(item) # {}
      BY <1>1 DEF Resolution
    <3>2. TextOf(p) \in Texts
      BY <1>1, <2>2 DEF TextOf, Field, Patch
    <3> HIDE DEF item
    <3>3. Matches(item) \subseteq Rows
      BY <2>2, <3>2, DraftsAssumption DEF Matches
    <3>4. row \in InStock(item)
      BY <3>1, <3>3, FirstRow DEF RowOf, InStock
    <3>5. row \in Matches(item)
      BY <3>4 DEF InStock
    <3> QED
      BY <2>2, <3>2, <3>3, <3>5 DEF Matches
  <2>4. NormalizeItem(p) \in {Over(skus, p), Over(sized, p)}
        /\ (Field(p, "size") # None => NormalizeItem(p) = Over(skus, p))
    BY <1>1, <2>1 DEF NormalizeItem
  <2>5. ASSUME NEW new, Patch(new), "canon" \in DOMAIN new, new["canon"] = row,
               "size" \in DOMAIN new => Field(p, "size") = None
        PROVE  Patch(Over(new, p)) /\ Resolved(p, Over(new, p))
    <3> DEFINE q == Over(new, p)
    <3>1. Patch(q)
      BY <2>5, OverPatch
    <3>2. DOMAIN q = DOMAIN new \cup DOMAIN p /\ q["canon"] = row
      BY <2>5, OverOf
    <3>3. Field(p, "size") # None => "size" \in DOMAIN p \ DOMAIN new
      BY <2>5 DEF Field
    <3>4. Field(p, "size") # None => q["size"] = Field(p, "size")
      <4>1. Field(p, "size") # None => q["size"] = p["size"]
        BY <3>3 DEF Over
      <4> QED
        BY <4>1 DEF Field
    <3> HIDE DEF q, row
    <3>5. Resolved(p, q)
      BY <2>3, <2>5, <3>2, <3>3, <3>4 DEF Resolved
    <3> QED
      BY <3>1, <3>5 DEF q
  <2> HIDE DEF row, item
  <2>6. row \in Texts /\ row \in Values /\ SizeOf[row] \in Values
    BY <2>3, ValuesHave
  <2>7. /\ DOMAIN skus = {"sku", "canon"} /\ skus["sku"] = row /\ skus["canon"] = row
    OBVIOUS
  <2>8. /\ DOMAIN sized = {"sku", "canon", "size"} /\ sized["sku"] = row
        /\ sized["canon"] = row /\ sized["size"] = SizeOf[row]
    BY DEF Over
  <2> HIDE DEF skus, sized
  <2>9. Patch(skus) /\ Patch(sized)
    BY <2>3, <2>6, <2>7, <2>8, FieldsApart DEF Patch
  <2>10. Patch(Over(skus, p)) /\ Resolved(p, Over(skus, p))
    BY <2>5, <2>7, <2>9
  <2>11. Field(p, "size") = None => Patch(Over(sized, p)) /\ Resolved(p, Over(sized, p))
    BY <2>5, <2>8, <2>9
  <2> QED
    BY <2>4, <2>10, <2>11
<1>2. CASE ~(Query(item) # None /\ Resolution(item) = "ok")
  BY <1>2 DEF NormalizeItem
<1> QED
  BY <1>1, <1>2

-----------------------------------------------------------------------------
(* update_checkout_draft                                                   *)

\* What Update lays over the draft.
PatchOf(u) == ApplyDelivery(NormalizeItem(IF u.saved THEN UseSaved(u.patch) ELSE u.patch))

\* It says of the item what the call said, or more.
LEMMA PatchOfCall ==
  ASSUME Typed, NEW u \in Updates
  PROVE  /\ Patch(PatchOf(u))
         /\ \/ SameItem(u.patch, PatchOf(u))
            \/ Resolved(u.patch, PatchOf(u))
<1> DEFINE given == IF u.saved THEN UseSaved(u.patch) ELSE u.patch
           norm == NormalizeItem(given)
           patch == ApplyDelivery(norm)
<1>1. Patch(given) /\ SameItem(u.patch, given) /\ "canon" \notin DOMAIN given
  <2>1. SameItem(u.patch, u.patch)
    BY DEF SameItem
  <2>2. Patch(given) /\ SameItem(u.patch, given)
    BY <2>1, GivenPatch, SavedPatch
  <2> HIDE DEF given
  <2>3. "canon" \notin DOMAIN given
    BY <2>2, GivenPatch, FieldsApart DEF SameItem
  <2> QED
    BY <2>2, <2>3
<1>2. PatchOf(u) = patch
  BY DEF PatchOf
<1> HIDE DEF given
<1>3. Patch(norm) /\ (norm = given \/ Resolved(given, norm))
  BY <1>1, NormalizedPatch
<1> HIDE DEF norm
<1>4. Patch(patch) /\ SameItem(norm, patch)
  BY <1>3, DeliveryPatch
<1> HIDE DEF patch
<1>5. CASE norm = given
  <2>1. SameItem(u.patch, patch)
    BY <1>1, <1>4, <1>5 DEF SameItem
  <2> QED
    BY <1>2, <1>4, <2>1
<1>6. CASE Resolved(given, norm)
  <2>1. /\ "canon" \in DOMAIN patch /\ patch["canon"] = norm["canon"]
        /\ "size" \in DOMAIN norm => "size" \in DOMAIN patch /\ patch["size"] = norm["size"]
    BY <1>4, <1>6, FieldsApart DEF SameItem, Resolved
  <2>2. \A f \in {"sku", "query", "size"} : Field(u.patch, f) = Field(given, f)
    BY <1>1, FieldsApart DEF SameItem, Field
  <2>3. Resolved(u.patch, patch)
    BY <1>6, <2>1, <2>2 DEF Resolved, TextOf
  <2> QED
    BY <1>2, <1>4, <2>3
<1> QED
  BY <1>3, <1>5, <1>6

LEMMA MergeDraftOf ==
  ASSUME NEW list, NEW p, NEW f \in Fields
  PROVE  MergeDraft(list, p)[f] = IF f \in DOMAIN p THEN p[f]
                                  ELSE IF list /\ f \in ItemFields THEN None ELSE draft[f]
BY DEF MergeDraft

LEMMA MergeDraftType ==
  ASSUME Typed, NEW list \in BOOLEAN, NEW p, Patch(p)
  PROVE  MergeDraft(list, p) \in DraftSet /\ Named(MergeDraft(list, p))
<1> DEFINE d == MergeDraft(list, p)
<1>1. \A f \in Fields : \/ f \in DOMAIN p /\ d[f] = p[f]
                        \/ d[f] = None
                        \/ d[f] = draft[f]
  BY MergeDraftOf
<1>2. d = [f \in Fields |-> d[f]]
  BY DEF MergeDraft
<1>3. d \in DraftSet
  <2>1. \A f \in Fields : d[f] \in Values
    BY <1>1, ValuesHave DEF Patch, Typed, DraftSet
  <2> HIDE DEF d
  <2> QED
    BY <1>2, <2>1 DEF DraftSet
<1> HIDE DEF d
<1>4. Named(d)
  <2>1. d["canon"] \in Rows \cup {None}
    BY <1>1, FieldsApart DEF Patch, Typed, Named
  <2>2. d["query"] \in Texts \cup {None} /\ d["sku"] \in Texts \cup {None}
    BY <1>1, FieldsApart DEF Patch, Typed, Named
  <2>3. d["fulfil"] \in Ways
    BY <1>1, FieldsApart DEF Patch, Typed, Named, Ways
  <2> QED
    BY <2>1, <2>2, <2>3 DEF Named
<1> QED
  BY <1>3, <1>4 DEF d

LEMMA AskedType ==
  ASSUME Typed, NEW u \in Updates, NEW patch
  PROVE  Asked(u, patch) \in AskedSet
<1>1. Patch(u.patch) /\ u.list \in BOOLEAN
  BY GivenPatch, DraftsAssumption
<1>2. TextOf(u.patch) \in Texts \cup {None}
  BY <1>1 DEF Patch, Field, TextOf
<1>3. Field(u.patch, "size") \in Values
  BY <1>1, ValuesHave DEF Patch, Field
<1>4. "size" \in DOMAIN u.patch => u.patch.size \in Values
  BY <1>1 DEF Patch
<1> QED
  BY <1>1, <1>2, <1>3, <1>4 DEF Asked, AskedSet, Typed, TextOf, Field

LEMMA UpdateSuits ==
  ASSUME IInv, NEW u \in Updates, Update(u)
  PROVE  DraftSuits'
<1> DEFINE patch == PatchOf(u)
           given == u.patch
           d == MergeDraft(u.list, patch)
           said == u.list \/ {"query", "sku"} \cap DOMAIN given # {}
           open == "canon" \notin DOMAIN patch /\ Query(d) # TextOf(given)
<1>1. draft' = d /\ asked' = Asked(u, patch)
  BY DEF Update, PatchOf
<1>2. \A f \in {"canon", "sku", "query", "size"} :
        d[f] = IF f \in DOMAIN patch THEN patch[f] ELSE IF u.list THEN None ELSE draft[f]
  BY MergeDraftOf, FieldsApart
<1>3. SameItem(given, patch) \/ Resolved(given, patch)
  BY PatchOfCall DEF IInv
<1>4. "canon" \notin DOMAIN given
  BY GivenPatch
<1>5. u.list \in BOOLEAN
  BY DraftsAssumption
<1>6. said => asked' = [text |-> TextOf(given), size |-> Field(given, "size"), slipped |-> open]
  <2>1. TextOf(given) = IF Field(given, "sku") # None THEN given.sku ELSE Field(given, "query")
    BY DEF TextOf, Field
  <2> QED
    BY <1>1, <2>1 DEF Asked
<1>7. ~said => asked' = IF "size" \in DOMAIN given THEN [asked EXCEPT !.size = given.size] ELSE asked
  BY <1>1 DEF Asked
<1>8. DraftSuits /\ asked \in AskedSet
  BY DEF IInv, Typed
<1>9. /\ draft'.canon = d["canon"] /\ draft'.size = d["size"] /\ Query(draft)' = Query(d)
  BY <1>1 DEF Query
<1>10. CASE SameItem(given, patch)
  <2>1. \A f \in {"canon", "sku", "query", "size"} :
          /\ f \in DOMAIN patch <=> f \in DOMAIN given
          /\ f \in DOMAIN given => given[f] = patch[f]
    BY <1>10, FieldsApart DEF SameItem
  <2>2. CASE said
    <3>1. asked'.size \in {None, draft'.size}
      BY <1>2, <1>6, <1>9, <2>1, <2>2 DEF Field
    <3>2. asked'.slipped \/ Query(draft)' = asked'.text
      <4>1. asked'.slipped = open /\ asked'.text = TextOf(given)
        BY <1>6, <2>2
      <4>2. "canon" \notin DOMAIN patch
        BY <1>4, <2>1
      <4>3. open \/ Query(d) = TextOf(given)
        BY <4>2
      <4> HIDE DEF open
      <4> QED
        BY <1>9, <4>1, <4>3
    <3> QED
      BY <3>1, <3>2 DEF DraftSuits
  <2>3. CASE ~said
    <3>1. \A f \in {"canon", "sku", "query"} : d[f] = draft[f]
      BY <1>2, <1>4, <1>5, <2>1, <2>3
    <3>2. draft'.canon = draft.canon /\ Query(draft)' = Query(draft)
      BY <1>9, <3>1 DEF Query
    <3>3. /\ asked'.text = asked.text /\ asked'.slipped = asked.slipped
          /\ asked'.size = IF "size" \in DOMAIN given THEN given["size"] ELSE asked.size
      BY <1>7, <1>8, <2>3 DEF AskedSet
    <3>4. draft'.size = IF "size" \in DOMAIN given THEN given["size"] ELSE draft.size
      BY <1>2, <1>9, <2>1, <2>3
    <3> HIDE DEF d, patch, given
    <3> QED
      BY <1>8, <3>2, <3>3, <3>4 DEF DraftSuits
  <2> QED
    BY <2>2, <2>3
<1>11. CASE Resolved(given, patch)
  <2>1. TextOf(given) \in Texts /\ TextOf(given) # None
    BY <1>11, DraftsAssumption DEF Resolved
  <2>2. said
    BY <2>1 DEF TextOf, Field
  <2>3. asked'.text = TextOf(given) /\ asked'.size = Field(given, "size")
    BY <1>6, <2>2
  <2>4. draft'.canon \in FoundBy[asked'.text] /\ asked'.text \in Texts
    BY <1>2, <1>9, <1>11, <2>1, <2>3 DEF Resolved
  <2>5. asked'.size \in {None, draft'.size}
    BY <1>2, <1>9, <1>11, <2>3 DEF Resolved
  <2> QED
    BY <2>4, <2>5 DEF DraftSuits
<1> QED
  BY <1>3, <1>10, <1>11
\* The empty draft and the call at rest.
LEMMA EmptyDraft == Empty \in DraftSet /\ Named(Empty)
BY ValuesHave, FieldsApart DEF Empty, DraftSet, Named, Ways

LEMMA IdleCall == Idle \in Calls /\ Idle.step = "idle" /\ ~Idle.legacy
BY EmptyDraft DEF Idle, Calls
-----------------------------------------------------------------------------
(* finalize_checkout and create_order                                      *)

LEMMA QuoteType ==
  ASSUME NEW p, NEW city, NEW zone, NEW method
  PROVE  Quote(p, city, zone, method).fulfil \in Ways
BY DEF Quote, HomeQuote, AgencyQuote, Ways

LEMMA DeliveryType ==
  ASSUME NEW p, NEW d \in DraftSet
  PROVE  Delivery(p, d) \in To
<1>1. /\ d.city \in Values /\ d.zone \in Values /\ d.address \in Values
      /\ d.method \in Values /\ d.agency \in Values
  BY FieldsApart DEF DraftSet, DeliveryFields
<1>2. QuoteFor(p, d).fulfil \in Ways
  BY QuoteType DEF QuoteFor
<1> QED
  BY <1>1, <1>2, ValuesHave DEF Delivery, To

\* A complete delivery with a quote that was not refused is as quoted: the
\* fields that Delivery drops are the required ones of a quote without a tariff.
LEMMA DeliveryQuoted ==
  ASSUME NEW p, NEW d, QuoteFor(p, d).status # "rate_unavailable",
         \A f \in Required(Delivery(p, d)) : Delivery(p, d)[f] # None
  PROVE  DeliveredAsQuoted(Delivery(p, d), p)
<1> DEFINE to == Delivery(p, d)
<1>1. to.city # None
  BY DEF Required
<1>2. d.city # None
  BY <1>1 DEF Delivery
<1>3. CASE d.city \in p.home
  <2>1. QuoteFor(p, d) = HomeQuote(p, d.city, d.zone)
    BY <1>2, <1>3 DEF QuoteFor, Quote
  <2>2. to.fulfil = "home" /\ to.method = None /\ to.agency = None /\ to.city = d.city
    BY <2>1 DEF Delivery, HomeQuote
  <2>3. to.zone # None /\ to.address # None
    BY <2>2 DEF Required
  <2>4. QuoteFor(p, d).status = "quoted" /\ to.zone = d.zone
    BY <2>1, <2>2, <2>3 DEF Delivery
  <2>5. <<d.city, d.zone>> \in p.zones
    BY <2>1, <2>4 DEF HomeQuote
  <2> QED
    BY <2>2, <2>3, <2>4, <2>5 DEF DeliveredAsQuoted
<1>4. CASE d.city \notin p.home
  <2>1. QuoteFor(p, d) = AgencyQuote(p, d.city, d.method)
    BY <1>2, <1>4 DEF QuoteFor, Quote
  <2>2. to.fulfil = "agency" /\ to.zone = None /\ to.address = None /\ to.city = d.city
    BY <2>1 DEF Delivery, AgencyQuote
  <2>3. to.method # None /\ to.agency # None
    BY <2>2 DEF Required
  <2>4. to.method = d.method /\ d.method \in Couriers
    BY <2>2, <2>3 DEF Delivery
  <2>5. d.city \in p.rates
    BY <2>1, <2>4 DEF AgencyQuote
  <2> QED
    BY <2>2, <2>3, <2>4, <2>5 DEF DeliveredAsQuoted
<1> QED
  BY <1>3, <1>4

\* The draft that Check looks at: that of the session, or its fields by name.
Checked == IF call.legacy THEN call.draft ELSE draft

LEMMA CheckedDraft ==
  ASSUME IInv, call.step = "draft"
  PROVE  Checked \in DraftSet /\ Named(Checked)
<1>1. draft \in DraftSet /\ Named(draft) /\ call.legacy \in BOOLEAN /\ call.draft \in DraftSet
  BY DEF IInv, Typed, Calls
<1>2. call.legacy => Named(call.draft)
  <2> SUFFICES ASSUME call.legacy PROVE Named(call.draft)
    OBVIOUS
  <2>1. call.draft \in Args
    BY DEF IInv, CallKnows
  <2> QED
    BY <2>1, DraftsAssumption DEF Named, Ways
<1> QED
  BY <1>1, <1>2 DEF Checked

\* A row that matches is one that the request leads to.
CheckedFor == IF call.legacy THEN AskedBy(Checked) ELSE asked
LEMMA CheckedRow ==
  ASSUME IInv, call.step = "draft", NEW r \in Matches(Checked)
  PROVE  r \in Rows /\ Fits(CheckedFor, r)
<1>1. /\ r \in Rows /\ Query(Checked) \in Texts /\ r \in FoundBy[Query(Checked)]
      /\ Checked.size # None => SizeOf[r] = Checked.size
  BY CheckedDraft, RowMatches
<1>2. r \in FoundBy[r] /\ \A t \in Texts : FoundBy[t] \subseteq Rows
  BY <1>1, DraftsAssumption
<1>3. \A t \in Texts : \A c \in FoundBy[t] : FoundBy[c] \subseteq LookUps(t)
  BY DEF LookUps
<1>4. r \in LookUps(Query(Checked))
  BY <1>1, <1>2, <1>3
<1>5. CASE call.legacy
  <2>1. CheckedFor = [text |-> Query(Checked), size |-> Checked.size, slipped |-> FALSE]
    BY <1>5 DEF CheckedFor, AskedBy
  <2> QED
    BY <1>1, <1>4, <2>1 DEF Fits
<1>6. CASE ~call.legacy
  <2>1. Checked = draft /\ CheckedFor = asked
    BY <1>6 DEF Checked, CheckedFor
  <2>2. SUFFICES ASSUME ~asked.slipped
                 PROVE  /\ asked.text \in Texts /\ r \in LookUps(asked.text)
                        /\ asked.size \in {None, SizeOf[r]}
    BY <1>1, <2>1 DEF Fits
  <2>3. /\ asked.size \in {None, draft.size}
        /\ \/ Query(draft) = asked.text
           \/ asked.text \in Texts /\ draft.canon \in FoundBy[asked.text]
    BY <2>2 DEF IInv, DraftSuits
  <2>4. asked.size \in {None, SizeOf[r]}
    BY <1>1, <2>1, <2>3
  <2>5. CASE Query(draft) = asked.text
    BY <1>1, <1>4, <2>1, <2>4, <2>5
  <2>6. CASE asked.text \in Texts /\ draft.canon \in FoundBy[asked.text]
    <3>1. draft.canon \in Rows /\ draft.canon # None
      BY <1>2, <2>6, DraftsAssumption
    <3>2. Query(draft) = draft.canon
      BY <3>1 DEF Query
    <3>3. r \in LookUps(asked.text)
      BY <1>1, <1>3, <2>1, <2>6, <3>2
    <3> QED
      BY <2>4, <2>6, <3>3
  <2> QED
    BY <2>3, <2>5, <2>6
<1> QED
  BY <1>1, <1>5, <1>6

LEMMA CheckStep ==
  ASSUME IInv, Check
  PROVE  call' \in Calls /\ CallKnows'
<1> DEFINE d == Checked
           quote == QuoteFor(call.policy, d)
           ok == Missing(d, quote) = {} /\ NoErrors(d, quote)
                 /\ (call.legacy => quote.status = "quoted")
<1>1. /\ call.step = "draft"
      /\ call' = IF ok THEN [call EXCEPT !.step = "create", !.draft = d, !.row = RowOf(d)]
                 ELSE Idle
  BY DEF Check, Checked
<1>2. call \in Calls /\ Len(orders) < MaxOrders /\ UNCHANGED <<orders, asked>>
  BY <1>1 DEF IInv, Typed, CallKnows, Check
<1>3. CASE ok
  <2>1. d \in DraftSet /\ Named(d)
    BY <1>1, CheckedDraft
  <2>2. RowOf(d) \in Matches(d)
    BY <1>3, <2>1, RowFound DEF NoErrors
  <2>3. RowOf(d) \in Rows /\ Fits(CheckedFor, RowOf(d))
    BY <1>1, <2>2, CheckedRow
  <2>4. quote.status # "rate_unavailable"
    BY <1>3 DEF NoErrors
  <2>6. call' = [call EXCEPT !.step = "create", !.draft = d, !.row = RowOf(d)]
    BY <1>1, <1>3
  <2> DEFINE row == RowOf(d)
  <2>5. Fits(CheckedFor, row) /\ row \in Matches(d) /\ row \in Rows
    BY <2>2, <2>3
  <2>7. PICK c, k : c = d /\ k = row
    OBVIOUS
  <2> HIDE DEF d, ok, row
  <2>8. /\ call'.step = "create" /\ call'.draft = c /\ call'.row = k
        /\ call'.policy = call.policy /\ call'.legacy = call.legacy
    BY <1>2, <2>6, <2>7 DEF Calls, row
  <2>9. call' \in Calls
    BY <1>2, <2>1, <2>5, <2>6 DEF Calls, row
  <2>10. Request' = CheckedFor
    BY <1>2, <2>7, <2>8 DEF Request, CheckedFor, AskedBy, Query, d
  <2>11. Fits(Request', call'.row) /\ call'.row \in Matches(call'.draft) /\ Named(call'.draft)
    BY <2>1, <2>5, <2>7, <2>8, <2>10
  <2>12. QuoteFor(call'.policy, call'.draft).status # "rate_unavailable"
    BY <2>4, <2>7, <2>8
  <2> QED
    BY <1>2, <2>8, <2>9, <2>11, <2>12 DEF CallKnows, Fits, Matches, Query, Named
<1>4. CASE ~ok
  BY <1>1, <1>4, IdleCall DEF CallKnows
<1> QED
  BY <1>3, <1>4
\* The order of a call is what the call knows of its row and its delivery.
LEMMA CreateStep ==
  ASSUME IInv, Create
  PROVE  /\ call' \in Calls /\ orders' \in Seq(Order) /\ Len(orders') <= MaxOrders
         /\ CallKnows' /\ OrdersOK'
<1> DEFINE to == Delivery(call.policy, call.draft)
           qty == call.draft.qty
           OrderOf(v) ==
             [row |-> v, qty |-> qty, to |-> to, policy |-> call.policy,
              stock |-> catalog[v], canon |-> call.draft.canon, size |-> call.draft.size,
              asked |-> IF call.legacy THEN AskedBy(call.draft) ELSE asked]
<1>1. /\ call.step = "create" /\ call \in Calls /\ orders \in Seq(Order)
      /\ Len(orders) < MaxOrders /\ Len(orders) \in Nat /\ MaxOrders \in Nat
  BY DraftsAssumption DEF Create, IInv, Typed, CallKnows
<1>2. CASE call' = Idle /\ UNCHANGED orders
  <2>1. OrdersOK'
    BY <1>2 DEF IInv, OrdersOK
  <2> QED
    BY <1>1, <1>2, <2>1, IdleCall DEF CallKnows
<1>3. ASSUME NEW v \in Variants(call.row), Orderable(v, to, qty),
             orders' = Append(orders, OrderOf(v)), call' = [call EXCEPT !.step = "save"]
      PROVE  /\ call' \in Calls /\ orders' \in Seq(Order) /\ Len(orders') <= MaxOrders
             /\ CallKnows' /\ OrdersOK'
  <2> DEFINE o == OrderOf(v)
             row == call.row
  <2>1. /\ row \in Matches(call.draft) /\ Fits(Request, row) /\ Named(call.draft)
        /\ QuoteFor(call.policy, call.draft).status # "rate_unavailable"
    BY <1>1 DEF IInv, CallKnows
  <2>2. call.draft \in DraftSet /\ call.policy \in Policies \cup {None}
    BY <1>1 DEF Calls
  <2>3. to \in To
    BY <2>2, DeliveryType
  <2>4. row \in Rows /\ Query(call.draft) \in Texts /\ row \in FoundBy[Query(call.draft)]
    BY <2>1, RowMatches
  <2>5. v = row \/ (v \in Kin[row] /\ SizeOf[row] \in {None, SizeOf[v]})
    BY DEF Variants
  <2>6. v \in Rows
    BY <2>4, <2>5, DraftsAssumption
  <2>7. catalog[v] \in 0..MaxStock /\ asked \in AskedSet
    BY <2>6 DEF IInv, Typed
  <2>8. /\ qty \in Values /\ call.draft.size \in Values
        /\ call.draft.canon \in Rows \cup {None}
    BY <2>1, <2>2, FieldsApart DEF DraftSet, Named
  <2>9. Request \in AskedSet
    BY <2>4, <2>7, <2>8 DEF Request, AskedBy, AskedSet
  <2>10. /\ o.row = v /\ o.qty = qty /\ o.to = to /\ o.policy = call.policy
         /\ o.stock = catalog[v] /\ o.canon = call.draft.canon /\ o.size = call.draft.size
         /\ o.asked = Request
    BY DEF Request
  <2>11. o \in Order
    <3>1. o = [row |-> v, qty |-> qty, to |-> to, policy |-> call.policy,
               stock |-> catalog[v], canon |-> call.draft.canon, size |-> call.draft.size,
               asked |-> Request]
      BY DEF Request
    <3> HIDE DEF o, qty, to
    <3> QED
      BY <2>2, <2>3, <2>6, <2>7, <2>8, <2>9, <3>1 DEF Order
  <2> HIDE DEF o
  <2>12. DeliveredAsQuoted(o.to, o.policy)
    BY <1>3, <2>1, <2>10, DeliveryQuoted DEF Orderable
  <2>13. OrderSuits(o)
    <3>1. o.qty <= o.stock
      BY <1>3, <2>10 DEF Orderable
    <3>2. ASSUME ~Request.slipped
          PROVE  /\ Request.text \in Texts /\ v \in Ends(Request.text)
                 /\ Request.size \in {None, SizeOf[v]}
      <4>1. /\ Request.text \in Texts /\ row \in LookUps(Request.text)
            /\ Request.size \in {None, SizeOf[row]}
        BY <2>1, <3>2 DEF Fits
      <4>2. v \in Ends(Request.text)
        BY <2>5, <4>1 DEF Ends
      <4> QED
        BY <2>5, <4>1, <4>2
    <3> QED
      BY <2>10, <3>1, <3>2 DEF OrderSuits
  <2>14. OrderFound(o)
    <3>1. call.draft.canon # None => row \in FoundBy[call.draft.canon]
      BY <2>4 DEF Query
    <3> QED
      BY <2>5, <2>10, <3>1 DEF OrderFound
  <2>15. /\ orders' \in Seq(Order) /\ Len(orders') = Len(orders) + 1
         /\ orders'[Len(orders) + 1] = o
         /\ \A i \in DOMAIN orders : orders'[i] = orders[i]
         /\ DOMAIN orders' = DOMAIN orders \cup {Len(orders) + 1}
    <3>1. orders' = Append(orders, o)
      BY <1>3 DEF o
    <3> QED
      BY <1>1, <2>11, <3>1
  <2>16. OrdersOK'
    <3>1. ASSUME NEW i \in DOMAIN orders
          PROVE  /\ DeliveredAsQuoted(orders'[i].to, orders'[i].policy)
                 /\ OrderSuits(orders'[i]) /\ OrderFound(orders'[i])
      BY <2>15 DEF IInv, OrdersOK
    <3> QED
      BY <2>12, <2>13, <2>14, <2>15, <3>1 DEF OrdersOK
  <2>17. call' \in Calls /\ call'.step = "save"
    BY <1>1, <1>3 DEF Calls
  <2> QED
    BY <1>1, <2>15, <2>16, <2>17 DEF CallKnows
<1> QED
  BY <1>1, <1>2, <1>3 DEF Create

-----------------------------------------------------------------------------
(* The theorems                                                            *)

LEMMA InitIInv == Init => IInv
<1> SUFFICES ASSUME Init PROVE IInv
  OBVIOUS
<1>1. catalog \in [Rows -> 0..MaxStock]
  BY DraftsAssumption DEF Init
<1>2. saved.fulfil \in Ways /\ \A f \in DeliveryFields : saved[f] \in Values
  BY EmptyDraft, FieldsApart DEF Init, DraftSet, Named
<1>3. asked \in AskedSet /\ asked.text = None /\ asked.size = None /\ asked.slipped = FALSE
  BY ValuesHave DEF Init, NothingAsked, AskedSet
<1>4. orders \in Seq(Order) /\ Len(orders) <= MaxOrders /\ DOMAIN orders = {}
  BY DraftsAssumption DEF Init
<1>5. Typed
  BY <1>1, <1>2, <1>3, <1>4, EmptyDraft, IdleCall DEF Init, Typed
<1>6. draft.query = None /\ draft.sku = None /\ draft.canon = None
  BY FieldsApart DEF Init, Empty
<1>7. DraftSuits
  BY <1>3, <1>6 DEF DraftSuits, Query
<1>8. CallKnows
  BY IdleCall DEF Init, CallKnows
<1>9. OrdersOK
  BY <1>4 DEF OrdersOK
<1> QED
  BY <1>5, <1>7, <1>8, <1>9 DEF IInv

\* A draft that has been cleared, by the customer or by its order.
LEMMA ClearedDraft ==
  ASSUME draft' = Empty, asked' = NothingAsked
  PROVE  draft' \in DraftSet /\ Named(draft)' /\ asked' \in AskedSet /\ DraftSuits'
<1>1. asked' \in AskedSet /\ asked'.text = None /\ asked'.size = None
  BY ValuesHave DEF NothingAsked, AskedSet
<1>2. draft'.query = None /\ draft'.sku = None /\ draft'.canon = None
  BY FieldsApart DEF Empty
<1> QED
  BY <1>1, <1>2, EmptyDraft DEF DraftSuits, Query, Named

LEMMA SameDraft ==
  ASSUME IInv, UNCHANGED <<draft, asked>>
  PROVE  draft' \in DraftSet /\ Named(draft)' /\ asked' \in AskedSet /\ DraftSuits'
BY DEF IInv, Typed, Named, DraftSuits, Query

LEMMA SameOrders ==
  ASSUME IInv, UNCHANGED orders
  PROVE  orders' \in Seq(Order) /\ Len(orders') <= MaxOrders /\ OrdersOK'
BY DEF IInv, Typed, OrdersOK

LEMMA SameSaved ==
  ASSUME IInv, UNCHANGED saved
  PROVE  saved'.fulfil \in Ways /\ \A f \in DeliveryFields : saved'[f] \in Values
BY DEF IInv, Typed

\* A call that has ended knows nothing, and needs to know nothing.
LEMMA RestingCall ==
  ASSUME call' = Idle
  PROVE  call' \in Calls /\ CallKnows'
BY IdleCall DEF CallKnows

LEMMA StepIInv == IInv /\ [Next]_vars => IInv'
<1> SUFFICES ASSUME IInv, [Next]_vars PROVE IInv'
  OBVIOUS
<1>0. catalog \in [Rows -> 0..MaxStock] /\ policy \in Policies /\ call \in Calls
  BY DEF IInv, Typed
<1>1. ASSUME NEW u \in Updates, Update(u)
      PROVE  IInv'
  <2>1. UNCHANGED <<catalog, policy, saved, call, orders>> /\ call' = Idle
    BY <1>1 DEF Update
  <2>2. draft' \in DraftSet /\ Named(draft)' /\ asked' \in AskedSet
    <3>1. Typed /\ u.list \in BOOLEAN
      BY DraftsAssumption DEF IInv
    <3>2. draft' = MergeDraft(u.list, PatchOf(u)) /\ asked' = Asked(u, PatchOf(u))
      BY <1>1 DEF Update, PatchOf
    <3> QED
      BY <3>1, <3>2, PatchOfCall, MergeDraftType, AskedType DEF Named
  <2>3. DraftSuits'
    BY <1>1, UpdateSuits
  <2> QED
    BY <1>0, <2>1, <2>2, <2>3, SameOrders, SameSaved, RestingCall DEF IInv, Typed
<1>2. CASE Cancel
  BY <1>0, <1>2, ClearedDraft, SameOrders, SameSaved, RestingCall DEF Cancel, IInv, Typed
<1>3. CASE Finalize
  <2>1. call' = [Idle EXCEPT !.step = "draft", !.policy = policy] /\ Len(orders) < MaxOrders
    BY <1>3 DEF Finalize
  <2>2. call' \in Calls /\ call'.step = "draft" /\ ~call'.legacy
    BY <1>0, <2>1, EmptyDraft DEF Calls, Idle
  <2>3. UNCHANGED <<catalog, policy, saved, draft, orders, asked>>
    BY <1>3 DEF Finalize
  <2>4. CallKnows'
    BY <2>1, <2>2, <2>3 DEF CallKnows
  <2> QED
    BY <1>0, <2>2, <2>3, <2>4, SameDraft, SameOrders, SameSaved DEF IInv, Typed
<1>4. ASSUME NEW args \in Args, LegacyOrder(args)
      PROVE  IInv'
  <2>1. /\ call' = [Idle EXCEPT !.step = "draft", !.policy = policy, !.legacy = TRUE,
                                !.draft = args]
        /\ Len(orders) < MaxOrders
    BY <1>4 DEF LegacyOrder
  <2>2. args \in DraftSet
    <3>1. args = [f \in Fields |-> args[f]]
      BY DraftsAssumption
    <3>2. \A f \in Fields : args[f] \in Values
      BY ValuesHave
    <3> QED
      BY <3>1, <3>2 DEF DraftSet
  <2>3. call' \in Calls /\ call'.step = "draft" /\ call'.draft = args
    BY <1>0, <2>1, <2>2 DEF Calls, Idle
  <2>4. UNCHANGED <<catalog, policy, saved, draft, orders, asked>>
    BY <1>4 DEF LegacyOrder
  <2>5. CallKnows'
    BY <2>1, <2>3, <2>4 DEF CallKnows
  <2> QED
    BY <1>0, <2>3, <2>4, <2>5, SameDraft, SameOrders, SameSaved DEF IInv, Typed
<1>5. CASE Check
  <2>1. UNCHANGED <<catalog, policy, saved, draft, orders, asked>>
    BY <1>5 DEF Check
  <2> QED
    BY <1>0, <1>5, <2>1, CheckStep, SameDraft, SameOrders, SameSaved DEF IInv, Typed
<1>6. CASE Create
  <2>1. UNCHANGED <<catalog, policy, saved, draft, asked>>
    BY <1>6 DEF Create
  <2> QED
    BY <1>0, <1>6, <2>1, CreateStep, SameDraft, SameSaved DEF IInv, Typed
<1>7. CASE SaveAddress
  <2>1. /\ UNCHANGED <<catalog, policy, draft, orders, asked>>
        /\ saved' = Delivery(call.policy, call.draft)
    BY <1>7 DEF SaveAddress
  <2>2. saved' \in To
    BY <1>0, <2>1, DeliveryType DEF Calls
  <2>3. saved'.fulfil \in Ways /\ \A f \in DeliveryFields : saved'[f] \in Values
    BY <2>2, ValuesHave DEF To, DeliveryFields
  <2>4. call' \in Calls /\ CallKnows'
    <3>1. CASE call.legacy
      BY <1>7, <3>1, RestingCall DEF SaveAddress
    <3>2. CASE ~call.legacy
      <4>1. call' = [call EXCEPT !.step = "bind"]
        BY <1>7, <3>2 DEF SaveAddress
      <4>2. call' \in Calls /\ call'.step = "bind"
        BY <1>0, <4>1 DEF Calls
      <4> QED
        BY <4>2 DEF CallKnows
    <3> QED
      BY <3>1, <3>2
  <2> QED
    BY <1>0, <2>1, <2>3, <2>4, SameDraft, SameOrders DEF IInv, Typed
<1>8. CASE Bind
  BY <1>0, <1>8, ClearedDraft, SameOrders, SameSaved, RestingCall DEF Bind, IInv, Typed
<1>9. CASE Fail
  <2>1. UNCHANGED <<catalog, policy, saved, draft, orders, asked>> /\ call' = Idle
    BY <1>9 DEF Fail
  <2> QED
    BY <1>0, <2>1, SameDraft, SameOrders, SameSaved, RestingCall DEF IInv, Typed
<1>10. ASSUME UNCHANGED <<saved, draft, call, orders, asked>>,
              catalog' \in [Rows -> 0..MaxStock], policy' \in Policies
       PROVE  IInv'
  <2>1. CallKnows'
    BY <1>10 DEF IInv, CallKnows, Request, Fits, Matches, Query, Named
  <2> QED
    BY <1>0, <1>10, <2>1, SameDraft, SameOrders, SameSaved DEF IInv, Typed
<1>11. CASE StockChanges
  <2>1. catalog' \in [Rows -> 0..MaxStock]
    BY <1>0, <1>11 DEF StockChanges
  <2> QED
    BY <1>0, <1>10, <1>11, <2>1 DEF StockChanges
<1>12. CASE PolicyChanges
  BY <1>0, <1>10, <1>12 DEF PolicyChanges
<1>13. CASE UNCHANGED vars
  BY <1>0, <1>10, <1>13 DEF vars
<1> QED
  BY <1>1, <1>2, <1>3, <1>4, <1>5, <1>6, <1>7, <1>8, <1>9, <1>11, <1>12, <1>13 DEF Next

\* The draft is looked up by what was asked for or by the SKU of a row which that
\* finds, a call knows the row and the delivery that it checked, and every order
\* was made of these.
THEOREM DraftsInvariant == Spec => []IInv
BY InitIInv, StepIInv, PTL DEF Spec

\* Every order can be delivered and was charged a tariff of the policy that its
\* call read: create_order takes only what the quote left, and requires it.
THEOREM DraftsDeliverable == Spec => []DeliverableAsQuoted
<1>1. IInv => DeliverableAsQuoted
  <2> SUFFICES ASSUME IInv PROVE DeliverableAsQuoted
    OBVIOUS
  <2>1. TypeOK
    BY DEF IInv, Typed, Named, Ways, DraftSet, Calls, TypeOK
  <2>2. \A i \in DOMAIN orders : DeliveredAsQuoted(orders[i].to, orders[i].policy)
    BY DEF IInv, OrdersOK
  <2> QED
    BY <2>1, <2>2 DEF DeliverableAsQuoted, DeliveredAsQuoted
<1> QED
  BY <1>1, DraftsInvariant, PTL

\* A draft with a SKU that is alone in the sheet orders exactly that SKU: what a
\* search by words does not ensure (docs/CATALOG_SCHEMA.md:80) is ensured by the
\* sheet.
LEMMA AloneIsExact ==
  ASSUME IInv, NEW i \in DOMAIN orders, orders[i].canon # None, Alone(orders[i].canon)
  PROVE  orders[i].row = orders[i].canon
<1>1. orders[i] \in Order /\ OrderFound(orders[i])
  BY DEF IInv, Typed, OrdersOK
<1>2. orders[i].canon \in Rows
  BY <1>1 DEF Order
<1>3. PICK r \in FoundBy[orders[i].canon] :
        \/ orders[i].row = r
        \/ orders[i].row \in Kin[r] /\ SizeOf[r] \in {None, SizeOf[orders[i].row]}
  BY <1>1 DEF OrderFound
<1>4. r = orders[i].canon
  BY <1>2, <1>3 DEF Alone
<1> QED
  BY <1>2, <1>3, <1>4 DEF Alone

\* The row ordered is one that the text asked for last leads to, in the
\* presentation asked for, in a quantity of the catalog at that moment, and the
\* SKU of the draft itself if that is alone in the sheet; a text that did not
\* resolve and was laid over another item is the exception to the first part.
THEOREM DraftsAsAsked == Spec => []OrderedAsAsked
<1>1. IInv => OrderedAsAsked
  BY AloneIsExact DEF IInv, OrdersOK, OrderSuits, OrderedAsAsked
<1> QED
  BY <1>1, DraftsInvariant, PTL
-----------------------------------------------------------------------------
(***************************************************************************)
(* The context of a message: what the rows and the tasks know.             *)
(***************************************************************************)
EventSteps == {"discover", "correlate", "resolve", "enrich", "tell", "backfill", "again"}
JobSteps == {"search", "apply", "release"}
Found == {"none", "not_found", "matched", "backfilled", "conflict", "resolved", "ambiguous"}
TaskRow == [step : {"free", "discover", "correlate", "resolve", "enrich", "tell",
                    "backfill", "again", "search", "apply", "release"},
            event : Events \cup {Null}, job : Jobs \cup {Null},
            force : BOOLEAN, link : BOOLEAN, due : BOOLEAN, seen : Found]

\* A task that works on an event has one, and so has a task that works on a job.
Works(row) ==
    /\ row \in TaskRow
    /\ row.step \in EventSteps \cup {"apply"} => row.event \in Events
    /\ row.step \in JobSteps => row.job \in Jobs
TasksWork == tasks \in [Tasks -> TaskRow] /\ \A t \in Tasks : Works(tasks[t])

\* The two tables agree, whichever side found the match.
Agree == \A e \in Events, j \in Jobs : events[e].job = j <=> jobs[j].event = e
\* The verdict of a released job: its event's products, or the time-out.
Verdict(j) ==
    \/ jobs[j].mapping = "timed_out" /\ jobs[j].context = "timed_out"
    \/ /\ jobs[j].mapping \in {"resolved", "ambiguous"}
       /\ jobs[j].event # Null /\ events[jobs[j].event].applied
RowsOK ==
    /\ events \in [Events -> Event] /\ jobs \in [Jobs -> Job]
    /\ Agree
    /\ \A j \in Jobs : jobs[j].context = "matched" => jobs[j].event # Null
    /\ \A j \in Jobs : jobs[j].st = "ready" => Verdict(j)

BoundsOK ==
    /\ scope \in Scopes /\ on \in BOOLEAN
    /\ content \in [Events -> Contents]
    /\ spent \in [edits : 0..scope.edits, ages : 0..scope.ages, crashes : 0..scope.crashes]

ContextInv == BoundsOK /\ RowsOK /\ TasksWork

\* The invariant includes the types and the agreement of the tables.
LEMMA InvIsTyped == ContextInv => ContextOK
BY DEF ContextInv, BoundsOK, RowsOK, TasksWork, ContextOK, Agree, TaskRow, Found

-----------------------------------------------------------------------------
(* Tasks.                                                                  *)

\* A free task owes nothing.
LEMMA FreeWorks == Works(Free) /\ Free.step = "free"
BY DEF Works, Free, TaskRow, Found, EventSteps, JobSteps

\* A step replaces the row of one task.
LEMMA TaskStepWorks ==
    ASSUME TasksWork, NEW t \in Tasks, NEW row, Works(row), tasks' = [tasks EXCEPT ![t] = row]
    PROVE  TasksWork'
<1>1. row \in TaskRow
  BY DEF Works
<1>2. tasks' \in [Tasks -> TaskRow]
  BY <1>1 DEF TasksWork
<1>3. \A x \in Tasks : tasks'[x] = IF x = t THEN row ELSE tasks[x]
  BY DEF TasksWork
<1>4. \A x \in Tasks : Works(tasks'[x])
  BY <1>3 DEF TasksWork
<1> QED
  BY <1>2, <1>4 DEF TasksWork, Works

\* The row of a task that goes on to another step, with what it has learnt.
LEMMA RowGoes ==
    ASSUME NEW row, Works(row), NEW step, NEW event, NEW force \in BOOLEAN, NEW link \in BOOLEAN,
           \/ step \in EventSteps /\ row.step \in EventSteps /\ event = row.event
           \/ step \in JobSteps /\ row.step \in JobSteps
                /\ event \in Events \cup {Null} /\ (step = "apply" => event \in Events)
    PROVE  Works([row EXCEPT !.step = step, !.event = event, !.force = force, !.link = link])
<1> DEFINE new == [row EXCEPT !.step = step, !.event = event, !.force = force, !.link = link]
<1>1. row \in TaskRow /\ event \in Events \cup {Null}
  BY DEF Works, TaskRow
<1>2. step \in {"discover", "correlate", "resolve", "enrich", "tell",
                "backfill", "again", "search", "apply", "release"}
  BY DEF EventSteps, JobSteps
<1>3. /\ new \in TaskRow /\ new.step = step /\ new.event = event
      /\ new.job = row.job
  BY <1>1, <1>2 DEF TaskRow
<1> HIDE DEF new
<1>4. Works(new)
  BY <1>3 DEF Works, EventSteps, JobSteps
<1> QED
  BY <1>4 DEF new

\* The same, for a task that only goes on.
LEMMA GoesOn ==
    ASSUME TasksWork, NEW t \in Tasks, NEW step, Goto(t, step),
           \/ step \in EventSteps /\ tasks[t].step \in EventSteps
           \/ step \in JobSteps \ {"apply"} /\ tasks[t].step \in JobSteps
    PROVE  TasksWork'
<1> DEFINE row == tasks[t]
<1>1. Works(row) /\ row \in TaskRow
  BY DEF TasksWork
<1>2. row.force \in BOOLEAN /\ row.link \in BOOLEAN /\ row.event \in Events \cup {Null}
  BY <1>1 DEF TaskRow
<1> DEFINE new == [row EXCEPT !.step = step, !.event = row.event, !.force = row.force, !.link = row.link]
<1>3. Works(new)
  BY <1>1, <1>2, RowGoes
<1>4. new = [row EXCEPT !.step = step]
  BY <1>1 DEF TaskRow
<1>5. tasks' = [tasks EXCEPT ![t] = new]
  BY <1>4 DEF Goto
<1> HIDE DEF new
<1> QED
  BY <1>3, <1>5, TaskStepWorks

LEMMA DoneWorks ==
    ASSUME TasksWork, NEW t \in Tasks, Done(t)
    PROVE  TasksWork'
BY FreeWorks, TaskStepWorks DEF Done

\* A task that starts with an event, or with a job.
LEMMA EventTaskWorks ==
    ASSUME TasksWork, NEW t \in Tasks, NEW e \in Events, events' \in [Events -> Event],
           EventTask(t, e, FirstStep)
    PROVE  TasksWork'
<1> DEFINE new == [Free EXCEPT !.step = FirstStep, !.event = e, !.link = events'[e].link,
                               !.seen = events'[e].mapping, !.due = events'[e].due]
<1>1. /\ events'[e].link \in BOOLEAN /\ events'[e].mapping \in Found
      /\ events'[e].due \in BOOLEAN
  BY DEF Event, Found
<1>2. FirstStep \in {"discover", "correlate"}
  BY DEF FirstStep
<1>3. Works(new)
  <2> DEFINE first == FirstStep
  <2> DEFINE link == events'[e].link
  <2> DEFINE seen == events'[e].mapping
  <2> DEFINE due == events'[e].due
  <2>1. first \in {"discover", "correlate"} /\ link \in BOOLEAN /\ seen \in Found /\ due \in BOOLEAN
    BY <1>1, <1>2
  <2>2. new = [Free EXCEPT !.step = first, !.event = e, !.link = link, !.seen = seen, !.due = due]
    OBVIOUS
  <2> HIDE DEF first, link, seen, due, new
  <2>3. new \in TaskRow /\ new.step = first /\ new.event = e
    BY <2>1, <2>2 DEF Free, TaskRow, Found
  <2> QED
    BY <2>1, <2>3 DEF Works, JobSteps
<1>4. tasks' = [tasks EXCEPT ![t] = new]
  BY DEF EventTask
<1> HIDE DEF new
<1> QED
  BY <1>3, <1>4, TaskStepWorks

LEMMA JobTaskWorks ==
    ASSUME TasksWork, NEW t \in Tasks, NEW j \in Jobs, NEW event \in Events \cup {Null},
           NEW step \in {"search", "apply"}, step = "apply" => event \in Events,
           tasks' = [tasks EXCEPT ![t] = [Free EXCEPT !.job = j, !.event = event, !.step = step]]
    PROVE  TasksWork'
<1> DEFINE new == [Free EXCEPT !.job = j, !.event = event, !.step = step]
<1>1. new \in TaskRow /\ new.step = step /\ new.event = event /\ new.job = j
  BY DEF Free, TaskRow, Found
<1>2. tasks' = [tasks EXCEPT ![t] = new]
  OBVIOUS
<1> HIDE DEF new
<1>3. Works(new)
  BY <1>1 DEF Works, EventSteps
<1> QED
  BY <1>2, <1>3, TaskStepWorks
-----------------------------------------------------------------------------
(* Rows.                                                                   *)

\* Edits of events that keep their match and what was applied.
LEMMA EventEdits ==
    ASSUME RowsOK, jobs' = jobs, events' \in [Events -> Event],
           \A e \in Events : /\ events'[e].job = events[e].job
                             /\ events[e].applied => events'[e].applied
    PROVE  RowsOK'
<1>1. Agree'
  BY DEF RowsOK, Agree
<1>2. \A j \in Jobs : jobs[j].event # Null => jobs[j].event \in Events
  BY DEF RowsOK, Job
<1>3. \A j \in Jobs : Verdict(j) => Verdict(j)'
  BY <1>2 DEF Verdict
<1> QED
  BY <1>1, <1>3 DEF RowsOK

\* Edits of jobs that keep their match and are not, or no more, ready.
LEMMA JobEdits ==
    ASSUME RowsOK, events' = events, jobs' \in [Jobs -> Job],
           \A j \in Jobs : /\ jobs'[j].event = jobs[j].event
                           /\ \/ jobs'[j] = jobs[j]
                              \/ jobs'[j].st # "ready" /\ jobs'[j].context # "matched"
                              \/ jobs'[j].st # "ready" /\ jobs'[j].context = jobs[j].context
                              \/ jobs'[j].mapping = "timed_out" /\ jobs'[j].context = "timed_out"
    PROVE  RowsOK'
<1>1. Agree'
  BY DEF RowsOK, Agree
<1>2. \A j \in Jobs : jobs'[j].context = "matched" => jobs'[j].event # Null
  BY DEF RowsOK
<1>3. \A j \in Jobs : jobs'[j].st = "ready" => Verdict(j)'
  BY DEF RowsOK, Verdict
<1> QED
  BY <1>1, <1>2, <1>3 DEF RowsOK

\* A match of two open rows joins them in both tables, and no other job moves.
LEMMA MatchKeeps ==
    ASSUME RowsOK, NEW e \in OpenEvents, NEW j \in OpenJobs, PersistMatch(e, j)
    PROVE  /\ RowsOK' /\ jobs'[j].event = e /\ jobs'[j].st = "waiting"
           /\ \A x \in Jobs \ {j} : jobs'[x] = jobs[x]
<1>1. /\ e \in Events /\ j \in Jobs /\ events[e].job = Null /\ jobs[j].event = Null
      /\ jobs[j].st = "waiting"
      /\ Null \notin Events \cup Jobs
  BY ContextAssumption DEF OpenEvents, OpenJobs
<1> DEFINE row == [jobs[j] EXCEPT !.event = e, !.context = "matched"]
<1> DEFINE seen == [events[e] EXCEPT !.st = "matched", !.job = j]
<1>2. jobs[j] \in Job /\ events[e] \in Event
  BY <1>1 DEF RowsOK
<1>3. row \in Job /\ row.event = e /\ row.st = "waiting" /\ row.context = "matched"
  BY <1>1, <1>2 DEF Job
<1>4. seen \in Event /\ seen.job = j /\ (events[e].applied => seen.applied)
  BY <1>1, <1>2 DEF Event
<1>5. jobs' = [jobs EXCEPT ![j] = row] /\ events' = [events EXCEPT ![e] = seen]
  BY <1>1 DEF PersistMatch, RowsOK
<1> HIDE DEF row, seen
<1>6. /\ jobs' \in [Jobs -> Job] /\ events' \in [Events -> Event]
      /\ jobs'[j] = row /\ \A x \in Jobs \ {j} : jobs'[x] = jobs[x]
      /\ events'[e] = seen /\ \A x \in Events \ {e} : events'[x] = events[x]
  BY <1>1, <1>3, <1>4, <1>5 DEF RowsOK
<1>7. Agree'
  BY <1>1, <1>3, <1>4, <1>6 DEF RowsOK, Agree
<1>8. \A x \in Jobs : jobs'[x].context = "matched" => jobs'[x].event # Null
  BY <1>1, <1>3, <1>6 DEF RowsOK
<1>9. \A x \in Events : events[x].applied => events'[x].applied
  BY <1>4, <1>6
<1>10. \A x \in Jobs \ {j} : Verdict(x) => Verdict(x)'
  <2>1. \A x \in Jobs : jobs[x].event # Null => jobs[x].event \in Events
    BY DEF RowsOK, Job
  <2> QED
    BY <1>6, <1>9, <2>1 DEF Verdict
<1>11. \A x \in Jobs : jobs'[x].st = "ready" => Verdict(x)'
  BY <1>3, <1>6, <1>10 DEF RowsOK
<1>12. RowsOK'
  BY <1>6, <1>7, <1>8, <1>11 DEF RowsOK
<1> QED
  BY <1>3, <1>6, <1>12

\* The pairs that a search looks at are of rows that are open.
Open(pairs) == \A p \in pairs : p = <<p[1], p[2]>> /\ p[1] \in OpenEvents /\ p[2] \in OpenJobs

\* The two queries only return rows that are open.
LEMMA PairsOpen ==
    ASSUME NEW e, NEW j
    PROVE  /\ Open(PairsOfEvent(e)) /\ \A p \in PairsOfEvent(e) : p[1] = e
           /\ Open(PairsOfJob(j)) /\ \A p \in PairsOfJob(j) : p[2] = j
BY DEF Open, PairsOfEvent, PairsOfJob

\* Marking pairs ambiguous moves no match and no released job.
LEMMA MarkKeeps ==
    ASSUME RowsOK, NEW pairs, Open(pairs), MarkAmbiguous(pairs)
    PROVE  /\ RowsOK'
           /\ \A j \in Jobs : /\ jobs'[j].event = jobs[j].event
                              /\ jobs'[j].st = jobs[j].st
                              /\ jobs[j].st = "ready" => jobs'[j] = jobs[j]
<1>1. \A e \in Events : \/ events'[e] = events[e]
                        \/ events'[e] = [events[e] EXCEPT !.st = "ambiguous"]
  BY DEF MarkAmbiguous
<1>2. \A j \in Jobs : \/ jobs'[j] = jobs[j]
                      \/ /\ jobs[j].st = "waiting" /\ jobs[j].context # "matched"
                         /\ jobs'[j] = [jobs[j] EXCEPT !.context = "ambiguous"]
  <2>1. \A j \in Jobs : (\E p \in pairs : p[2] = j) =>
                          jobs[j].st = "waiting" /\ jobs[j].context \in {"pending", "ambiguous"}
    BY DEF Open, OpenJobs
  <2> QED
    BY <2>1 DEF MarkAmbiguous
<1>3. \A e \in Events : /\ events'[e] \in Event /\ events'[e].job = events[e].job
                        /\ events'[e].applied = events[e].applied
  <2>1. \A r \in Event : LET q == [r EXCEPT !.st = "ambiguous"]
                         IN q \in Event /\ q.job = r.job /\ q.applied = r.applied
    BY DEF Event
  <2>2. \A e \in Events : events[e] \in Event
    BY DEF RowsOK
  <2> QED
    BY <1>1, <2>1, <2>2
<1>4. \A j \in Jobs : jobs[j] \in Job
  BY DEF RowsOK
<1>5. \A j \in Jobs : /\ jobs'[j] \in Job /\ jobs'[j].event = jobs[j].event
                      /\ jobs'[j].st = jobs[j].st
                      /\ \/ jobs'[j] = jobs[j]
                         \/ jobs'[j].st = "waiting" /\ jobs'[j].context = "ambiguous"
  <2> SUFFICES ASSUME NEW j \in Jobs
               PROVE  /\ jobs'[j] \in Job /\ jobs'[j].event = jobs[j].event
                      /\ jobs'[j].st = jobs[j].st
                      /\ \/ jobs'[j] = jobs[j]
                         \/ jobs'[j].st = "waiting" /\ jobs'[j].context = "ambiguous"
    OBVIOUS
  <2>1. CASE jobs'[j] = jobs[j]
    BY <1>4, <2>1
  <2>2. CASE jobs'[j] # jobs[j]
    <3>1. jobs[j] \in Job /\ jobs[j].st = "waiting"
          /\ jobs'[j] = [jobs[j] EXCEPT !.context = "ambiguous"]
      BY <1>2, <1>4, <2>2
    <3> QED
      BY <3>1 DEF Job
  <2> QED
    BY <2>1, <2>2
<1>6. /\ events' \in [Events -> Event] /\ jobs' \in [Jobs -> Job]
  BY <1>3, <1>5 DEF MarkAmbiguous
<1>7. Agree'
  BY <1>3, <1>5 DEF RowsOK, Agree
<1>8. \A j \in Jobs : jobs'[j].context = "matched" => jobs'[j].event # Null
  BY <1>5 DEF RowsOK
<1>9. \A j \in Jobs : jobs[j].event # Null => jobs[j].event \in Events
  BY DEF RowsOK, Job
<1>10. \A j \in Jobs : jobs'[j] = jobs[j] /\ Verdict(j) => Verdict(j)'
  BY <1>3, <1>9 DEF Verdict
<1>11. \A j \in Jobs : jobs'[j].st = "ready" => Verdict(j)'
  BY <1>5, <1>10 DEF RowsOK
<1>12. RowsOK'
  BY <1>6, <1>7, <1>8, <1>11 DEF RowsOK
<1> QED
  BY <1>2, <1>5, <1>12
-----------------------------------------------------------------------------
(* The search of a pair.                                                   *)

LEMMA ScoreType == \A e, j : Score(e, j) \in Nat
BY DEF Score

\* A single best pair is strictly better than the others.
LEMMA BestAlone ==
    ASSUME NEW pairs, IsFiniteSet(pairs), Cardinality(Best(pairs)) = 1
    PROVE  \E p \in pairs : /\ Best(pairs) = {p}
                            /\ \A q \in pairs \ {p} : Score(q[1], q[2]) < Score(p[1], p[2])
<1>1. Best(pairs) \in SUBSET pairs
  BY DEF Best
<1>2. IsFiniteSet(Best(pairs))
  BY <1>1, FS_Subset
<1>3. PICK p : Best(pairs) = {p}
  BY <1>2, FS_Singleton
<1>4. p \in pairs /\ \A q \in pairs : Score(q[1], q[2]) <= Score(p[1], p[2])
  BY <1>3 DEF Best
<1>5. ASSUME NEW q \in pairs \ {p} PROVE Score(q[1], q[2]) < Score(p[1], p[2])
  <2>1. Score(q[1], q[2]) \in Nat /\ Score(p[1], p[2]) \in Nat
    BY ScoreType
  <2>2. Score(q[1], q[2]) # Score(p[1], p[2])
    <3> SUFFICES ASSUME Score(q[1], q[2]) = Score(p[1], p[2]) PROVE FALSE
      OBVIOUS
    <3>1. q \in Best(pairs)
      BY <1>4 DEF Best
    <3> QED
      BY <1>3, <3>1
  <2>3. Score(q[1], q[2]) <= Score(p[1], p[2])
    BY <1>4
  <2> QED
    BY <2>1, <2>2, <2>3
<1> QED
  BY <1>3, <1>4, <1>5

\* A search looks at finitely many pairs.
LEMMA PairsFinite ==
    ASSUME NEW e, NEW j
    PROVE  IsFiniteSet(PairsOfEvent(e)) /\ IsFiniteSet(PairsOfJob(j))
<1>1. IsFiniteSet(Events \X Jobs)
  BY ContextAssumption, FS_Product
<1>2. PairsOfEvent(e) \in SUBSET (Events \X Jobs) /\ PairsOfJob(j) \in SUBSET (Events \X Jobs)
  BY DEF PairsOfEvent, PairsOfJob, OpenEvents, OpenJobs
<1> QED
  BY <1>1, <1>2, FS_Subset

\* A match that both sides prefer to whatever else waits.
Preferred(p) ==
    \A q \in (PairsOfEvent(p[1]) \cup PairsOfJob(p[2])) \ {p} :
        Score(q[1], q[2]) < Score(p[1], p[2])

\* What a search does: it marks, or it joins two rows that prefer each other.
LEMMA Correlated ==
    ASSUME NEW pairs, NEW anchor,
           \/ anchor = "event" /\ \E e : pairs = PairsOfEvent(e)
           \/ anchor = "job" /\ \E j : pairs = PairsOfJob(j),
           Correlate(pairs, anchor)
    PROVE  \/ UNCHANGED <<events, jobs>>
           \/ \E marked : Open(marked) /\ MarkAmbiguous(marked)
           \/ \E p \in pairs : PersistMatch(p[1], p[2]) /\ Preferred(p)
<1> DEFINE best == Best(pairs)
<1> DEFINE twice == {p \in pairs : "twice" \in signals[p]}
<1> DEFINE reciprocal == UNION {Best(Opposite(p, anchor)) : p \in best}
<1>1. Open(pairs) /\ IsFiniteSet(pairs) /\ \A p \in pairs : Open(Opposite(p, anchor))
  BY PairsOpen, PairsFinite DEF Opposite
<1>2. Open(best) /\ Open(twice) /\ Open(reciprocal)
  BY <1>1 DEF Open, Best
<1>3. \/ UNCHANGED <<events, jobs>>
      \/ MarkAmbiguous(twice) \/ MarkAmbiguous(best) \/ MarkAmbiguous(reciprocal)
      \/ /\ Cardinality(best) = 1 /\ Cardinality(reciprocal) = 1 /\ reciprocal = best
         /\ \A p \in best : PersistMatch(p[1], p[2])
  BY DEF Correlate
<1>4. ASSUME Cardinality(best) = 1, Cardinality(reciprocal) = 1, reciprocal = best,
             \A p \in best : PersistMatch(p[1], p[2])
      PROVE  \E p \in pairs : PersistMatch(p[1], p[2]) /\ Preferred(p)
  <2>1. PICK p \in pairs : /\ best = {p}
                           /\ \A q \in pairs \ {p} : Score(q[1], q[2]) < Score(p[1], p[2])
    BY <1>1, <1>4, BestAlone
  <2>2. reciprocal = Best(Opposite(p, anchor))
    BY <2>1
  <2>3. IsFiniteSet(Opposite(p, anchor))
    BY PairsFinite DEF Opposite
  <2>4. PICK r \in Opposite(p, anchor) :
          /\ Best(Opposite(p, anchor)) = {r}
          /\ \A q \in Opposite(p, anchor) \ {r} : Score(q[1], q[2]) < Score(r[1], r[2])
    BY <1>4, <2>2, <2>3, BestAlone
  <2>5. r = p
    BY <1>4, <2>1, <2>2, <2>4
  <2>6. PairsOfEvent(p[1]) \cup PairsOfJob(p[2]) = pairs \cup Opposite(p, anchor)
    BY PairsOpen DEF Opposite
  <2>7. Preferred(p)
    <3> HIDE DEF best, reciprocal
    <3> QED
      BY <2>1, <2>4, <2>5, <2>6 DEF Preferred
  <2> QED
    BY <1>4, <2>1, <2>7
<1> HIDE DEF best, twice, reciprocal
<1> QED
  BY <1>2, <1>3, <1>4

\* What a search leaves as it was, and what it finds.
LEMMA SearchKeeps ==
    ASSUME RowsOK, NEW e, NEW j, CorrelateEvent(e) \/ CorrelateJob(j)
    PROVE  /\ RowsOK'
           /\ \A x \in Jobs : jobs[x].st = "ready" => jobs'[x] = jobs[x]
           /\ \A x \in Jobs, y \in Events : jobs[x].event = Null /\ jobs'[x].event = y =>
                Preferred(<<y, x>>)
<1>1. PICK pairs, anchor :
        /\ \/ anchor = "event" /\ \E y : pairs = PairsOfEvent(y)
           \/ anchor = "job" /\ \E x : pairs = PairsOfJob(x)
        /\ Correlate(pairs, anchor) /\ Open(pairs)
  BY PairsOpen DEF CorrelateEvent, CorrelateJob
<1>2. Null \notin Events
  BY ContextAssumption
<1>3. CASE UNCHANGED <<events, jobs>>
  BY <1>2, <1>3, EventEdits DEF RowsOK
<1>4. ASSUME NEW marked, Open(marked), MarkAmbiguous(marked)
      PROVE  /\ RowsOK'
             /\ \A x \in Jobs : jobs[x].st = "ready" => jobs'[x] = jobs[x]
             /\ \A x \in Jobs, y \in Events : jobs[x].event = Null /\ jobs'[x].event = y =>
                  Preferred(<<y, x>>)
  BY <1>2, <1>4, MarkKeeps
<1>5. ASSUME NEW p \in pairs, PersistMatch(p[1], p[2]), Preferred(p)
      PROVE  /\ RowsOK'
             /\ \A x \in Jobs : jobs[x].st = "ready" => jobs'[x] = jobs[x]
             /\ \A x \in Jobs, y \in Events : jobs[x].event = Null /\ jobs'[x].event = y =>
                  Preferred(<<y, x>>)
  <2>1. p = <<p[1], p[2]>> /\ p[1] \in OpenEvents /\ p[2] \in OpenJobs
    BY <1>1 DEF Open
  <2>2. /\ RowsOK' /\ jobs'[p[2]].event = p[1] /\ jobs[p[2]].st = "waiting"
        /\ \A x \in Jobs \ {p[2]} : jobs'[x] = jobs[x]
    BY <1>5, <2>1, MatchKeeps DEF OpenJobs
  <2> QED
    BY <1>2, <1>5, <2>1, <2>2
<1> QED
  BY <1>1, <1>3, <1>4, <1>5, Correlated
-----------------------------------------------------------------------------
(* What every step does to the rows.                                       *)

ReadyKept == \A x \in Jobs : jobs[x].st = "ready" => jobs'[x] = jobs[x]
NewPreferred ==
    \A x \in Jobs, y \in Events : jobs[x].event = Null /\ jobs'[x].event = y => Preferred(<<y, x>>)
RowsStep == RowsOK' /\ ReadyKept /\ NewPreferred

LEMMA MatchesKept ==
    ASSUME \A x \in Jobs : jobs'[x].event = jobs[x].event
    PROVE  NewPreferred
BY ContextAssumption DEF NewPreferred

LEMMA SearchSteps ==
    ASSUME RowsOK, NEW e, NEW j, CorrelateEvent(e) \/ CorrelateJob(j)
    PROVE  RowsStep
BY SearchKeeps DEF RowsStep, ReadyKept, NewPreferred

LEMMA NoRowStep ==
    ASSUME RowsOK, UNCHANGED <<events, jobs>>
    PROVE  RowsStep
BY EventEdits, MatchesKept DEF RowsOK, RowsStep, ReadyKept

\* An event is edited, and keeps its match and what was applied.
LEMMA EventStep ==
    ASSUME RowsOK, UNCHANGED jobs, NEW e \in Events, NEW row \in Event,
           row.job = events[e].job, events[e].applied => row.applied,
           events' = [events EXCEPT ![e] = row]
    PROVE  RowsStep
<1>1. /\ events' \in [Events -> Event]
      /\ \A x \in Events : /\ events'[x].job = events[x].job
                           /\ events[x].applied => events'[x].applied
  BY DEF RowsOK
<1> QED
  BY <1>1, EventEdits, MatchesKept DEF RowsStep, ReadyKept

\* A job that is not released yet is edited, or timed out.
LEMMA JobStep ==
    ASSUME RowsOK, UNCHANGED events, NEW j \in Jobs, NEW row \in Job,
           jobs[j].st # "ready", row.event = jobs[j].event,
           \/ row.st # "ready" /\ row.context = jobs[j].context
           \/ row.mapping = "timed_out" /\ row.context = "timed_out",
           jobs' = [jobs EXCEPT ![j] = row]
    PROVE  RowsStep
<1>1. jobs' \in [Jobs -> Job] /\ jobs'[j] = row /\ \A x \in Jobs \ {j} : jobs'[x] = jobs[x]
  BY DEF RowsOK
<1>2. RowsOK'
  BY <1>1, JobEdits
<1> QED
  BY <1>1, <1>2, MatchesKept DEF RowsStep, ReadyKept

\* resolve_and_release_matched_job: the job that is released is the event's own,
\* and the verdict is that of the content.
LEMMA ReleaseSteps ==
    ASSUME RowsOK, content \in [Events -> Contents], NEW e \in Events, NEW force,
           ResolveAndRelease(e, force)
    PROVE  RowsStep
<1>1. Mapping(e) \in {"not_found", "resolved", "ambiguous"}
  BY DEF Mapping, Contents
<1>2. CASE UNCHANGED <<events, jobs>>
  BY <1>2, NoRowStep
<1>3. CASE /\ Mapping(e) = "not_found" /\ UNCHANGED jobs
           /\ events' = [events EXCEPT ![e].mapping = "not_found", ![e].due = FALSE]
  <2> DEFINE row == [events[e] EXCEPT !.mapping = "not_found", !.due = FALSE]
  <2>1. events[e] \in Event
    BY DEF RowsOK
  <2>2. row \in Event /\ row.job = events[e].job /\ (events[e].applied => row.applied)
    BY <2>1 DEF Event
  <2>3. events' = [events EXCEPT ![e] = row]
    BY <1>3 DEF RowsOK
  <2> HIDE DEF row
  <2> QED
    BY <1>3, <2>2, <2>3, EventStep
<1>4. ASSUME NEW j \in Jobs, Holds(e, j), Mapping(e) # "not_found",
             jobs' = [jobs EXCEPT ![events[e].job].st = "ready",
                                  ![events[e].job].mapping = Mapping(e)],
             events' = [events EXCEPT ![e].mapping = Mapping(e), ![e].due = TRUE,
                                      ![e].applied = TRUE]
      PROVE  RowsStep
  <2> DEFINE found == Mapping(e)
  <2> DEFINE row == [jobs[j] EXCEPT !.st = "ready", !.mapping = found]
  <2> DEFINE seen == [events[e] EXCEPT !.mapping = found, !.due = TRUE, !.applied = TRUE]
  <2>1. found \in {"resolved", "ambiguous"} /\ events[e] \in Event /\ jobs[j] \in Job
    BY <1>1, <1>4 DEF RowsOK
  <2>2. /\ events[e].job = j /\ jobs[j].event = e /\ jobs[j].st = "waiting"
        /\ e # Null
    BY <1>4, ContextAssumption DEF Holds
  <2>3. jobs' = [jobs EXCEPT ![j] = row] /\ events' = [events EXCEPT ![e] = seen]
    BY <1>4, <2>2 DEF RowsOK
  <2> HIDE DEF found
  <2>4. row \in Job /\ row.event = e /\ row.mapping = found
    BY <2>1, <2>2 DEF Job
  <2>5. seen \in Event /\ seen.job = j /\ seen.applied
    BY <2>1, <2>2 DEF Event
  <2> HIDE DEF row, seen
  <2>6. /\ jobs' \in [Jobs -> Job] /\ events' \in [Events -> Event]
        /\ jobs'[j] = row /\ \A x \in Jobs \ {j} : jobs'[x] = jobs[x]
        /\ events'[e] = seen /\ \A x \in Events \ {e} : events'[x] = events[x]
    BY <2>3, <2>4, <2>5 DEF RowsOK
  <2>7. Agree'
    BY <2>2, <2>4, <2>5, <2>6 DEF RowsOK, Agree
  <2>8. \A x \in Jobs : jobs'[x].context = "matched" => jobs'[x].event # Null
    BY <2>2, <2>4, <2>6 DEF RowsOK
  <2>9. \A x \in Events : events[x].applied => events'[x].applied
    BY <2>5, <2>6
  <2>10. \A x \in Jobs : jobs[x].event # Null => jobs[x].event \in Events
    BY DEF RowsOK, Job
  <2>11. \A x \in Jobs \ {j} : Verdict(x) => Verdict(x)'
    BY <2>6, <2>9, <2>10 DEF Verdict
  <2>12. Verdict(j)'
    BY <2>1, <2>2, <2>4, <2>5, <2>6 DEF Verdict
  <2>13. RowsOK'
    BY <2>6, <2>7, <2>8, <2>11, <2>12 DEF RowsOK
  <2> QED
    BY <2>2, <2>4, <2>6, <2>13, MatchesKept DEF RowsStep, ReadyKept
<1> QED
  BY <1>2, <1>3, <1>4 DEF ResolveAndRelease

\* _release_context_job_if_due: only a waiting job is timed out.
LEMMA TimeOutSteps ==
    ASSUME RowsOK, UNCHANGED events, NEW j \in Jobs, ReleaseIfDue(j)
    PROVE  RowsStep
<1> DEFINE row == [jobs[j] EXCEPT !.st = "ready", !.context = "timed_out", !.mapping = "timed_out"]
<1>1. CASE jobs' = jobs
  BY <1>1, NoRowStep
<1>2. CASE jobs[j].st = "waiting" /\ jobs' = TimedOut(j)
  <2>1. jobs[j] \in Job
    BY DEF RowsOK
  <2>2. /\ row \in Job /\ row.event = jobs[j].event
        /\ row.mapping = "timed_out" /\ row.context = "timed_out"
    BY <2>1 DEF Job
  <2>3. jobs' = [jobs EXCEPT ![j] = row]
    BY <1>2 DEF TimedOut, RowsOK
  <2> HIDE DEF row
  <2> QED
    BY <1>2, <2>2, <2>3, JobStep
<1> QED
  BY <1>1, <1>2 DEF ReleaseIfDue
-----------------------------------------------------------------------------
(* The actions.                                                            *)

LEMMA ScopeFacts ==
    ASSUME BoundsOK
    PROVE  /\ scope.tasks \subseteq Tasks
           /\ scope.edits \in Nat /\ scope.ages \in Nat /\ scope.crashes \in Nat
BY ScopesAssumption DEF BoundsOK, Scope

LEMMA BoundsKept ==
    ASSUME BoundsOK, UNCHANGED <<scope, spent>>, on' \in BOOLEAN, content' \in [Events -> Contents]
    PROVE  BoundsOK'
BY DEF BoundsOK

\* A step that uses up a bound stays within it.
LEMMA SpendKeeps ==
    ASSUME BoundsOK, UNCHANGED <<scope, on>>, content' \in [Events -> Contents],
           Spend("edits") \/ Spend("ages") \/ Spend("crashes")
    PROVE  BoundsOK'
<1>1. /\ spent \in [edits : 0..scope.edits, ages : 0..scope.ages, crashes : 0..scope.crashes]
      /\ scope.edits \in Nat /\ scope.ages \in Nat /\ scope.crashes \in Nat
  BY ScopeFacts DEF BoundsOK
<1>2. CASE Spend("edits")
  <2>1. spent.edits < scope.edits /\ spent' = [spent EXCEPT !.edits = spent.edits + 1]
    BY <1>2 DEF Spend
  <2> QED
    BY <1>1, <2>1 DEF BoundsOK
<1>3. CASE Spend("ages")
  <2>1. spent.ages < scope.ages /\ spent' = [spent EXCEPT !.ages = spent.ages + 1]
    BY <1>3 DEF Spend
  <2> QED
    BY <1>1, <2>1 DEF BoundsOK
<1>4. CASE Spend("crashes")
  <2>1. spent.crashes < scope.crashes /\ spent' = [spent EXCEPT !.crashes = spent.crashes + 1]
    BY <1>4 DEF Spend
  <2> QED
    BY <1>1, <2>1 DEF BoundsOK
<1> QED
  BY <1>2, <1>3, <1>4

\* A step keeps the invariant, the verdicts, and the preferences of a match.
StepOK == BoundsOK' /\ RowsStep /\ TasksWork'

\* What a task works on, at each of its steps.
LEMMA TaskFacts ==
    ASSUME ContextInv, NEW t \in Tasks
    PROVE  /\ Works(tasks[t]) /\ tasks[t] \in TaskRow
           /\ tasks[t].step \in EventSteps => tasks[t].event \in Events
           /\ tasks[t].step \in JobSteps => tasks[t].job \in Jobs
           /\ tasks[t].step = "apply" => tasks[t].event \in Events
           /\ \A e \in Events : events[e] \in Event
           /\ \A j \in Jobs : jobs[j] \in Job
           /\ content \in [Events -> Contents] /\ on \in BOOLEAN
BY DEF ContextInv, BoundsOK, RowsOK, TasksWork, Works

\* An event or a job arrives, or a task takes up one that waits.
LEMMA ArrivalSteps ==
    ASSUME ContextInv, NEW t \in Tasks,
           \/ \E e \in Events : StoreEvent(t, e) \/ RetryEvent(t, e)
           \/ \E j \in Jobs : JobWaits(t, j) \/ VisitJob(t, j)
    PROVE  StepOK
<1>1. /\ BoundsOK /\ RowsOK /\ TasksWork
      /\ on \in BOOLEAN /\ content \in [Events -> Contents]
  BY DEF ContextInv, BoundsOK
<1>2. UNCHANGED <<scope, on, content, spent>>
  BY DEF StoreEvent, RetryEvent, JobWaits, VisitJob, rows
<1>3. BoundsOK'
  BY <1>1, <1>2, BoundsKept
<1>4. ASSUME NEW e \in Events, StoreEvent(t, e) PROVE RowsStep /\ TasksWork'
  <2> DEFINE row == [events[e] EXCEPT !.st = "pending"]
  <2>1. events[e] \in Event
    BY TaskFacts
  <2>2. row \in Event /\ row.job = events[e].job /\ (events[e].applied => row.applied)
    BY <2>1 DEF Event
  <2>3. events' = [events EXCEPT ![e] = row] /\ jobs' = jobs /\ EventTask(t, e, FirstStep)
    BY <1>4 DEF StoreEvent
  <2> HIDE DEF row
  <2>4. RowsStep
    BY <1>1, <2>2, <2>3, EventStep
  <2>5. events' \in [Events -> Event]
    BY <2>4 DEF RowsStep, RowsOK
  <2> QED
    BY <1>1, <2>3, <2>4, <2>5, EventTaskWorks
<1>5. ASSUME NEW e \in Events, RetryEvent(t, e) PROVE RowsStep /\ TasksWork'
  <2>1. UNCHANGED <<events, jobs>> /\ EventTask(t, e, FirstStep)
    BY <1>5 DEF RetryEvent
  <2>2. RowsStep
    BY <1>1, <2>1, NoRowStep
  <2>3. events' \in [Events -> Event]
    BY <2>2 DEF RowsStep, RowsOK
  <2> QED
    BY <1>1, <2>1, <2>2, <2>3, EventTaskWorks
<1>6. ASSUME NEW j \in Jobs, JobWaits(t, j) PROVE RowsStep /\ TasksWork'
  <2> DEFINE row == [jobs[j] EXCEPT !.st = "waiting"]
  <2>1. jobs[j] \in Job /\ jobs[j].st = "absent"
    BY <1>6, TaskFacts DEF JobWaits
  <2>2. row \in Job /\ row.event = jobs[j].event /\ row.st = "waiting" /\ row.context = jobs[j].context
    BY <2>1 DEF Job
  <2>3. jobs' = [jobs EXCEPT ![j] = row] /\ events' = events
    BY <1>6 DEF JobWaits
  <2> HIDE DEF row
  <2>4. RowsStep
    BY <1>1, <2>1, <2>2, <2>3, JobStep
  <2>5. tasks' = [tasks EXCEPT ![t] = [Free EXCEPT !.job = j, !.event = Null, !.step = "search"]]
    <3>1. [Free EXCEPT !.step = "search", !.job = j]
            = [Free EXCEPT !.job = j, !.event = Null, !.step = "search"]
      <4>1. Free \in TaskRow /\ Free.event = Null
        BY FreeWorks DEF Works, Free
      <4> QED
        BY <4>1 DEF TaskRow
    <3> QED
      BY <1>6, <3>1 DEF JobWaits
  <2>6. TasksWork'
    BY <1>1, <2>5, JobTaskWorks
  <2> QED
    BY <2>4, <2>6
<1>7. ASSUME NEW j \in Jobs, VisitJob(t, j) PROVE RowsStep /\ TasksWork'
  <2>1. UNCHANGED <<events, jobs>> /\ jobs[j] \in Job
    BY <1>7, TaskFacts DEF VisitJob, rows
  <2>2. RowsStep
    BY <1>1, <2>1, NoRowStep
  <2>3. /\ jobs[j].event \in Events \cup {Null}
        /\ jobs[j].context = "matched" => jobs[j].event \in Events
    BY <1>1, <2>1 DEF RowsOK, Job
  <2> DEFINE step == IF jobs[j].context = "matched" THEN "apply" ELSE "search"
  <2> DEFINE event == jobs[j].event
  <2>4. step \in {"search", "apply"} /\ (step = "apply" => event \in Events)
    BY <2>3
  <2>5. tasks' = [tasks EXCEPT ![t] = [Free EXCEPT !.job = j, !.event = event, !.step = step]]
    BY <1>7 DEF VisitJob
  <2> HIDE DEF step
  <2>6. TasksWork'
    BY <1>1, <2>3, <2>4, <2>5, JobTaskWorks
  <2> QED
    BY <2>2, <2>6
<1>8. RowsStep /\ TasksWork'
  BY <1>4, <1>5, <1>6, <1>7
<1> QED
  BY <1>3, <1>8 DEF StepOK

\* The steps of a task whose event is searched, resolved, enriched and told.
LEMMA EventTaskSteps ==
    ASSUME ContextInv, NEW t \in Tasks,
           \/ Discover(t) \/ EventCorrelates(t) \/ EventResolves(t) \/ Enrich(t) \/ Tell(t)
           \/ Backfill(t) \/ EventResolvesAgain(t)
    PROVE  StepOK
<1>0. PICK e : e = tasks[t].event
  OBVIOUS
<1>1. /\ BoundsOK /\ RowsOK /\ TasksWork
      /\ on \in BOOLEAN /\ content \in [Events -> Contents]
  BY DEF ContextInv, BoundsOK
<1>2. tasks[t].step \in EventSteps /\ e \in Events /\ events[e] \in Event
  <2>1. tasks[t].step \in EventSteps
    BY DEF Discover, EventCorrelates, EventResolves, Enrich, Tell, Backfill, EventResolvesAgain,
           EventSteps
  <2> QED
    BY <1>0, <2>1, TaskFacts
<1>3. UNCHANGED <<scope, on, spent>>
  BY DEF Discover, EventCorrelates, EventResolves, Enrich, Tell, Backfill, EventResolvesAgain
<1>4. \/ UNCHANGED content
      \/ \E value \in Contents : content' = [content EXCEPT ![e] = value]
  <2>1. content[e] \in Contents /\ {"empty", "id"} \subseteq Contents
    BY <1>1, <1>2 DEF Contents
  <2>2. CASE Discover(t)
    BY <1>0, <1>1, <2>1, <2>2 DEF Discover
  <2>3. CASE Backfill(t)
    BY <1>0, <1>1, <2>1, <2>3 DEF Backfill
  <2> QED
    BY <2>2, <2>3 DEF EventCorrelates, EventResolves, Enrich, Tell, EventResolvesAgain
<1>5. BoundsOK'
  <2>1. content' \in [Events -> Contents]
    BY <1>1, <1>4
  <2> QED
    BY <1>1, <1>3, <2>1, BoundsKept
<1>6. ASSUME NEW step \in EventSteps, NEW force \in BOOLEAN, NEW link \in BOOLEAN,
             tasks' = [tasks EXCEPT ![t] = [tasks[t] EXCEPT !.step = step, !.event = tasks[t].event,
                                                           !.force = force, !.link = link]]
      PROVE  TasksWork'
  <2> DEFINE new == [tasks[t] EXCEPT !.step = step, !.event = tasks[t].event,
                                     !.force = force, !.link = link]
  <2>1. Works(new)
    BY <1>2, RowGoes, TaskFacts
  <2>2. tasks' = [tasks EXCEPT ![t] = new]
    BY <1>6
  <2> HIDE DEF new
  <2> QED
    BY <1>1, <2>1, <2>2, TaskStepWorks
<1>7. tasks[t] \in TaskRow /\ tasks[t].force \in BOOLEAN /\ tasks[t].link \in BOOLEAN
  BY TaskFacts DEF TaskRow
<1>8. CASE Discover(t)
  <2>1. Goto(t, "correlate") /\ UNCHANGED <<events, jobs>>
    BY <1>8 DEF Discover
  <2>2. TasksWork'
    BY <1>1, <1>2, <2>1, GoesOn DEF EventSteps
  <2> QED
    BY <1>1, <1>5, <2>1, <2>2, NoRowStep DEF StepOK
<1>9. CASE EventCorrelates(t)
  <2> DEFINE force == events[e].job = Null /\ events'[e].job # Null
  <2>1. tasks' = [tasks EXCEPT ![t] = [tasks[t] EXCEPT !.step = "resolve", !.event = tasks[t].event,
                                          !.force = force, !.link = tasks[t].link]]
    <3> DEFINE given == tasks[t]
    <3>1. given \in TaskRow
      BY <1>7
    <3>2. tasks' = [tasks EXCEPT ![t] = [given EXCEPT !.step = "resolve", !.force = force]]
      BY <1>0, <1>1, <1>9 DEF EventCorrelates, TasksWork
    <3> HIDE DEF given, force
    <3>3. [given EXCEPT !.step = "resolve", !.force = force]
            = [given EXCEPT !.step = "resolve", !.event = given.event, !.force = force,
                            !.link = given.link]
      BY <3>1 DEF TaskRow
    <3> QED
      BY <3>2, <3>3 DEF given
  <2>2. force \in BOOLEAN /\ "resolve" \in EventSteps
    BY DEF EventSteps
  <2> HIDE DEF force
  <2>3. TasksWork'
    BY <1>6, <1>7, <2>1, <2>2
  <2>4. RowsStep
    BY <1>0, <1>1, <1>9, SearchSteps, NoRowStep DEF EventCorrelates
  <2> QED
    BY <1>5, <2>3, <2>4 DEF StepOK
<1>10. CASE EventResolves(t)
  <2> DEFINE step == IF story THEN "again" ELSE "enrich"
  <2>1. tasks' = [tasks EXCEPT ![t] = [tasks[t] EXCEPT !.step = step, !.event = tasks[t].event,
                                          !.force = FALSE, !.link = tasks[t].link]]
    <3> DEFINE given == tasks[t]
    <3>1. given \in TaskRow
      BY <1>7
    <3>2. tasks' = [tasks EXCEPT ![t] = [given EXCEPT !.step = step, !.force = FALSE]]
      BY <1>1, <1>10 DEF EventResolves, TasksWork
    <3> HIDE DEF given, step
    <3>3. [given EXCEPT !.step = step, !.force = FALSE]
            = [given EXCEPT !.step = step, !.event = given.event, !.force = FALSE,
                            !.link = given.link]
      BY <3>1 DEF TaskRow
    <3> QED
      BY <3>2, <3>3 DEF given
  <2>2. step \in EventSteps
    BY DEF EventSteps
  <2> HIDE DEF step
  <2>3. TasksWork'
    BY <1>6, <1>7, <2>1, <2>2
  <2>4. RowsStep
    BY <1>0, <1>1, <1>2, <1>10, ReleaseSteps DEF EventResolves
  <2> QED
    BY <1>5, <2>3, <2>4 DEF StepOK
<1>11. CASE Enrich(t)
  <2>1. CASE UNCHANGED events /\ Goto(t, "tell")
    <3>1. TasksWork'
      BY <1>1, <1>2, <2>1, GoesOn DEF EventSteps
    <3>2. RowsStep
      BY <1>1, <1>11, <2>1, NoRowStep DEF Enrich
    <3> QED
      BY <1>5, <3>1, <3>2 DEF StepOK
  <2>2. CASE /\ events' = [events EXCEPT ![e].link = TRUE]
             /\ tasks' = [tasks EXCEPT ![t].step = "tell", ![t].link = TRUE, ![t].force = TRUE]
    <3> DEFINE given == tasks[t]
    <3>1. given \in TaskRow
      BY <1>7
    <3>2. tasks' = [tasks EXCEPT ![t] = [given EXCEPT !.step = "tell", !.link = TRUE, !.force = TRUE]]
      BY <1>1, <2>2 DEF TasksWork
    <3> HIDE DEF given
    <3>3. [given EXCEPT !.step = "tell", !.link = TRUE, !.force = TRUE]
            = [given EXCEPT !.step = "tell", !.event = given.event, !.force = TRUE, !.link = TRUE]
      BY <3>1 DEF TaskRow
    <3>4. TasksWork'
      BY <1>6, <3>2, <3>3 DEF given, EventSteps
    <3> DEFINE row == [events[e] EXCEPT !.link = TRUE]
    <3>5. row \in Event /\ row.job = events[e].job /\ row.applied = events[e].applied
      BY <1>2 DEF Event
    <3>6. events' = [events EXCEPT ![e] = row] /\ jobs' = jobs
      BY <1>1, <1>11, <2>2 DEF RowsOK, Enrich
    <3> HIDE DEF row
    <3>7. RowsStep
      BY <1>1, <1>2, <3>5, <3>6, EventStep
    <3> QED
      BY <1>5, <3>4, <3>7 DEF StepOK
  <2> QED
    BY <1>0, <1>11, <2>1, <2>2 DEF Enrich
<1>12. CASE Tell(t)
  <2> DEFINE told == events[e].told \/ \E j \in Jobs : events[e].job = j /\ jobs[j].event = e
  <2> DEFINE row == [events[e] EXCEPT !.told = told]
  <2>1. told \in BOOLEAN
    BY <1>2 DEF Event
  <2>2. events' = [events EXCEPT ![e] = row] /\ jobs' = jobs /\ Goto(t, "backfill")
    BY <1>0, <1>1, <1>12 DEF Tell, RowsOK
  <2> HIDE DEF told
  <2>3. row \in Event /\ row.job = events[e].job /\ row.applied = events[e].applied
    BY <1>2, <2>1 DEF Event
  <2> HIDE DEF row
  <2>4. RowsStep
    BY <1>1, <1>2, <2>2, <2>3, EventStep
  <2>5. TasksWork'
    BY <1>1, <1>2, <2>2, GoesOn DEF EventSteps
  <2> QED
    BY <1>5, <2>4, <2>5 DEF StepOK
<1>13. CASE Backfill(t)
  <2>1. Goto(t, "again") /\ jobs' = jobs
    BY <1>13 DEF Backfill
  <2>2. TasksWork'
    BY <1>1, <1>2, <2>1, GoesOn DEF EventSteps
  <2> DEFINE result == CASE content[e] = "url" -> "backfilled" [] content[e] = "id" -> "matched"
                         [] content[e] \in {"many", "other"} -> "conflict" [] OTHER -> "not_found"
  <2> DEFINE due == IF result = "conflict" THEN events[e].due ELSE result # "not_found"
  <2> DEFINE row == [events[e] EXCEPT !.mapping = result, !.due = due]
  <2>3. result \in Found /\ due \in BOOLEAN
    <3>1. result \in {"backfilled", "matched", "conflict", "not_found"}
      OBVIOUS
    <3>2. events[e].due \in BOOLEAN
      BY <1>2 DEF Event
    <3> QED
      BY <3>1, <3>2 DEF Found
  <2>4. events' = [events EXCEPT ![e] = row] \/ events' = events
    <3>1. \/ events' = events
          \/ events' = [events EXCEPT ![e].mapping = result,
                                      ![e].due = IF result = "conflict" THEN @
                                                 ELSE result # "not_found"]
      BY <1>0, <1>13 DEF Backfill
    <3> HIDE DEF result
    <3> QED
      BY <1>1, <1>2, <3>1 DEF RowsOK
  <2> HIDE DEF result, due
  <2>5. row \in Event /\ row.job = events[e].job /\ row.applied = events[e].applied
    BY <1>2, <2>3 DEF Event, Found
  <2> HIDE DEF row
  <2>6. RowsStep
    BY <1>1, <1>2, <2>1, <2>4, <2>5, EventStep, NoRowStep
  <2> QED
    BY <1>5, <2>2, <2>6 DEF StepOK
<1>14. CASE EventResolvesAgain(t)
  <2>1. RowsStep
    BY <1>0, <1>1, <1>2, <1>14, ReleaseSteps DEF EventResolvesAgain
  <2>2. TasksWork'
    BY <1>1, <1>14, DoneWorks DEF EventResolvesAgain
  <2> QED
    BY <1>5, <2>1, <2>2 DEF StepOK
<1> QED
  BY <1>8, <1>9, <1>10, <1>11, <1>12, <1>13, <1>14

\* The steps of a task whose job is searched for, resolved and released.
LEMMA JobTaskSteps ==
    ASSUME ContextInv, NEW t \in Tasks,
           JobCorrelates(t) \/ JobResolves(t) \/ JobReleased(t)
    PROVE  StepOK
<1>0. PICK j : j = tasks[t].job
  OBVIOUS
<1>1. /\ BoundsOK /\ RowsOK /\ TasksWork
      /\ on \in BOOLEAN /\ content \in [Events -> Contents]
  BY DEF ContextInv, BoundsOK
<1>2. tasks[t].step \in JobSteps /\ j \in Jobs
  <2>1. tasks[t].step \in JobSteps
    BY DEF JobCorrelates, JobResolves, JobReleased, JobSteps
  <2> QED
    BY <1>0, <2>1, TaskFacts
<1>3. BoundsOK'
  <2>1. UNCHANGED <<scope, on, content, spent>>
    BY DEF JobCorrelates, JobResolves, JobReleased
  <2> QED
    BY <1>1, <2>1, BoundsKept
<1>4. CASE JobCorrelates(t)
  <2>1. CASE UNCHANGED <<events, jobs>> /\ Goto(t, "release")
    <3>1. TasksWork'
      BY <1>1, <1>2, <2>1, GoesOn DEF JobSteps
    <3> QED
      BY <1>1, <1>3, <2>1, <3>1, NoRowStep DEF StepOK
  <2>2. CASE /\ CorrelateJob(j)
             /\ LET found == jobs[j].event = Null /\ jobs'[j].event # Null IN
                tasks' = [tasks EXCEPT ![t].force = found,
                                       ![t].event = IF found THEN jobs'[j].event ELSE @,
                                       ![t].step = IF found THEN "apply" ELSE "release"]
    <3> DEFINE found == jobs[j].event = Null /\ jobs'[j].event # Null
    <3> DEFINE event == IF found THEN jobs'[j].event ELSE tasks[t].event
    <3> DEFINE step == IF found THEN "apply" ELSE "release"
    <3> DEFINE given == tasks[t]
    <3> DEFINE new == [given EXCEPT !.step = step, !.event = event, !.force = found,
                                    !.link = given.link]
    <3>1. RowsStep
      BY <1>1, <2>2, SearchSteps
    <3>2. jobs'[j].event \in Events \cup {Null}
      BY <1>2, <3>1 DEF RowsStep, RowsOK, Job
    <3>3. /\ given \in TaskRow /\ Works(given) /\ given.step \in JobSteps
          /\ given.event \in Events \cup {Null} /\ given.link \in BOOLEAN
      BY <1>2, TaskFacts DEF TaskRow
    <3>4. tasks' = [tasks EXCEPT ![t] = [given EXCEPT !.force = found, !.event = event, !.step = step]]
      BY <1>1, <2>2 DEF TasksWork
    <3>5. /\ found \in BOOLEAN /\ event \in Events \cup {Null} /\ step \in JobSteps
          /\ step = "apply" => event \in Events
      BY <3>2, <3>3 DEF JobSteps
    <3> HIDE DEF found, event, step, given
    <3>6. new = [given EXCEPT !.force = found, !.event = event, !.step = step]
      BY <3>3 DEF TaskRow
    <3>7. Works(new)
      BY <3>3, <3>5, RowGoes
    <3> HIDE DEF new
    <3>8. TasksWork'
      BY <1>1, <3>4, <3>6, <3>7, TaskStepWorks
    <3> QED
      BY <1>3, <3>1, <3>8 DEF StepOK
  <2> QED
    BY <1>0, <1>4, <2>1, <2>2 DEF JobCorrelates
<1>5. CASE JobResolves(t)
  <2>1. tasks[t].event \in Events
    BY <1>5, TaskFacts DEF JobResolves
  <2>2. PICK e, force : e = tasks[t].event /\ force = tasks[t].force
    OBVIOUS
  <2>3. RowsStep
    BY <1>1, <1>5, <2>1, <2>2, ReleaseSteps DEF JobResolves
  <2>4. TasksWork'
    BY <1>1, <1>2, <1>5, GoesOn DEF JobResolves, JobSteps
  <2> QED
    BY <1>3, <2>3, <2>4 DEF StepOK
<1>6. CASE JobReleased(t)
  <2>1. RowsStep
    BY <1>0, <1>1, <1>2, <1>6, TimeOutSteps DEF JobReleased
  <2>2. TasksWork'
    BY <1>1, <1>6, DoneWorks DEF JobReleased
  <2> QED
    BY <1>3, <2>1, <2>2 DEF StepOK
<1> QED
  BY <1>4, <1>5, <1>6

\* Deadlines, and the release once the features are off.
LEMMA DeadlineSteps ==
    ASSUME ContextInv, NEW j \in Jobs, ReleaseTimedOut(j) \/ DeadlinePasses(j)
    PROVE  StepOK
<1>1. /\ BoundsOK /\ RowsOK /\ TasksWork
      /\ on \in BOOLEAN /\ content \in [Events -> Contents]
  BY DEF ContextInv, BoundsOK
<1>2. UNCHANGED <<scope, on, events, content, tasks, spent>>
  BY DEF ReleaseTimedOut, DeadlinePasses
<1>3. BoundsOK' /\ TasksWork'
  <2>1. TasksWork'
    BY <1>1, <1>2 DEF TasksWork, Works
  <2> QED
    BY <1>1, <1>2, <2>1, BoundsKept
<1>4. CASE ReleaseTimedOut(j)
  BY <1>1, <1>2, <1>3, <1>4, TimeOutSteps DEF ReleaseTimedOut, StepOK
<1>5. CASE DeadlinePasses(j)
  <2> DEFINE row == [jobs[j] EXCEPT !.due = TRUE]
  <2>1. jobs[j] \in Job /\ jobs[j].st = "waiting"
    BY <1>1, <1>5 DEF RowsOK, DeadlinePasses
  <2>2. /\ row \in Job /\ row.event = jobs[j].event /\ row.st = "waiting"
        /\ row.context = jobs[j].context
    BY <2>1 DEF Job
  <2>3. jobs' = [jobs EXCEPT ![j] = row]
    BY <1>1, <1>5 DEF DeadlinePasses, RowsOK
  <2> HIDE DEF row
  <2>4. RowsStep
    BY <1>1, <1>2, <2>1, <2>2, <2>3, JobStep
  <2> QED
    BY <1>3, <2>4 DEF StepOK
<1> QED
  BY <1>4, <1>5

\* The owner's changes of the mappings.
LEMMA ContentSteps ==
    ASSUME ContextInv, NEW e \in Events, CreateContent(e) \/ UpdateContent(e) \/ ArchiveContent(e)
    PROVE  StepOK
<1>1. BoundsOK /\ RowsOK /\ TasksWork /\ content \in [Events -> Contents]
  BY DEF ContextInv, BoundsOK
<1>2. PICK value \in Contents : Edit(e, value)
  BY DEF CreateContent, UpdateContent, ArchiveContent, Contents
<1>3. BoundsOK'
  BY <1>1, <1>2, SpendKeeps DEF Edit
<1>4. RowsStep
  BY <1>1, <1>2, NoRowStep DEF Edit
<1>5. TasksWork'
  BY <1>1, <1>2 DEF Edit, TasksWork, Works
<1> QED
  BY <1>3, <1>4, <1>5 DEF StepOK

\* Events whose retry falls due, and events that grow old.
LEMMA AgeSteps ==
    ASSUME ContextInv, NEW e \in Events, RetryFallsDue(e) \/ EventAges(e)
    PROVE  StepOK
<1>1. /\ BoundsOK /\ RowsOK /\ TasksWork
      /\ on \in BOOLEAN /\ content \in [Events -> Contents] /\ events[e] \in Event
  BY DEF ContextInv, BoundsOK, RowsOK
<1>2. UNCHANGED <<scope, on, jobs, content, tasks>>
  BY DEF RetryFallsDue, EventAges
<1>3. TasksWork'
  BY <1>1, <1>2 DEF TasksWork, Works
<1>4. BoundsOK'
  BY <1>1, <1>2, BoundsKept, SpendKeeps DEF RetryFallsDue, EventAges
<1>5. CASE RetryFallsDue(e)
  <2> DEFINE row == [events[e] EXCEPT !.due = TRUE]
  <2>1. row \in Event /\ row.job = events[e].job /\ row.applied = events[e].applied
    BY <1>1 DEF Event
  <2>2. events' = [events EXCEPT ![e] = row]
    BY <1>1, <1>5 DEF RetryFallsDue, RowsOK
  <2> HIDE DEF row
  <2>3. RowsStep
    BY <1>1, <1>2, <2>1, <2>2, EventStep
  <2> QED
    BY <1>3, <1>4, <2>3 DEF StepOK
<1>6. CASE EventAges(e)
  <2> DEFINE row == [events[e] EXCEPT !.old = TRUE]
  <2>1. row \in Event /\ row.job = events[e].job /\ row.applied = events[e].applied
    BY <1>1 DEF Event
  <2>2. events' = [events EXCEPT ![e] = row]
    BY <1>1, <1>6 DEF EventAges, RowsOK
  <2> HIDE DEF row
  <2>3. RowsStep
    BY <1>1, <1>2, <2>1, <2>2, EventStep
  <2> QED
    BY <1>3, <1>4, <2>3 DEF StepOK
<1> QED
  BY <1>5, <1>6

\* The scheduler's last statement expires every old event at once.
LEMMA ExpireSteps ==
    ASSUME ContextInv, ExpireEvents
    PROVE  StepOK
<1>1. /\ BoundsOK /\ RowsOK /\ TasksWork
      /\ on \in BOOLEAN /\ content \in [Events -> Contents]
  BY DEF ContextInv, BoundsOK
<1>2. UNCHANGED <<scope, on, jobs, content, tasks, spent>>
  BY DEF ExpireEvents
<1>3. TasksWork'
  BY <1>1, <1>2 DEF TasksWork, Works
<1>4. BoundsOK'
  BY <1>1, <1>2, BoundsKept
<1>5. \A r \in Event : LET q == [r EXCEPT !.st = "expired"]
                       IN q \in Event /\ q.job = r.job /\ q.applied = r.applied
  BY DEF Event
<1>6. \A e \in Events : events'[e] = events[e] \/ events'[e] = [events[e] EXCEPT !.st = "expired"]
  BY DEF ExpireEvents
<1>7. \A e \in Events : events[e] \in Event
  BY <1>1 DEF RowsOK
<1>8. \A e \in Events : /\ events'[e] \in Event /\ events'[e].job = events[e].job
                        /\ events'[e].applied = events[e].applied
  BY <1>5, <1>6, <1>7
<1>9. events' \in [Events -> Event]
  BY <1>8 DEF ExpireEvents
<1>10. RowsOK'
  BY <1>1, <1>2, <1>8, <1>9, EventEdits
<1>11. RowsStep
  BY <1>2, <1>10, MatchesKept DEF RowsStep, ReadyKept
<1> QED
  BY <1>3, <1>4, <1>11 DEF StepOK

\* A feature turned off, a crash, which frees every task, and nothing at all.
LEMMA OtherSteps ==
    ASSUME ContextInv, TurnOff \/ Crash \/ UNCHANGED contextVars
    PROVE  StepOK
<1>1. /\ BoundsOK /\ RowsOK /\ TasksWork
      /\ on \in BOOLEAN /\ content \in [Events -> Contents]
  BY DEF ContextInv, BoundsOK
<1>2. UNCHANGED <<scope, events, jobs, content>>
  BY DEF TurnOff, Crash, contextVars, rows
<1>3. RowsStep
  BY <1>1, <1>2, NoRowStep
<1>4. BoundsOK'
  BY <1>1, <1>2, BoundsKept, SpendKeeps DEF TurnOff, Crash, contextVars
<1>5. TasksWork'
  <2>1. Free \in TaskRow /\ Works(Free)
    BY FreeWorks DEF Works
  <2>2. CASE tasks' = [t \in Tasks |-> Free]
    BY <2>1, <2>2 DEF TasksWork, Works
  <2>3. CASE UNCHANGED tasks
    BY <1>1, <2>3 DEF TasksWork, Works
  <2> QED
    BY <2>2, <2>3 DEF TurnOff, Crash, contextVars
<1> QED
  BY <1>3, <1>4, <1>5 DEF StepOK

\* Every step keeps the invariant, the verdicts and the preferences of a match.
LEMMA ContextNextOK ==
    ASSUME ContextInv, [ContextNext]_contextVars
    PROVE  StepOK
<1>1. scope.tasks \subseteq Tasks
  BY ScopeFacts DEF ContextInv
<1>2. CASE \E t \in scope.tasks : \/ \E e \in Events : StoreEvent(t, e) \/ RetryEvent(t, e)
                                  \/ \E j \in Jobs : JobWaits(t, j) \/ VisitJob(t, j)
  BY <1>1, <1>2, ArrivalSteps
<1>3. CASE \E t \in scope.tasks : TaskStep(t)
  <2>1. PICK t \in Tasks : TaskStep(t)
    BY <1>1, <1>3
  <2>2. CASE JobCorrelates(t) \/ JobResolves(t) \/ JobReleased(t)
    BY <2>2, JobTaskSteps
  <2>3. CASE \/ Discover(t) \/ EventCorrelates(t) \/ EventResolves(t) \/ Enrich(t) \/ Tell(t)
             \/ Backfill(t) \/ EventResolvesAgain(t)
    BY <2>3, EventTaskSteps
  <2> QED
    BY <2>1, <2>2, <2>3 DEF TaskStep
<1>4. CASE \E j \in Jobs : ReleaseTimedOut(j) \/ DeadlinePasses(j)
  BY <1>4, DeadlineSteps
<1>5. CASE \E e \in Events : CreateContent(e) \/ UpdateContent(e) \/ ArchiveContent(e)
  BY <1>5, ContentSteps
<1>6. CASE \E e \in Events : RetryFallsDue(e) \/ EventAges(e)
  BY <1>6, AgeSteps
<1>7. CASE ExpireEvents
  BY <1>7, ExpireSteps
<1>8. CASE TurnOff \/ Crash \/ UNCHANGED contextVars
  BY <1>8, OtherSteps
<1> QED
  BY <1>2, <1>3, <1>4, <1>5, <1>6, <1>7, <1>8 DEF ContextNext

LEMMA ContextInitOK == ContextInit => ContextInv
<1> SUFFICES ASSUME ContextInit PROVE ContextInv
  OBVIOUS
<1>1. scope \in Scopes /\ scope \in Scope /\ Null \notin Events \cup Jobs
  BY ScopesAssumption, ContextAssumption DEF ContextInit
<1>2. NoEvent \in Event /\ NoJob \in Job /\ NoEvent.job = Null /\ NoJob.event = Null
      /\ NoJob.context = "pending" /\ NoJob.st = "absent"
  BY DEF NoEvent, NoJob, Event, Job
<1>3. RowsOK
  <2>1. events \in [Events -> Event] /\ jobs \in [Jobs -> Job]
    BY <1>2 DEF ContextInit
  <2>2. /\ \A e \in Events : events[e] = NoEvent
        /\ \A j \in Jobs : jobs[j] = NoJob
    BY DEF ContextInit
  <2>3. Agree
    BY <1>1, <1>2, <2>2 DEF Agree
  <2> QED
    BY <1>2, <2>1, <2>2, <2>3 DEF RowsOK
<1>4. TasksWork
  <2>1. Free \in TaskRow /\ Works(Free)
    BY FreeWorks DEF Works
  <2> QED
    BY <2>1 DEF ContextInit, TasksWork
<1>5. BoundsOK
  BY <1>1 DEF ContextInit, BoundsOK, Scope
<1> QED
  BY <1>3, <1>4, <1>5 DEF ContextInv
-----------------------------------------------------------------------------

\* The rows and the tasks keep what the matching and the releases rely on.
THEOREM ContextInvariant == ContextSpec => []ContextInv
<1>1. ContextInv /\ [ContextNext]_contextVars => ContextInv'
  BY ContextNextOK DEF StepOK, RowsStep, ContextInv
<1> QED
  BY <1>1, ContextInitOK, PTL DEF ContextSpec

\* The types, and the two tables agree: whichever side found a match, an event
\* explains one job and a job has one event (_persist_match).
THEOREM ContextIsTyped == ContextSpec => []ContextOK
BY ContextInvariant, InvIsTyped, PTL

\* _correlate joins an event and a job only if each prefers the other to
\* everything else that waits, whichever of them was searched for.
THEOREM MatchesAreMutual == ContextSpec => MatchIsMutualBest
<1>1. ContextInv /\ [ContextNext]_contextVars =>
        [\A e \in Events, j \in Jobs :
           jobs[j].event = Null /\ jobs'[j].event = e =>
             \A p \in (PairsOfEvent(e) \cup PairsOfJob(j)) \ {<<e, j>>} :
               Score(p[1], p[2]) < Score(e, j)]_contextVars
  <2> SUFFICES ASSUME ContextInv, [ContextNext]_contextVars,
                      NEW e \in Events, NEW j \in Jobs,
                      jobs[j].event = Null, jobs'[j].event = e,
                      NEW p \in (PairsOfEvent(e) \cup PairsOfJob(j)) \ {<<e, j>>}
               PROVE  Score(p[1], p[2]) < Score(e, j)
    OBVIOUS
  <2>1. Preferred(<<e, j>>)
    BY ContextNextOK DEF StepOK, RowsStep, NewPreferred
  <2> QED
    BY <2>1 DEF Preferred
<1> QED
  BY <1>1, ContextInvariant, PTL DEF ContextSpec, MatchIsMutualBest

\* A released job keeps its verdict: the products of its own event, or the
\* time-out (resolve_and_release_matched_job, _release_context_job_if_due).
THEOREM VerdictsAreFinal == ContextSpec => VerdictFinal
<1>1. ContextInv /\ [ContextNext]_contextVars =>
        [\A j \in Jobs :
           /\ jobs[j].st = "ready" => jobs'[j] = jobs[j]
           /\ jobs'[j].st = "ready" =>
                \/ jobs'[j].mapping = "timed_out" /\ jobs'[j].context = "timed_out"
                \/ /\ jobs'[j].mapping \in {"resolved", "ambiguous"}
                   /\ jobs'[j].event # Null /\ events'[jobs'[j].event].applied]_contextVars
  <2> SUFFICES ASSUME ContextInv, [ContextNext]_contextVars, NEW j \in Jobs
               PROVE  /\ jobs[j].st = "ready" => jobs'[j] = jobs[j]
                      /\ jobs'[j].st = "ready" =>
                           \/ jobs'[j].mapping = "timed_out" /\ jobs'[j].context = "timed_out"
                           \/ /\ jobs'[j].mapping \in {"resolved", "ambiguous"}
                              /\ jobs'[j].event # Null /\ events'[jobs'[j].event].applied
    OBVIOUS
  <2> QED
    BY ContextNextOK DEF StepOK, RowsStep, ReadyKept, RowsOK, Verdict
<1> QED
  BY <1>1, ContextInvariant, PTL DEF ContextSpec, VerdictFinal
=============================================================================
