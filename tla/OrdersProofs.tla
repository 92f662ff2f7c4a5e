---------------------------- MODULE OrdersProofs ----------------------------
(***************************************************************************)
(* Theorems about Orders for any sets of orders, customers and carts, any  *)
(* stock and any limits.  The safety of the saga is proved under the       *)
(* assumption that a write whose answer was lost is looked up in the       *)
(* ledger before the lock is given back (UnverifiedWrites = FALSE); the    *)
(* run without it shows that the assumption is needed.                     *)
(***************************************************************************)
EXTENDS Orders, FiniteSetTheorems, TLAPS

\* A row is found in an extended ledger when it was there or is the new one.
LEMMA RecordsAppend ==
    ASSUME NEW rows \in Seq(Operations), NEW op \in Operations, NEW q \in Operations
    PROVE  /\ Append(rows, op) \in Seq(Operations)
           /\ Records(Append(rows, op), q) <=> (Records(rows, q) \/ q = op)
<1> DEFINE longer == Append(rows, op)
<1>1. longer \in Seq(Operations) /\ Len(longer) = Len(rows) + 1
  OBVIOUS
<1>2. \A i \in 1 .. Len(rows) : longer[i] = rows[i]
  OBVIOUS
<1>3. longer[Len(rows) + 1] = op
  OBVIOUS
<1>4. DOMAIN longer = 1 .. (Len(rows) + 1) /\ DOMAIN rows = 1 .. Len(rows) /\ Len(rows) \in Nat
  BY <1>1
<1> HIDE DEF longer
<1>5. Records(longer, q) <=> (Records(rows, q) \/ q = op)
  BY <1>2, <1>3, <1>4 DEF Records
<1> QED
  BY <1>1, <1>5 DEF longer

\* Writing at the row after the last one appends.
LEMMA PutRowAppends ==
    ASSUME NEW rows \in Seq(Operations), NEW op \in Operations
    PROVE  PutRow(rows, Len(rows) + 1, op) = Append(rows, op)
<1>1. Len(rows) + 1 > Len(rows)
  OBVIOUS
<1> QED
  BY <1>1 DEF PutRow

\* What a batch write does to the sheet's ledger when the row is the next one.
LEMMA WriteAppends ==
    ASSUME ledger \in Seq(Operations), NEW op \in Operations,
           ledger' = PutRow(ledger, Len(ledger) + 1, op)
    PROVE  /\ ledger' = Append(ledger, op) /\ ledger' \in Seq(Operations)
           /\ \A q \in Operations : Records(ledger', q) <=> (Records(ledger, q) \/ q = op)
<1>1. ledger' = Append(ledger, op)
  BY PutRowAppends
<1>2. Append(ledger, op) \in Seq(Operations)
  BY RecordsAppend
<1>3. \A q \in Operations : Records(Append(ledger, op), q) <=> (Records(ledger, q) \/ q = op)
  BY RecordsAppend
<1> QED
  BY <1>1, <1>2, <1>3

LEMMA OperationsDistinct ==
    ASSUME NEW o \in Orders, NEW x \in Orders
    PROVE  /\ Reserve(o) \in Operations /\ Release(o) \in Operations
           /\ Reserve(o) # Release(x)
           /\ Reserve(o) = Reserve(x) <=> o = x
           /\ Release(o) = Release(x) <=> o = x
BY DEF Reserve, Release, Operations

\* While no answer is missing, the process's ledger is the sheet's.
LEMMA LoadedIsLedger ==
    ASSUME CacheFresh, section.step \notin {"verify_deduct", "verify_restore"}
    PROVE  LoadedLedger = ledger
BY DEF CacheFresh, LoadedLedger

\* The rows the first request may find.
LEMMA InitialRows ==
    \A r \in {FreshRow} \cup {LegacyRow(c, k) : c \in Customers, k \in Carts} :
        /\ r.state # "deleted" /\ r.inv = "legacy_unknown"
        /\ r.pay = "pending" /\ r.proof = Null
<1>1. /\ FreshRow.state = "absent" /\ FreshRow.inv = "legacy_unknown"
      /\ FreshRow.pay = "pending" /\ FreshRow.proof = Null
  BY DEF FreshRow
<1>2. \A c \in Customers, k \in Carts :
        /\ LegacyRow(c, k).state = "live" /\ LegacyRow(c, k).inv = "legacy_unknown"
        /\ LegacyRow(c, k).pay = "pending" /\ LegacyRow(c, k).proof = Null
  BY DEF FreshRow, LegacyRow
<1> QED
  BY <1>1, <1>2

(***************************************************************************)
(* The initial state satisfies the inductive invariant.                    *)
(***************************************************************************)
LEMMA InitIndInv == Init => IndInv
<1> SUFFICES ASSUME Init PROVE IndInv
  OBVIOUS
<1>1. orders \in [Orders -> {FreshRow} \cup {LegacyRow(c, k) : c \in Customers, k \in Carts}]
  BY DEF Init
<1>2. /\ FreshRow \in Row
      /\ \A c \in Customers, k \in Carts : LegacyRow(c, k) \in Row /\ LegacyRow(c, k).cart = k
  BY DEF FreshRow, LegacyRow, Row, InventoryStatuses, VALID_PAYMENT_STATUSES, PAID_STATUSES
<1>3. orders \in [Orders -> Row]
  BY <1>1, <1>2
<1>4. \A o \in Orders : orders[o].state # "deleted" /\ orders[o].inv = "legacy_unknown"
  BY <1>1, InitialRows
<1>5. /\ replays = {} /\ stock = InitialStock /\ ledger = <<>> /\ cache = Null
      /\ section = Idle /\ sweep = {}
      /\ customers = [c \in Customers |-> [live |-> TRUE, total |-> 0]]
      /\ deducts = [o \in Orders |-> 0] /\ restores = [o \in Orders |-> 0]
  BY DEF Init
<1>6. customers \in [Customers -> [live : BOOLEAN, total : Int]]
  BY <1>5
<1>7. TypeOK
  BY <1>3, <1>5, <1>6, OrdersAssumption DEF TypeOK, Section
<1>8. CacheFresh
  BY <1>5 DEF CacheFresh
<1>9. \A q : ~Records(ledger, q)
  <2>1. ledger \in Seq(Operations) /\ Len(ledger) = 0
    BY <1>5
  <2> QED
    BY <2>1 DEF Records
<1>10. LedgerExact
  BY <1>5, <1>9 DEF LedgerExact
<1>11. StatusMatchesStock
  BY <1>4, <1>5 DEF StatusMatchesStock
<1>12. SectionKnows
  BY <1>5 DEF SectionKnows
<1>13. LiveHasCart
  BY <1>1, <1>2 DEF LiveHasCart, Live, FreshRow
<1> QED
  BY <1>7, <1>8, <1>10, <1>11, <1>12, <1>13 DEF IndInv

(***************************************************************************)
(* Steps outside the locked section.                                       *)
(***************************************************************************)
\* Payments, time and customers change neither a row's state nor its status.
LEMMA OutsideStep ==
    ASSUME IndInv, TypeOK', UNCHANGED <<sheet, cache, section>>,
           \A o \in Orders : /\ orders'[o].state = orders[o].state
                             /\ orders'[o].inv = orders[o].inv
                             /\ orders'[o].cart = orders[o].cart
    PROVE  IndInv'
<1> USE DEF IndInv, sheet
<1>1. CacheFresh'
  BY DEF CacheFresh
<1>2. LedgerExact'
  BY DEF LedgerExact, Records
<1>3. StatusMatchesStock'
  BY DEF StatusMatchesStock, Live
<1>4. SectionKnows'
  <2>1. section \in Section
    BY DEF TypeOK
  <2> QED
    BY <2>1 DEF SectionKnows, Live, Section
<1>5. LiveHasCart'
  BY DEF LiveHasCart, Live
<1> QED
  BY <1>1, <1>2, <1>3, <1>4, <1>5

LEMMA SetPaymentStep ==
    ASSUME IndInv, NEW o \in Orders, NEW pay \in VALID_PAYMENT_STATUSES,
           NEW proof \in Proofs \cup {Null}, SetPayment(o, pay, proof)
    PROVE  IndInv'
<1>1. TypeOK /\ orders \in [Orders -> Row]
  BY DEF IndInv, TypeOK
<1>2. Applied(o, pay) \in BOOLEAN
  BY <1>1 DEF Applied, Row
<1>3. PICK row \in Row : /\ orders' = [orders EXCEPT ![o] = row]
                         /\ row.state = orders[o].state /\ row.inv = orders[o].inv
                         /\ row.cart = orders[o].cart
  <2> DEFINE row == [orders[o] EXCEPT !.pay = pay, !.proof = proof, !.applied = Applied(o, pay)]
  <2>1. \A r \in Row, b \in BOOLEAN :
          LET q == [r EXCEPT !.pay = pay, !.proof = proof, !.applied = b]
          IN q \in Row /\ q.state = r.state /\ q.inv = r.inv /\ q.cart = r.cart
    BY DEF Row
  <2>2. orders[o] \in Row
    BY <1>1
  <2>3. /\ row \in Row /\ row.state = orders[o].state
        /\ row.inv = orders[o].inv /\ row.cart = orders[o].cart
    BY <1>2, <2>1, <2>2
  <2>4. orders' = [orders EXCEPT ![o] = row]
    BY <1>1 DEF SetPayment
  <2> QED
    BY <2>3, <2>4
<1>4. orders' \in [Orders -> Row]
  BY <1>1, <1>3
<1>5. customers' \in [Customers -> [live : BOOLEAN, total : Int]]
  <2>1. orders[o].cust \in Customers \cup {Null}
    BY <1>1 DEF Row
  <2>2. customers \in [Customers -> [live : BOOLEAN, total : Int]]
    BY <1>1 DEF TypeOK
  <2> QED
    BY <2>1, <2>2 DEF SetPayment, Totals
<1>6. TypeOK'
  BY <1>1, <1>4, <1>5 DEF TypeOK, SetPayment, sheet
<1>7. \A x \in Orders : /\ orders'[x].state = orders[x].state
                          /\ orders'[x].inv = orders[x].inv
                          /\ orders'[x].cart = orders[x].cart
  BY <1>1, <1>3 DEF Row
<1> QED
  BY <1>6, <1>7, OutsideStep DEF SetPayment

LEMMA PaymentStep ==
    ASSUME IndInv, NEW o \in Orders,
           \/ \E pay \in VALID_PAYMENT_STATUSES : AdminPayment(o, pay)
           \/ \E p \in Proofs : ProofPayment(o, p)
    PROVE  IndInv'
<1>1. orders[o].proof \in Proofs \cup {Null}
  BY DEF IndInv, TypeOK, Row
<1>2. CASE \E pay \in VALID_PAYMENT_STATUSES : AdminPayment(o, pay)
  BY <1>1, <1>2, SetPaymentStep DEF AdminPayment
<1>3. CASE \E p \in Proofs : ProofPayment(o, p)
  BY <1>3, SetPaymentStep DEF ProofPayment, VALID_PAYMENT_STATUSES, PAID_STATUSES
<1> QED
  BY <1>2, <1>3

LEMMA CustomerStep ==
    ASSUME IndInv, NEW c \in Customers, DeleteCustomer(c)
    PROVE  IndInv'
<1>1. orders \in [Orders -> Row]
  BY DEF IndInv, TypeOK
<1>2. orders' \in [Orders -> Row]
  BY <1>1 DEF DeleteCustomer, Row
<1>3. TypeOK'
  BY <1>2 DEF IndInv, TypeOK, DeleteCustomer, sheet
<1>4. \A x \in Orders : /\ orders'[x].state = orders[x].state
                          /\ orders'[x].inv = orders[x].inv
                          /\ orders'[x].cart = orders[x].cart
  BY <1>1 DEF DeleteCustomer, Row
<1> QED
  BY <1>3, <1>4, OutsideStep DEF DeleteCustomer

LEMMA AgeStep ==
    ASSUME IndInv, NEW o \in Orders, Age(o)
    PROVE  IndInv'
<1>1. orders \in [Orders -> Row]
  BY DEF IndInv, TypeOK
<1>2. orders' \in [Orders -> Row]
  BY <1>1 DEF Age, Row
<1>3. TypeOK'
  BY <1>2 DEF IndInv, TypeOK, Age, sheet
<1>4. \A x \in Orders : /\ orders'[x].state = orders[x].state
                          /\ orders'[x].inv = orders[x].inv
                          /\ orders'[x].cart = orders[x].cart
  BY <1>1 DEF Age, Row
<1> QED
  BY <1>3, <1>4, OutsideStep DEF Age

LEMMA SweepStep ==
    ASSUME IndInv, SweepSelect
    PROVE  IndInv'
<1>1. TypeOK'
  BY DEF IndInv, TypeOK, SweepSelect, sheet
<1> QED
  BY <1>1, OutsideStep DEF SweepSelect

\* Leaving the section early, or losing the process, leaves no stale cache.
LEMMA FailureStep ==
    ASSUME ~UnverifiedWrites, IndInv, Abandon \/ Crash
    PROVE  IndInv'
<1> USE DEF IndInv, Abandon, Crash, Leave, sheet
<1>1. TypeOK'
  BY DEF TypeOK, Section
<1>2. CacheFresh'
  BY DEF CacheFresh
<1>3. LedgerExact'
  BY DEF LedgerExact, Records
<1>4. StatusMatchesStock'
  BY DEF StatusMatchesStock, Live
<1>5. SectionKnows' /\ LiveHasCart'
  BY DEF SectionKnows, LiveHasCart, Live
<1> QED
  BY <1>1, <1>2, <1>3, <1>4, <1>5

(***************************************************************************)
(* Entering the section.                                                   *)
(***************************************************************************)
LEMMA CreateStep ==
    ASSUME IndInv, NEW o \in Orders,
           \/ CreateReuse(o)
           \/ \E c \in Customers, k \in Carts : CreateInsert(o, c, k)
    PROVE  IndInv'
<1>1. orders \in [Orders -> Row] /\ section = Idle
  BY DEF IndInv, TypeOK, CreateReuse, CreateInsert
<1>2. /\ section' = [op |-> "create", order |-> o, step |-> "deduct"]
      /\ UNCHANGED <<stock, ledger, deducts, restores, cache, sweep, replays, customers>>
  BY DEF CreateReuse, CreateInsert, Enter, sheet
<1>3. section' \in Section
  BY <1>2 DEF Section, Steps
<1>4. CacheFresh'
  BY <1>1, <1>2 DEF IndInv, CacheFresh, Idle
<1>5. CASE CreateReuse(o)
  <2>1. orders' = orders /\ Live(o) /\ orders[o].inv = "reservation_pending"
    BY <1>5 DEF CreateReuse, Matches
  <2>2. TypeOK'
    BY <1>2, <1>3, <2>1 DEF IndInv, TypeOK
  <2>3. LedgerExact' /\ StatusMatchesStock'
    BY <1>2, <2>1 DEF IndInv, LedgerExact, StatusMatchesStock, Records, Live
  <2>4. SectionKnows'
    BY <1>2, <2>1 DEF SectionKnows, Live
  <2>5. LiveHasCart'
    BY <2>1 DEF IndInv, LiveHasCart, Live
  <2> QED
    BY <1>4, <2>2, <2>3, <2>4, <2>5 DEF IndInv
<1>6. CASE \E c \in Customers, k \in Carts : CreateInsert(o, c, k)
  <2>1. PICK c \in Customers, k \in Carts : CreateInsert(o, c, k)
    BY <1>6
  <2>2. PICK row \in Row : /\ orders' = [orders EXCEPT ![o] = row]
                           /\ row.state = "live" /\ row.inv = "reservation_pending"
                           /\ row.cart \in Carts
    <3> DEFINE row == [FreshRow EXCEPT !.state = "live", !.cust = c, !.cart = k,
                         !.inv = "reservation_pending", !.age = "recent"]
    <3>1. /\ row \in Row /\ row.state = "live" /\ row.inv = "reservation_pending"
          /\ row.cart \in Carts
      BY DEF FreshRow, Row, InventoryStatuses, VALID_PAYMENT_STATUSES, PAID_STATUSES
    <3> QED
      BY <2>1, <3>1 DEF CreateInsert
  <2>3. orders[o].state = "absent"
    BY <2>1 DEF CreateInsert
  <2>4. TypeOK'
    BY <1>1, <1>2, <1>3, <2>2 DEF IndInv, TypeOK
  <2>5. deducts[o] = 0 /\ restores[o] = 0
    BY <2>3 DEF IndInv, LedgerExact, TypeOK
  <2>6. LedgerExact'
    BY <1>1, <1>2, <2>2, <2>5 DEF IndInv, LedgerExact, Records
  <2>7. StatusMatchesStock'
    BY <1>1, <1>2, <2>2, <2>5 DEF IndInv, StatusMatchesStock, Live
  <2>8. SectionKnows'
    BY <1>1, <1>2, <2>2 DEF SectionKnows, Live
  <2>9. LiveHasCart'
    BY <1>1, <2>2 DEF IndInv, LiveHasCart, Live
  <2> QED
    BY <1>4, <2>4, <2>6, <2>7, <2>8, <2>9 DEF IndInv
<1> QED
  BY <1>5, <1>6

\* delete_order and the clean-up enter with the plan the status calls for.
LEMMA PlanStep ==
    ASSUME IndInv, section = Idle, NEW o \in Orders, Live(o),
           NEW op \in {"delete", "release"}, Plan(op, o),
           op = "release" => orders[o].inv \in Holding,
           UNCHANGED <<sheet, cache, replays, customers>>, sweep' \subseteq Orders
    PROVE  IndInv'
<1>1. orders \in [Orders -> Row]
  BY DEF IndInv, TypeOK
<1>2. orders' \in [Orders -> Row]
  BY <1>1 DEF Plan, Row, InventoryStatuses
<1>3. /\ \A x \in Orders : /\ orders'[x].state = orders[x].state
                             /\ orders'[x].cart = orders[x].cart
      /\ \A x \in Orders \ {o} : orders'[x].inv = orders[x].inv
      /\ orders'[o].inv =
           IF orders[o].inv = "reserved" THEN "release_pending" ELSE orders[o].inv
  BY <1>1 DEF Plan, Row
<1>5. PICK s \in {"restore", "inspect", "finish"} :
        /\ section' = [op |-> op, order |-> o, step |-> s]
        /\ s = "restore" <=> orders[o].inv \in {"reserved", "release_pending"}
        /\ s = "inspect" <=> orders[o].inv = "reservation_pending"
  BY DEF Plan, Enter
<1>6. TypeOK'
  BY <1>2, <1>5 DEF IndInv, TypeOK, Section, Steps, sheet
<1>7. CacheFresh'
  BY <1>5 DEF IndInv, CacheFresh, Idle, sheet
<1>8. LedgerExact'
  BY <1>3 DEF IndInv, LedgerExact, Records, sheet
<1>9. StatusMatchesStock'
  BY <1>3 DEF IndInv, StatusMatchesStock, Live, sheet
<1>10. SectionKnows'
  <2>1. s = "finish" => deducts[o] = restores[o]
    BY <1>1, <1>5 DEF IndInv, StatusMatchesStock, Row, InventoryStatuses
  <2> QED
    BY <1>3, <1>5, <2>1 DEF SectionKnows, Live, Holding, sheet
<1>11. LiveHasCart'
  BY <1>3 DEF IndInv, LiveHasCart, Live
<1> QED
  BY <1>6, <1>7, <1>8, <1>9, <1>10, <1>11 DEF IndInv

LEMMA DeleteBeginStep ==
    ASSUME IndInv, NEW o \in Orders, DeleteBegin(o)
    PROVE  IndInv'
BY PlanStep DEF DeleteBegin, IndInv, TypeOK

LEMMA ReleaseBeginStep ==
    ASSUME IndInv, NEW o \in Orders, ReleaseBegin(o)
    PROVE  IndInv'
<1>1. sweep' \subseteq Orders
  BY DEF ReleaseBegin, IndInv, TypeOK
<1>2. CASE Releasable(o) /\ orders[o].inv \in Holding
  BY <1>1, <1>2, PlanStep DEF ReleaseBegin, Releasable
<1>3. CASE ~(Releasable(o) /\ orders[o].inv \in Holding)
  <2>1. TypeOK'
    BY <1>1, <1>3 DEF ReleaseBegin, IndInv, TypeOK, sheet
  <2> QED
    BY <1>3, <2>1, OutsideStep DEF ReleaseBegin
<1> QED
  BY <1>2, <1>3

(***************************************************************************)
(* Steps of the section.                                                   *)
(***************************************************************************)
\* What the section knows at a step, in one place.
LEMMA AtStep ==
    ASSUME IndInv, NEW o \in Orders, NEW s \in Steps, At(o, s)
    PROVE  /\ section \in [op : {"create", "delete", "release"}, order : Orders, step : Steps]
           /\ section # Idle /\ section.order = o /\ section.step = s
           /\ \A t \in Steps :
                LET next == [section EXCEPT !.step = t]
                IN /\ next \in Section /\ next # Idle
                   /\ next.op = section.op /\ next.order = o /\ next.step = t
<1>1. section # Idle
  BY DEF At, Idle, Steps
<1>2. section \in [op : {"create", "delete", "release"}, order : Orders, step : Steps]
  BY <1>1 DEF IndInv, TypeOK, Section
<1> QED
  BY <1>1, <1>2 DEF At, Section, Idle, Steps

LEMMA DeductStep ==
    ASSUME IndInv, NEW o \in Orders, Deduct(o)
    PROVE  IndInv'
<1>1. At(o, "deduct") /\ "deduct" \in Steps
  BY DEF Deduct, Steps
<1>2. LoadedLedger = ledger
  BY <1>1, LoadedIsLedger DEF IndInv, At
<1>3. /\ Live(o) /\ orders[o].inv = "reservation_pending" /\ section.op = "create"
      /\ restores[o] = 0
  BY <1>1, AtStep DEF IndInv, SectionKnows, StatusMatchesStock, At
<1>4. UNCHANGED <<orders, replays, customers, sweep>>
  BY DEF Deduct
<1>5. LiveHasCart'
  BY <1>4 DEF IndInv, LiveHasCart, Live
<1>6. Reserve(o) \in Operations
  BY OperationsDistinct
<1>7. CASE AlreadyApplied(Reserve(o), "finalize")
  <2>1. /\ Records(ledger, Reserve(o)) /\ cache' = ledger
        /\ UNCHANGED <<stock, ledger, deducts, restores>>
        /\ section' = [section EXCEPT !.step = "finalize"]
    BY <1>2, <1>7 DEF AlreadyApplied, sheet, Goto
  <2>2. TypeOK'
    BY <1>1, <1>4, <2>1, AtStep DEF IndInv, TypeOK, Steps
  <2>3. CacheFresh' /\ LedgerExact'
    BY <1>4, <2>1 DEF IndInv, CacheFresh, LedgerExact, Records
  <2>4. StatusMatchesStock'
    BY <1>4, <2>1 DEF IndInv, StatusMatchesStock, Live
  <2>5. deducts[o] = 1
    BY <2>1 DEF IndInv, LedgerExact
  <2>6. SectionKnows'
    BY <1>1, <1>3, <1>4, <2>1, <2>5, AtStep DEF SectionKnows, Live, Steps
  <2> QED
    BY <1>5, <2>2, <2>3, <2>4, <2>6 DEF IndInv
<1>8. ASSUME NEW acked \in BOOLEAN,
             WriteSheet(Reserve(o), acked, "finalize", "verify_deduct")
      PROVE  IndInv'
  <2>1. /\ ~Records(ledger, Reserve(o))
        /\ stock' = stock - Qty[orders[o].cart]
        /\ deducts' = [deducts EXCEPT ![o] = @ + 1]
        /\ restores' = restores
        /\ ledger' = PutRow(ledger, Len(ledger) + 1, Reserve(o))
        /\ cache' = IF acked THEN Append(ledger, Reserve(o)) ELSE ledger
        /\ section' = [section EXCEPT !.step = IF acked THEN "finalize" ELSE "verify_deduct"]
    BY <1>2, <1>8 DEF WriteSheet, Reserve, Goto
  <2>0. ledger \in Seq(Operations)
    BY DEF IndInv, TypeOK
  <2>2. /\ ledger' = Append(ledger, Reserve(o)) /\ ledger' \in Seq(Operations)
        /\ \A q \in Operations : Records(ledger', q) <=> (Records(ledger, q) \/ q = Reserve(o))
    BY <1>6, <2>0, <2>1, WriteAppends
  <2>3. \A x \in Orders :
          /\ Records(ledger', Reserve(x)) <=> (Records(ledger, Reserve(x)) \/ x = o)
          /\ Records(ledger', Release(x)) <=> Records(ledger, Release(x))
    BY <2>2, OperationsDistinct
  <2>4. deducts[o] = 0 /\ deducts'[o] = 1 /\ \A x \in Orders \ {o} : deducts'[x] = deducts[x]
    BY <2>1 DEF IndInv, LedgerExact, TypeOK
  <2>5. TypeOK'
    <3>1. Qty[orders[o].cart] \in Int
      BY <1>3, OrdersAssumption DEF IndInv, LiveHasCart
    <3>2. cache' \in Seq(Operations) /\ deducts' \in [Orders -> Nat]
      BY <2>1, <2>2 DEF IndInv, TypeOK
    <3>3. section' \in Section
      BY <1>1, <2>1, AtStep DEF Steps
    <3>4. stock' \in Int
      BY <2>1, <3>1 DEF IndInv, TypeOK
    <3> QED
      BY <1>4, <2>1, <2>2, <3>2, <3>3, <3>4 DEF IndInv, TypeOK
  <2>6. CacheFresh'
    BY <1>1, <2>1, <2>2, AtStep DEF CacheFresh, Steps
  <2>7. LedgerExact'
    BY <1>3, <1>4, <2>1, <2>3, <2>4 DEF IndInv, LedgerExact, TypeOK, Live
  <2>8. StatusMatchesStock'
    BY <1>3, <1>4, <2>1, <2>4 DEF IndInv, StatusMatchesStock, Live
  <2>9. SectionKnows'
    BY <1>1, <1>3, <1>4, <2>1, <2>4, AtStep DEF SectionKnows, Live, Steps
  <2> QED
    BY <1>5, <2>5, <2>6, <2>7, <2>8, <2>9 DEF IndInv
<1>9. CASE RefuseSheet("verify_deduct")
  <2>1. /\ cache' \in {cache, ledger} /\ UNCHANGED <<stock, ledger, deducts, restores>>
        /\ section' = [section EXCEPT !.step = "verify_deduct"]
    BY <1>2, <1>9 DEF RefuseSheet, sheet, Goto
  <2>2. TypeOK'
    BY <1>1, <1>4, <2>1, AtStep DEF IndInv, TypeOK, Steps
  <2>3. CacheFresh' /\ LedgerExact'
    BY <1>1, <1>4, <2>1, AtStep DEF IndInv, CacheFresh, LedgerExact, Records, Steps
  <2>4. StatusMatchesStock'
    BY <1>4, <2>1 DEF IndInv, StatusMatchesStock, Live
  <2>5. SectionKnows'
    BY <1>1, <1>3, <1>4, <2>1, AtStep DEF SectionKnows, Live, Steps
  <2> QED
    BY <1>5, <2>2, <2>3, <2>4, <2>5 DEF IndInv
<1> QED
  BY <1>7, <1>8, <1>9 DEF Deduct

LEMMA RestoreStep ==
    ASSUME IndInv, NEW o \in Orders, Restore(o)
    PROVE  IndInv'
<1>1. At(o, "restore") /\ "restore" \in Steps
  BY DEF Restore, Steps
<1>2. LoadedLedger = ledger
  BY <1>1, LoadedIsLedger DEF IndInv, At
<1>3. /\ Live(o) /\ orders[o].inv = "release_pending" /\ section.op \in {"delete", "release"}
      /\ deducts[o] = 1
  BY <1>1, AtStep DEF IndInv, SectionKnows, StatusMatchesStock, At
<1>4. UNCHANGED <<orders, replays, customers, sweep>>
  BY DEF Restore
<1>5. LiveHasCart'
  BY <1>4 DEF IndInv, LiveHasCart, Live
<1>6. Release(o) \in Operations
  BY OperationsDistinct
<1>7. CASE AlreadyApplied(Release(o), "finish")
  <2>1. /\ Records(ledger, Release(o)) /\ cache' = ledger
        /\ UNCHANGED <<stock, ledger, deducts, restores>>
        /\ section' = [section EXCEPT !.step = "finish"]
    BY <1>2, <1>7 DEF AlreadyApplied, sheet, Goto
  <2>2. TypeOK'
    BY <1>1, <1>4, <2>1, AtStep DEF IndInv, TypeOK, Steps
  <2>3. CacheFresh' /\ LedgerExact'
    BY <1>4, <2>1 DEF IndInv, CacheFresh, LedgerExact, Records
  <2>4. StatusMatchesStock'
    BY <1>4, <2>1 DEF IndInv, StatusMatchesStock, Live
  <2>5. restores[o] = 1
    BY <2>1 DEF IndInv, LedgerExact
  <2>6. SectionKnows'
    BY <1>1, <1>3, <1>4, <2>1, <2>5, AtStep DEF SectionKnows, Live, Steps
  <2> QED
    BY <1>5, <2>2, <2>3, <2>4, <2>6 DEF IndInv
<1>8. ASSUME NEW acked \in BOOLEAN,
             WriteSheet(Release(o), acked, "finish", "verify_restore")
      PROVE  IndInv'
  <2>1. /\ ~Records(ledger, Release(o))
        /\ stock' = stock + Qty[orders[o].cart]
        /\ restores' = [restores EXCEPT ![o] = @ + 1]
        /\ deducts' = deducts
        /\ ledger' = PutRow(ledger, Len(ledger) + 1, Release(o))
        /\ cache' = IF acked THEN Append(ledger, Release(o)) ELSE ledger
        /\ section' = [section EXCEPT !.step = IF acked THEN "finish" ELSE "verify_restore"]
    BY <1>2, <1>8 DEF WriteSheet, Release, Goto
  <2>2. ledger \in Seq(Operations)
    BY DEF IndInv, TypeOK
  <2>3. /\ ledger' = Append(ledger, Release(o)) /\ ledger' \in Seq(Operations)
        /\ \A q \in Operations : Records(ledger', q) <=> (Records(ledger, q) \/ q = Release(o))
    BY <1>6, <2>1, <2>2, WriteAppends
  <2>4. \A x \in Orders :
          /\ Records(ledger', Release(x)) <=> (Records(ledger, Release(x)) \/ x = o)
          /\ Records(ledger', Reserve(x)) <=> Records(ledger, Reserve(x))
    BY <2>3, OperationsDistinct
  <2>5. restores[o] = 0 /\ restores'[o] = 1 /\ \A x \in Orders \ {o} : restores'[x] = restores[x]
    BY <2>1 DEF IndInv, LedgerExact, TypeOK
  <2>6. TypeOK'
    <3>1. Qty[orders[o].cart] \in Int
      BY <1>3, OrdersAssumption DEF IndInv, LiveHasCart
    <3>2. cache' \in Seq(Operations) /\ restores' \in [Orders -> Nat]
      BY <2>1, <2>3 DEF IndInv, TypeOK
    <3>3. section' \in Section
      BY <1>1, <2>1, AtStep DEF Steps
    <3>4. stock' \in Int
      BY <2>1, <3>1 DEF IndInv, TypeOK
    <3> QED
      BY <1>4, <2>1, <2>3, <3>2, <3>3, <3>4 DEF IndInv, TypeOK
  <2>7. CacheFresh'
    BY <1>1, <2>1, <2>3, AtStep DEF CacheFresh, Steps
  <2>8. LedgerExact'
    BY <1>3, <1>4, <2>1, <2>4, <2>5 DEF IndInv, LedgerExact, TypeOK, Live
  <2>9. StatusMatchesStock'
    BY <1>3, <1>4, <2>1, <2>5 DEF IndInv, StatusMatchesStock, Live
  <2>10. SectionKnows'
    BY <1>1, <1>3, <1>4, <2>1, <2>5, AtStep DEF SectionKnows, Live, Steps
  <2> QED
    BY <1>5, <2>6, <2>7, <2>8, <2>9, <2>10 DEF IndInv
<1>9. CASE RefuseSheet("verify_restore")
  <2>1. /\ cache' \in {cache, ledger} /\ UNCHANGED <<stock, ledger, deducts, restores>>
        /\ section' = [section EXCEPT !.step = "verify_restore"]
    BY <1>2, <1>9 DEF RefuseSheet, sheet, Goto
  <2>2. TypeOK'
    BY <1>1, <1>4, <2>1, AtStep DEF IndInv, TypeOK, Steps
  <2>3. CacheFresh' /\ LedgerExact'
    BY <1>1, <1>4, <2>1, AtStep DEF IndInv, CacheFresh, LedgerExact, Records, Steps
  <2>4. StatusMatchesStock'
    BY <1>4, <2>1 DEF IndInv, StatusMatchesStock, Live
  <2>5. SectionKnows'
    BY <1>1, <1>3, <1>4, <2>1, AtStep DEF SectionKnows, Live, Steps
  <2> QED
    BY <1>5, <2>2, <2>3, <2>4, <2>5 DEF IndInv
<1> QED
  BY <1>7, <1>8, <1>9 DEF Restore

\* The ledger is read again: the cache is the sheet's, and the answer is exact.
LEMMA VerifyStep ==
    ASSUME IndInv, NEW o \in Orders, VerifyDeduct(o) \/ VerifyRestore(o)
    PROVE  IndInv'
<1>1. /\ UNCHANGED <<orders, replays, customers, sweep, stock, ledger, deducts, restores>>
      /\ cache' = ledger
  BY DEF VerifyDeduct, VerifyRestore, ReadLedger, sheet
<1>2. LiveHasCart' /\ LedgerExact' /\ StatusMatchesStock' /\ CacheFresh'
  BY <1>1 DEF IndInv, LiveHasCart, LedgerExact, StatusMatchesStock, CacheFresh, Live, Records
<1>3. CASE VerifyDeduct(o)
  <2>1. /\ At(o, "verify_deduct") /\ "verify_deduct" \in Steps
        /\ section' = [section EXCEPT !.step = IF deducts[o] = 1 THEN "finalize" ELSE "mark_failed"]
        /\ deducts[o] \in {0, 1}
    BY <1>3 DEF VerifyDeduct, ReadLedger, Goto, Steps, IndInv, LedgerExact
  <2>2. TypeOK'
    BY <1>1, <2>1, AtStep DEF IndInv, TypeOK, Steps
  <2>3. Live(o) /\ orders[o].inv = "reservation_pending" /\ section.op = "create"
    BY <2>1, AtStep DEF IndInv, SectionKnows
  <2>4. SectionKnows'
    BY <1>1, <2>1, <2>3, AtStep DEF SectionKnows, Live, Steps
  <2> QED
    BY <1>2, <2>2, <2>4 DEF IndInv
<1>4. CASE VerifyRestore(o)
  <2>1. At(o, "verify_restore") /\ "verify_restore" \in Steps
    BY <1>4 DEF VerifyRestore, Steps
  <2>2. /\ Live(o) /\ orders[o].inv = "release_pending" /\ section.op \in {"delete", "release"}
        /\ deducts[o] = 1
    BY <2>1, AtStep DEF IndInv, SectionKnows, StatusMatchesStock
  <2>3. CASE Records(ledger, Release(o))
    <3>1. section' = [section EXCEPT !.step = "finish"] /\ restores[o] = 1
      BY <1>4, <2>3 DEF VerifyRestore, Goto, IndInv, LedgerExact
    <3>2. TypeOK'
      BY <1>1, <2>1, <3>1, AtStep DEF IndInv, TypeOK, Steps
    <3>3. SectionKnows'
      BY <1>1, <2>1, <2>2, <3>1, AtStep DEF SectionKnows, Live, Steps
    <3> QED
      BY <1>2, <3>2, <3>3 DEF IndInv
  <2>4. CASE ~Records(ledger, Release(o))
    <3>1. section' = Idle
      BY <1>4, <2>4 DEF VerifyRestore, Leave
    <3> QED
      BY <1>1, <1>2, <3>1 DEF IndInv, TypeOK, Section, SectionKnows
  <2> QED
    BY <2>3, <2>4
<1> QED
  BY <1>3, <1>4

\* A last transaction that writes one row and leaves the section is safe when
\* the row's new status agrees with the sheet.
LEMMA LastTransaction ==
    ASSUME IndInv, NEW o \in Orders, Live(o), NEW s \in Steps, At(o, s),
           s \notin {"verify_deduct", "verify_restore"},
           section' = Idle, UNCHANGED <<sheet, cache, sweep>>,
           replays' \subseteq Proofs,
           customers' \in [Customers -> [live : BOOLEAN, total : Int]],
           orders' \in [Orders -> Row],
           \A x \in Orders \ {o} : orders'[x] = orders[x],
           \/ orders'[o] = orders[o]
           \/ orders'[o].state = "deleted" /\ deducts[o] = restores[o]
           \/ /\ orders'[o].state = "live" /\ orders'[o].cart = orders[o].cart
              /\ \/ orders'[o].inv = "reserved" /\ deducts[o] = 1 /\ restores[o] = 0
                 \/ orders'[o].inv = "released" /\ deducts[o] = restores[o]
                 \/ orders'[o].inv = "reservation_failed" /\ deducts[o] = 0 /\ restores[o] = 0
    PROVE  IndInv'
<1>1. TypeOK'
  BY DEF IndInv, TypeOK, Section, sheet
<1>2. CacheFresh'
  BY DEF IndInv, CacheFresh, At, sheet
<1>3. LedgerExact'
  BY DEF IndInv, LedgerExact, Records, Live, sheet
<1>4. StatusMatchesStock'
  BY DEF IndInv, StatusMatchesStock, Live, sheet
<1>5. LiveHasCart' /\ SectionKnows'
  BY DEF IndInv, LiveHasCart, SectionKnows, Live
<1> QED
  BY <1>1, <1>2, <1>3, <1>4, <1>5 DEF IndInv

LEMMA RowUpdates ==
    ASSUME NEW row \in Row, NEW inv \in InventoryStatuses
    PROVE  /\ Rejected(row, inv) \in Row
           /\ Rejected(row, inv).inv = inv /\ Rejected(row, inv).proof = row.proof
           /\ Rejected(row, inv).pay =
                IF row.pay = "pending" THEN "rejected" ELSE row.pay
           /\ Rejected(row, inv).state = row.state /\ Rejected(row, inv).cart = row.cart
           /\ Reserved(row) \in Row
           /\ Reserved(row).inv = "reserved" /\ Reserved(row).proof = row.proof
           /\ Reserved(row).pay = row.pay
           /\ Reserved(row).state = row.state /\ Reserved(row).cart = row.cart
<1> DEFINE pay == IF row.pay = "pending" THEN "rejected" ELSE row.pay
<1> DEFINE age == IF row.age = "expired" THEN "open" ELSE row.age
<1>1. /\ row.pay \in VALID_PAYMENT_STATUSES
      /\ "rejected" \in VALID_PAYMENT_STATUSES /\ "reserved" \in InventoryStatuses
      /\ row.age \in {"recent", "open", "expired"}
  BY DEF Row, VALID_PAYMENT_STATUSES, InventoryStatuses
<1>2. pay \in VALID_PAYMENT_STATUSES /\ age \in {"recent", "open", "expired"}
  BY <1>1
<1>3. Rejected(row, inv) = [row EXCEPT !.inv = inv, !.pay = pay]
  BY DEF Rejected
<1>4. Reserved(row) = [row EXCEPT !.inv = "reserved", !.age = age]
  BY DEF Reserved
<1>5. /\ Rejected(row, inv) \in Row
      /\ Rejected(row, inv).inv = inv /\ Rejected(row, inv).proof = row.proof
      /\ Rejected(row, inv).pay = pay
      /\ Rejected(row, inv).state = row.state /\ Rejected(row, inv).cart = row.cart
  <2> HIDE DEF pay, age
  <2> QED BY <1>2, <1>3 DEF Row
<1>6. /\ Reserved(row) \in Row
      /\ Reserved(row).inv = "reserved" /\ Reserved(row).proof = row.proof
      /\ Reserved(row).pay = row.pay
      /\ Reserved(row).state = row.state /\ Reserved(row).cart = row.cart
  <2> HIDE DEF pay, age
  <2> QED BY <1>1, <1>2, <1>4 DEF Row
<1> QED
  BY <1>5, <1>6

LEMMA MarkFailedStep ==
    ASSUME IndInv, NEW o \in Orders, MarkFailed(o)
    PROVE  IndInv'
<1>1. At(o, "mark_failed") /\ "mark_failed" \in Steps /\ TypeOK /\ orders \in [Orders -> Row]
  BY DEF MarkFailed, Steps, IndInv, TypeOK
<1>2. /\ Live(o) /\ orders[o].inv = "reservation_pending"
      /\ deducts[o] = 0 /\ restores[o] = 0
  BY <1>1, AtStep DEF IndInv, SectionKnows, StatusMatchesStock
<1>3. /\ orders' \in [Orders -> Row] /\ \A x \in Orders \ {o} : orders'[x] = orders[x]
      /\ orders'[o].state = "live" /\ orders'[o].cart = orders[o].cart
      /\ orders'[o].inv = "reservation_failed"
  BY <1>1, <1>2, RowUpdates DEF MarkFailed, Live, InventoryStatuses
<1> QED
  BY <1>1, <1>2, <1>3, LastTransaction DEF MarkFailed, Leave, TypeOK

LEMMA FinalizeStep ==
    ASSUME IndInv, NEW o \in Orders, Finalize(o)
    PROVE  IndInv'
<1>1. At(o, "finalize") /\ "finalize" \in Steps /\ TypeOK /\ orders \in [Orders -> Row]
  BY DEF Finalize, Steps, IndInv, TypeOK
<1>2. /\ Live(o) /\ orders[o].inv = "reservation_pending"
      /\ deducts[o] = 1 /\ restores[o] = 0
  BY <1>1, AtStep DEF IndInv, SectionKnows, StatusMatchesStock
<1>3. /\ orders' \in [Orders -> Row] /\ \A x \in Orders \ {o} : orders'[x] = orders[x]
      /\ orders'[o].state = "live" /\ orders'[o].cart = orders[o].cart
      /\ orders'[o].inv = "reserved"
  BY <1>1, <1>2, RowUpdates DEF Finalize, Live, InventoryStatuses
<1> QED
  BY <1>1, <1>2, <1>3, LastTransaction DEF Finalize, Leave, TypeOK

LEMMA FreshRowType == [FreshRow EXCEPT !.state = "deleted"] \in Row
BY DEF FreshRow, Row, InventoryStatuses, VALID_PAYMENT_STATUSES, PAID_STATUSES

LEMMA DeleteFinishStep ==
    ASSUME IndInv, NEW o \in Orders, DeleteFinish(o)
    PROVE  IndInv'
<1>1. At(o, "finish") /\ "finish" \in Steps /\ TypeOK /\ orders \in [Orders -> Row]
  BY DEF DeleteFinish, Steps, IndInv, TypeOK
<1>2. Live(o) /\ deducts[o] = restores[o]
  BY <1>1, AtStep DEF IndInv, SectionKnows
<1>3. orders' = [orders EXCEPT ![o] = [FreshRow EXCEPT !.state = "deleted"]]
  BY DEF DeleteFinish
<1>4. [FreshRow EXCEPT !.state = "deleted"].state = "deleted"
  BY DEF FreshRow
<1>5. /\ orders' \in [Orders -> Row] /\ \A x \in Orders \ {o} : orders'[x] = orders[x]
      /\ orders'[o].state = "deleted"
  BY <1>1, <1>3, <1>4, FreshRowType
<1>6. replays' \subseteq Proofs
  BY <1>1 DEF DeleteFinish, TypeOK, Row
<1>7. customers' \in [Customers -> [live : BOOLEAN, total : Int]]
  <2>1. orders[o].cust \in Customers \cup {Null}
    BY <1>1 DEF Row
  <2>2. customers \in [Customers -> [live : BOOLEAN, total : Int]]
    BY <1>1 DEF TypeOK
  <2> QED
    BY <2>1, <2>2 DEF DeleteFinish, Totals
<1> QED
  BY <1>1, <1>2, <1>5, <1>6, <1>7, LastTransaction DEF DeleteFinish, Leave

LEMMA ReleaseFinishStep ==
    ASSUME IndInv, NEW o \in Orders, ReleaseFinish(o)
    PROVE  IndInv'
<1>1. At(o, "finish") /\ "finish" \in Steps /\ TypeOK /\ orders \in [Orders -> Row]
  BY DEF ReleaseFinish, Steps, IndInv, TypeOK
<1>2. Live(o) /\ deducts[o] = restores[o]
  BY <1>1, AtStep DEF IndInv, SectionKnows
<1>3. /\ orders' \in [Orders -> Row] /\ \A x \in Orders \ {o} : orders'[x] = orders[x]
      /\ orders'[o].state = "live" /\ orders'[o].cart = orders[o].cart
      /\ orders'[o] = orders[o] \/ orders'[o].inv = "released"
  BY <1>1, <1>2, RowUpdates DEF ReleaseFinish, Live, InventoryStatuses
<1> QED
  BY <1>1, <1>2, <1>3, LastTransaction DEF ReleaseFinish, Leave, TypeOK

LEMMA InspectStep ==
    ASSUME IndInv, NEW o \in Orders, Inspect(o)
    PROVE  IndInv'
<1>1. At(o, "inspect") /\ "inspect" \in Steps /\ TypeOK /\ orders \in [Orders -> Row]
  BY DEF Inspect, Steps, IndInv, TypeOK
<1>2. /\ Live(o) /\ orders[o].inv = "reservation_pending" /\ restores[o] = 0
      /\ section.op \in {"delete", "release"} /\ deducts[o] \in {0, 1}
      /\ deducts[o] = 1 <=> Records(ledger, Reserve(o))
  BY <1>1, AtStep DEF IndInv, SectionKnows, StatusMatchesStock, LedgerExact
<1>3. /\ orders' \in [Orders -> Row] /\ \A x \in Orders \ {o} : orders'[x] = orders[x]
      /\ orders'[o].state = "live" /\ orders'[o].cart = orders[o].cart
      /\ orders'[o].inv = IF deducts[o] = 1 THEN "release_pending" ELSE "reservation_pending"
  <2>1. CASE deducts[o] = 1
    BY <1>1, <1>2, <2>1 DEF Inspect, Row, Live, InventoryStatuses
  <2>2. CASE deducts[o] = 0
    BY <1>1, <1>2, <2>2 DEF Inspect, Live
  <2> QED
    BY <1>2, <2>1, <2>2
<1>4. /\ UNCHANGED <<replays, customers, sweep, stock, ledger, deducts, restores>>
      /\ cache' = ledger
      /\ section' = [section EXCEPT !.step = IF deducts[o] = 1 THEN "restore" ELSE "finish"]
  BY <1>2 DEF Inspect, ReadLedger, Goto, sheet
<1>5. TypeOK'
  BY <1>1, <1>3, <1>4, AtStep DEF TypeOK, Steps
<1>6. CacheFresh' /\ LedgerExact'
  BY <1>2, <1>3, <1>4 DEF IndInv, CacheFresh, LedgerExact, Records, Live
<1>7. StatusMatchesStock' /\ LiveHasCart'
  BY <1>2, <1>3, <1>4 DEF IndInv, StatusMatchesStock, LiveHasCart, Live
<1>8. SectionKnows'
  BY <1>1, <1>2, <1>3, <1>4, AtStep DEF SectionKnows, Live, Steps
<1> QED
  BY <1>5, <1>6, <1>7, <1>8 DEF IndInv

-----------------------------------------------------------------------------
(* The theorems.                                                           *)

LEMMA NextIndInv ==
    ASSUME ~UnverifiedWrites, IndInv, [Next]_vars
    PROVE  IndInv'
<1>1. CASE UNCHANGED vars
  <2>1. TypeOK'
    BY <1>1 DEF vars, IndInv, TypeOK
  <2> QED
    BY <1>1, <2>1, OutsideStep DEF vars, sheet
<1>2. ASSUME NEW o \in Orders, SectionStep(o)
      PROVE  IndInv'
  BY <1>2, DeductStep, VerifyStep, MarkFailedStep, FinalizeStep, InspectStep, RestoreStep,
     DeleteFinishStep, ReleaseFinishStep DEF SectionStep
<1> QED
  BY <1>1, <1>2, CreateStep, DeleteBeginStep, ReleaseBeginStep, PaymentStep, AgeStep,
     SweepStep, FailureStep, CustomerStep DEF Next

\* Every reachable state satisfies the inductive invariant.
THEOREM SagaInvariant == ASSUME ~UnverifiedWrites PROVE Spec => []IndInv
<1>1. IndInv /\ [Next]_vars => IndInv'
  BY NextIndInv
<1> QED
  BY <1>1, InitIndInv, PTL DEF Spec

(***************************************************************************)
(* However create_order, delete_order and the clean-up are retried, after  *)
(* any sequence of errors and crashes, the sheet's stock changes at most   *)
(* once per operation, and only taken units are given back.                *)
(***************************************************************************)
THEOREM MutatedOnce == ASSUME ~UnverifiedWrites PROVE Spec => []AppliedOnce
<1>1. IndInv => AppliedOnce
  BY DEF IndInv, LedgerExact, AppliedOnce
<1> QED
  BY <1>1, SagaInvariant, PTL

(***************************************************************************)
(* orders.inventory_status always says what the sheet did for the order.   *)
(***************************************************************************)
THEOREM StatusIsTrue == ASSUME ~UnverifiedWrites PROVE Spec => []StatusMatchesStock
<1>1. IndInv => StatusMatchesStock
  BY DEF IndInv
<1> QED
  BY <1>1, SagaInvariant, PTL

\* How each step may change a row, as far as payment is concerned.
LEMMA PaymentFrame ==
    ASSUME IndInv, [Next]_vars
    PROVE  \/ \E o \in Orders, pay \in VALID_PAYMENT_STATUSES : AdminPayment(o, pay)
           \/ \E o \in Orders, p \in Proofs : ProofPayment(o, p)
           \/ \E o \in Orders : DeleteFinish(o)
           \/ /\ replays' = replays
              /\ \A x \in Orders : orders'[x].proof \in {orders[x].proof, Null}
<1> DEFINE Frame == /\ replays' = replays
                    /\ \A x \in Orders : orders'[x].proof \in {orders[x].proof, Null}
<1>1. orders \in [Orders -> Row]
  BY DEF IndInv, TypeOK
<1>2. ASSUME NEW o \in Orders,
             CreateReuse(o) \/ Deduct(o) \/ VerifyDeduct(o) \/ Restore(o) \/ VerifyRestore(o)
      PROVE  Frame
  BY <1>2 DEF CreateReuse, Deduct, VerifyDeduct, Restore, VerifyRestore
<1>3. ASSUME NEW o \in Orders, NEW c \in Customers, NEW k \in Carts, CreateInsert(o, c, k)
      PROVE  Frame
  BY <1>1, <1>3 DEF CreateInsert, FreshRow
<1>4. ASSUME NEW o \in Orders, MarkFailed(o) \/ Finalize(o) \/ ReleaseFinish(o)
      PROVE  Frame
  BY <1>1, <1>4, RowUpdates DEF MarkFailed, Finalize, ReleaseFinish, InventoryStatuses
<1>5. ASSUME NEW o \in Orders, DeleteBegin(o) \/ ReleaseBegin(o) \/ Inspect(o) \/ Age(o)
      PROVE  Frame
  BY <1>1, <1>5 DEF DeleteBegin, ReleaseBegin, Inspect, Age, Plan, Row
<1>6. ASSUME NEW c \in Customers, DeleteCustomer(c)
      PROVE  Frame
  BY <1>1, <1>6 DEF DeleteCustomer, Row
<1>7. ASSUME SweepSelect \/ Abandon \/ Crash \/ UNCHANGED vars
      PROVE  Frame
  BY <1>7 DEF SweepSelect, Abandon, Crash, vars
<1> DEFINE Other == \/ \E o \in Orders, pay \in VALID_PAYMENT_STATUSES : AdminPayment(o, pay)
                    \/ \E o \in Orders, p \in Proofs : ProofPayment(o, p)
                    \/ \E o \in Orders : DeleteFinish(o)
<1>8. ASSUME NEW o \in Orders, NEW pay \in VALID_PAYMENT_STATUSES, AdminPayment(o, pay)
      PROVE  Other
  BY <1>8
<1>9. ASSUME NEW o \in Orders, NEW p \in Proofs, ProofPayment(o, p)
      PROVE  Other
  BY <1>9
<1>10. ASSUME NEW o \in Orders, DeleteFinish(o)
       PROVE  Other
  BY <1>10
<1> HIDE DEF Frame, Other
<1>11. ASSUME NEW o \in Orders, SectionStep(o)
       PROVE  Frame \/ Other
  BY <1>11, <1>2, <1>4, <1>5, <1>10 DEF SectionStep
<1>12. Next => Frame \/ Other
  BY <1>2, <1>3, <1>5, <1>6, <1>7, <1>8, <1>9, <1>11 DEF Next
<1>13. Frame \/ Other
  BY <1>7, <1>12
<1> QED
  BY <1>13 DEF Frame, Other

LEMMA ProofStep ==
    ASSUME IndInv, ProofUsedOnce, [Next]_vars
    PROVE  ProofUsedOnce'
<1>1. orders \in [Orders -> Row] /\ replays \subseteq Proofs
  BY DEF IndInv, TypeOK
<1>2. CASE \E o \in Orders, pay \in VALID_PAYMENT_STATUSES : AdminPayment(o, pay)
  <2>1. replays' = replays /\ \A x \in Orders : orders'[x].proof = orders[x].proof
    BY <1>1, <1>2 DEF AdminPayment, SetPayment, Row
  <2> QED
    BY <2>1 DEF ProofUsedOnce, Replayed, SameProof
<1>3. CASE \E o \in Orders, p \in Proofs : ProofPayment(o, p)
  <2>1. PICK o \in Orders, p \in Proofs : ProofPayment(o, p)
    BY <1>3
  <2>2. /\ replays' = replays /\ orders'[o].proof = p /\ ~Replayed(o, p)
        /\ \A x \in Orders \ {o} : orders'[x].proof = orders[x].proof
    BY <1>1, <2>1 DEF ProofPayment, SetPayment, Row
  <2> QED
    BY <2>2 DEF ProofUsedOnce, Replayed, SameProof
<1>4. CASE \E o \in Orders : DeleteFinish(o)
  <2>1. PICK o \in Orders : DeleteFinish(o)
    BY <1>4
  <2>2. /\ replays' = replays \cup ({orders[o].proof} \ {Null})
        /\ orders'[o].proof = Null
        /\ \A x \in Orders \ {o} : orders'[x].proof = orders[x].proof
    BY <1>1, <2>1 DEF DeleteFinish, FreshRow
  <2> QED
    BY <2>2 DEF ProofUsedOnce, Replayed, SameProof
<1>5. CASE replays' = replays /\ \A x \in Orders : orders'[x].proof \in {orders[x].proof, Null}
  BY <1>5 DEF ProofUsedOnce, Replayed, SameProof
<1> QED
  BY <1>2, <1>3, <1>4, <1>5, PaymentFrame

(***************************************************************************)
(* A payment proof counts for one order: neither another order, nor a      *)
(* deleted one, has the same hash or reference on record.                  *)
(***************************************************************************)
THEOREM ProofsNotReused == ASSUME ~UnverifiedWrites PROVE Spec => []ProofUsedOnce
<1>1. Init => ProofUsedOnce
  <2> SUFFICES ASSUME Init, NEW o \in Orders PROVE orders[o].proof = Null
    BY DEF ProofUsedOnce
  <2>1. orders \in [Orders -> {FreshRow} \cup {LegacyRow(c, k) : c \in Customers, k \in Carts}]
    BY DEF Init
  <2> QED
    BY <2>1, InitialRows
<1>2. IndInv /\ ProofUsedOnce /\ [Next]_vars => ProofUsedOnce'
  BY ProofStep
<1> QED
  BY <1>1, <1>2, SagaInvariant, PTL DEF Spec

LEMMA PaidStep ==
    ASSUME IndInv, PaidKeepsStock, [Next]_vars
    PROVE  PaidKeepsStock'
<1>1. orders \in [Orders -> Row] /\ section \in Section
  BY DEF IndInv, TypeOK
<1> USE <1>1
<1>3. ASSUME NEW o \in Orders, NEW pay \in VALID_PAYMENT_STATUSES,
             NEW proof \in Proofs \cup {Null}, Live(o), SetPayment(o, pay, proof),
             pay \in PAID_STATUSES => orders[o].inv \in {"reserved", "legacy_unknown"}
      PROVE  PaidKeepsStock'
  <2>1. /\ \A x \in Orders \ {o} : orders'[x] = orders[x]
        /\ orders'[o].state = "live" /\ orders'[o].inv = orders[o].inv
        /\ orders'[o].pay = pay /\ section' = section
    BY <1>3 DEF SetPayment, Row, Live
  <2> QED
    BY <1>3, <2>1 DEF PaidKeepsStock, Live, IndInv, SectionKnows, Section, Idle
<1>4. ASSUME NEW o \in Orders,
             CreateReuse(o) \/ Deduct(o) \/ VerifyDeduct(o) \/ Restore(o) \/ VerifyRestore(o)
      PROVE  PaidKeepsStock'
  <2>1. orders' = orders
    BY <1>4 DEF CreateReuse, Deduct, VerifyDeduct, Restore, VerifyRestore
  <2>2. section'.op # "release" \/ (section'.op = section.op /\ section'.order = section.order)
    BY <1>4 DEF CreateReuse, Deduct, VerifyDeduct, Restore, VerifyRestore, Enter, Goto, Leave,
                AlreadyApplied, WriteSheet, RefuseSheet, ReadLedger, Section, Idle
  <2> QED
    BY <2>1, <2>2 DEF PaidKeepsStock, Live
<1>5. ASSUME NEW o \in Orders, NEW c \in Customers, NEW k \in Carts, CreateInsert(o, c, k)
      PROVE  PaidKeepsStock'
  <2>1. /\ \A x \in Orders \ {o} : orders'[x] = orders[x]
        /\ orders'[o].pay \notin PAID_STATUSES /\ section'.op # "release"
    BY <1>5 DEF CreateInsert, FreshRow, Enter, PAID_STATUSES
  <2> QED
    BY <2>1 DEF PaidKeepsStock, Live
<1>6. ASSUME NEW o \in Orders, MarkFailed(o) \/ Finalize(o)
      PROVE  PaidKeepsStock'
  <2>1. orders[o].inv = "reservation_pending" /\ Live(o)
    BY <1>6, AtStep DEF MarkFailed, Finalize, IndInv, SectionKnows, Steps
  <2>2. orders[o].pay \notin PAID_STATUSES
    BY <2>1 DEF PaidKeepsStock
  <2>3. /\ \A x \in Orders \ {o} : orders'[x] = orders[x]
        /\ orders'[o].pay \in {orders[o].pay, "rejected"} /\ section' = Idle
    BY <1>6, RowUpdates DEF MarkFailed, Finalize, Leave, InventoryStatuses
  <2> QED
    BY <2>2, <2>3 DEF PaidKeepsStock, Live, PAID_STATUSES, Idle
<1>7. ASSUME NEW o \in Orders, Inspect(o)
      PROVE  PaidKeepsStock'
  <2>1. orders[o].inv = "reservation_pending" /\ Live(o) /\ section.order = o
    BY <1>7, AtStep DEF Inspect, IndInv, SectionKnows, Steps, At
  <2>2. orders[o].pay \notin PAID_STATUSES
    BY <2>1 DEF PaidKeepsStock
  <2>3. /\ \A x \in Orders \ {o} : orders'[x] = orders[x]
        /\ orders'[o].pay = orders[o].pay /\ section'.order = o
    BY <1>7, <2>1 DEF Inspect, ReadLedger, Goto, Row, Section, Idle
  <2> QED
    BY <2>2, <2>3 DEF PaidKeepsStock, Live
<1>8. ASSUME NEW o \in Orders, ReleaseFinish(o)
      PROVE  PaidKeepsStock'
  <2>1. CASE Releasable(o)
    <3>1. orders[o].pay \notin PAID_STATUSES
      BY <2>1 DEF Releasable, RELEASABLE, PAID_STATUSES
    <3>2. /\ \A x \in Orders \ {o} : orders'[x] = orders[x]
          /\ orders'[o].pay \in {orders[o].pay, "rejected"} /\ section' = Idle
      BY <1>8, <2>1, RowUpdates DEF ReleaseFinish, Leave, InventoryStatuses
    <3> QED
      BY <3>1, <3>2 DEF PaidKeepsStock, Live, PAID_STATUSES, Idle
  <2>2. CASE ~Releasable(o)
    BY <1>8, <2>2 DEF ReleaseFinish, Leave, PaidKeepsStock, Live, Idle
  <2> QED
    BY <2>1, <2>2
<1>9. ASSUME NEW o \in Orders, DeleteFinish(o)
      PROVE  PaidKeepsStock'
  <2>1. /\ \A x \in Orders \ {o} : orders'[x] = orders[x]
        /\ orders'[o].state # "live" /\ section' = Idle
    BY <1>9 DEF DeleteFinish, Leave, FreshRow
  <2> QED
    BY <2>1 DEF PaidKeepsStock, Live, Idle
<1>10. ASSUME NEW o \in Orders, NEW op \in {"delete", "release"}, Plan(op, o),
              op = "release" => Releasable(o)
       PROVE  PaidKeepsStock'
  <2>1. /\ \A x \in Orders : orders'[x].state = orders[x].state /\ orders'[x].pay = orders[x].pay
        /\ \A x \in Orders : \/ orders'[x].inv = orders[x].inv
                              \/ orders'[x].inv = "release_pending"
    BY <1>10 DEF Plan, Row
  <2>2. section'.op = op /\ section'.order = o
    BY <1>10 DEF Plan, Enter
  <2>3. op = "release" => orders[o].pay \notin PAID_STATUSES
    BY <1>10 DEF Releasable, RELEASABLE, PAID_STATUSES
  <2> QED
    BY <2>1, <2>2, <2>3 DEF PaidKeepsStock, Live
<1>11. ASSUME NEW o \in Orders, DeleteBegin(o) \/ ReleaseBegin(o)
       PROVE  PaidKeepsStock'
  BY <1>10, <1>11 DEF DeleteBegin, ReleaseBegin, PaidKeepsStock, Live
<1>12. ASSUME section' \in {section, Idle},
              \A x \in Orders : /\ orders'[x].state = orders[x].state
                                /\ orders'[x].pay = orders[x].pay
                                /\ orders'[x].inv = orders[x].inv
       PROVE  PaidKeepsStock'
  BY <1>12 DEF PaidKeepsStock, Live, Section, Idle
<1>13. ASSUME NEW o \in Orders, Age(o)
       PROVE  PaidKeepsStock'
  BY <1>12, <1>13 DEF Age, Row
<1>14. ASSUME NEW c \in Customers, DeleteCustomer(c)
       PROVE  PaidKeepsStock'
  BY <1>12, <1>14 DEF DeleteCustomer, Row
<1>15. ASSUME SweepSelect \/ Abandon \/ Crash \/ UNCHANGED vars
       PROVE  PaidKeepsStock'
  BY <1>12, <1>15 DEF SweepSelect, Abandon, Crash, Leave, vars
<1>16. ASSUME NEW o \in Orders, NEW pay \in VALID_PAYMENT_STATUSES, AdminPayment(o, pay)
       PROVE  PaidKeepsStock'
  <2>1. orders[o].proof \in Proofs \cup {Null}
    BY DEF Row
  <2> QED
    BY <1>3, <1>16, <2>1 DEF AdminPayment
<1>17. ASSUME NEW o \in Orders, NEW p \in Proofs, ProofPayment(o, p)
       PROVE  PaidKeepsStock'
  BY <1>3, <1>17 DEF ProofPayment, VALID_PAYMENT_STATUSES, PAID_STATUSES
<1>18. ASSUME NEW o \in Orders, SectionStep(o)
       PROVE  PaidKeepsStock'
  BY <1>18, <1>4, <1>6, <1>7, <1>8, <1>9 DEF SectionStep
<1>19. Next => PaidKeepsStock'
  BY <1>4, <1>5, <1>11, <1>13, <1>14, <1>15, <1>16, <1>17, <1>18 DEF Next
<1> QED
  BY <1>15, <1>19

(***************************************************************************)
(* The clean-up, which runs beside payment updates that take no inventory  *)
(* lock, never releases the stock of an order that has been paid.          *)
(***************************************************************************)
THEOREM PaidOrdersKeepStock == ASSUME ~UnverifiedWrites PROVE Spec => []PaidKeepsStock
<1>1. Init => PaidKeepsStock
  <2> SUFFICES ASSUME Init PROVE PaidKeepsStock
    OBVIOUS
  <2>1. orders \in [Orders -> {FreshRow} \cup {LegacyRow(c, k) : c \in Customers, k \in Carts}]
    BY DEF Init
  <2>2. \A x \in Orders : orders[x].pay = "pending"
    BY <2>1, InitialRows
  <2>3. section = Idle
    BY DEF Init
  <2> QED
    BY <2>2, <2>3 DEF PaidKeepsStock, PAID_STATUSES, Idle
<1>2. IndInv /\ PaidKeepsStock /\ [Next]_vars => PaidKeepsStock'
  BY PaidStep
<1> QED
  BY <1>1, <1>2, SagaInvariant, PTL DEF Spec
-----------------------------------------------------------------------------
(***************************************************************************)
(* Stock.  Units are counted one by one: the units of a set of orders, for *)
(* the quantities of q, are the pairs of an order and a number up to q.    *)
(***************************************************************************)
Units(q, set) == UNION {{o} \X (1 .. q[o]) : o \in set}

LEMMA UnitsOfOne ==
    ASSUME NEW o, NEW n \in Nat
    PROVE  IsFiniteSet({o} \X (1 .. n)) /\ Cardinality({o} \X (1 .. n)) = n
<1>1. IsFiniteSet({o}) /\ Cardinality({o}) = 1
  BY FS_Singleton
<1>2. IsFiniteSet(1 .. n) /\ Cardinality(1 .. n) = n
  BY FS_Interval
<1>3. /\ IsFiniteSet({o} \X (1 .. n))
      /\ Cardinality({o} \X (1 .. n)) = Cardinality({o}) * Cardinality(1 .. n)
  BY <1>1, <1>2, FS_Product
<1> QED
  BY <1>1, <1>2, <1>3

LEMMA UnitsFinite ==
    ASSUME NEW q, NEW set, IsFiniteSet(set), \A o \in set : q[o] \in Nat
    PROVE  IsFiniteSet(Units(q, set))
<1> DEFINE F(o) == {o} \X (1 .. q[o])
<1> DEFINE all == {F(o) : o \in set}
<1>1. IsFiniteSet(all)
  <2> DEFINE f == [o \in set |-> F(o)]
  <2>1. f \in Surjection(set, all)
    BY DEF Surjection
  <2> HIDE DEF f, all
  <2> QED
    BY <2>1, FS_Surjection
<1>2. \A T \in all : IsFiniteSet(T)
  <2> SUFFICES ASSUME NEW o \in set PROVE IsFiniteSet(F(o))
    OBVIOUS
  <2>1. q[o] \in Nat
    OBVIOUS
  <2> QED
    BY <2>1, UnitsOfOne
<1>3. IsFiniteSet(UNION all)
  <2> HIDE DEF all
  <2> QED
    BY <1>1, <1>2, FS_UNION
<1> QED
  BY <1>3 DEF Units

\* Another order adds the units it asks for.
LEMMA UnitsAdd ==
    ASSUME NEW q, NEW set, IsFiniteSet(set), NEW o, o \notin set,
           \A x \in set \cup {o} : q[x] \in Nat
    PROVE  Cardinality(Units(q, set \cup {o})) = Cardinality(Units(q, set)) + q[o]
<1> DEFINE A == Units(q, set)
<1> DEFINE B == {o} \X (1 .. q[o])
<1>1. Units(q, set \cup {o}) = A \cup B
  BY DEF Units
<1>2. A \cap B = {}
  <2> SUFFICES ASSUME NEW u \in A, u \in B PROVE FALSE
    OBVIOUS
  <2>1. PICK x \in set : u \in {x} \X (1 .. q[x])
    BY DEF Units
  <2>2. u[1] = x /\ u[1] = o
    BY <2>1
  <2> QED
    BY <2>2
<1>3. IsFiniteSet(A) /\ IsFiniteSet(B) /\ Cardinality(B) = q[o]
  BY UnitsFinite, UnitsOfOne
<1> HIDE DEF A, B
<1>4. Cardinality(A \cup B) = Cardinality(A) + Cardinality(B) - Cardinality(A \cap B)
  BY <1>3, FS_Union
<1>5. Cardinality(A \cap B) = 0
  BY <1>2, FS_EmptySet
<1>6. Cardinality(A) \in Nat /\ Cardinality(B) \in Nat
  BY <1>3, FS_CardinalityType
<1>7. Cardinality(A \cup B) = Cardinality(A) + q[o]
  BY <1>3, <1>4, <1>5, <1>6
<1> QED
  BY <1>1, <1>7 DEF A

LEMMA UnitsSame ==
    ASSUME NEW q, NEW r, NEW set, \A o \in set : q[o] = r[o]
    PROVE  Units(q, set) = Units(r, set)
BY DEF Units
\* The orders whose units are out of the sheet, and what each asks for.
Held == {o \in Orders : deducts[o] # restores[o]}
Wanted == [o \in Orders |-> Qty[orders[o].cart]]

\* The sheet's cell is the initial stock less the units that are out.
Accounted == stock + Cardinality(Units(Wanted, Held)) = InitialStock

\* Only a live order holds units, so what it asks for is a number of them.
LEMMA HeldFacts ==
    ASSUME IndInv
    PROVE  /\ IsFiniteSet(Held)
           /\ \A o \in Held : Live(o) /\ deducts[o] = 1 /\ restores[o] = 0
           /\ \A o \in Orders : Live(o) => Wanted[o] \in Nat
<1>1. \A o \in Orders : deducts[o] \in {0, 1} /\ restores[o] \in {0, 1} /\ restores[o] <= deducts[o]
  BY DEF IndInv, LedgerExact
<1>2. \A o \in Held : deducts[o] = 1 /\ restores[o] = 0
  BY <1>1 DEF Held
<1>3. \A o \in Held : Live(o)
  <2>1. \A o \in Orders : orders[o].state \in {"absent", "live", "deleted"}
    BY DEF IndInv, TypeOK, Row
  <2> QED
    BY <1>2, <2>1 DEF Held, Live, IndInv, LedgerExact, StatusMatchesStock
<1>4. \A o \in Orders : Live(o) => Wanted[o] \in Nat
  BY OrdersAssumption DEF IndInv, LiveHasCart, Wanted
<1>5. IsFiniteSet(Held)
  BY OrdersAssumption, FS_Subset DEF Held
<1> QED
  BY <1>2, <1>3, <1>4, <1>5

\* An order whose units are out keeps its item list until they are back.
LEMMA CartFrame ==
    ASSUME IndInv, [Next]_vars
    PROVE  \A x \in Held : orders'[x].cart = orders[x].cart
<1> DEFINE Kept == \A x \in Held : orders'[x].cart = orders[x].cart
<1>1. orders \in [Orders -> Row] /\ Held \subseteq Orders
  BY DEF IndInv, TypeOK, Held
<1>2. ASSUME NEW o \in Orders,
             CreateReuse(o) \/ Deduct(o) \/ VerifyDeduct(o) \/ Restore(o) \/ VerifyRestore(o)
      PROVE  Kept
  BY <1>2 DEF CreateReuse, Deduct, VerifyDeduct, Restore, VerifyRestore
<1>3. ASSUME NEW o \in Orders, NEW c \in Customers, NEW k \in Carts, CreateInsert(o, c, k)
      PROVE  Kept
  <2>1. o \notin Held
    BY <1>3, HeldFacts DEF CreateInsert, Live
  <2>2. \A x \in Orders \ {o} : orders'[x] = orders[x]
    BY <1>1, <1>3 DEF CreateInsert
  <2> QED
    BY <1>1, <2>1, <2>2
<1>4. ASSUME NEW o \in Orders, MarkFailed(o) \/ Finalize(o) \/ ReleaseFinish(o)
      PROVE  Kept
  BY <1>1, <1>4, RowUpdates DEF MarkFailed, Finalize, ReleaseFinish, InventoryStatuses
<1>5. ASSUME NEW o \in Orders, DeleteBegin(o) \/ ReleaseBegin(o) \/ Inspect(o) \/ Age(o)
      PROVE  Kept
  BY <1>1, <1>5 DEF DeleteBegin, ReleaseBegin, Inspect, Age, Plan, Row
<1>6. ASSUME NEW o \in Orders, DeleteFinish(o)
      PROVE  Kept
  <2>1. o \notin Held
    <3>1. At(o, "finish") /\ "finish" \in Steps
      BY <1>6 DEF DeleteFinish, Steps
    <3> QED
      BY <3>1, AtStep DEF IndInv, SectionKnows, Held
  <2>2. \A x \in Orders \ {o} : orders'[x] = orders[x]
    BY <1>1, <1>6 DEF DeleteFinish
  <2> QED
    BY <1>1, <2>1, <2>2
<1>7. ASSUME NEW c \in Customers, DeleteCustomer(c)
      PROVE  Kept
  BY <1>1, <1>7 DEF DeleteCustomer, Row
<1>8. ASSUME SweepSelect \/ Abandon \/ Crash \/ UNCHANGED vars
      PROVE  Kept
  BY <1>8 DEF SweepSelect, Abandon, Crash, vars
<1>9. ASSUME NEW o \in Orders,
             \/ \E pay \in VALID_PAYMENT_STATUSES : AdminPayment(o, pay)
             \/ \E p \in Proofs : ProofPayment(o, p)
      PROVE  Kept
  <2>1. ASSUME NEW pay, NEW proof, SetPayment(o, pay, proof) PROVE Kept
    BY <1>1, <2>1 DEF SetPayment, Row
  <2> HIDE DEF Kept
  <2> QED
    BY <1>9, <2>1 DEF AdminPayment, ProofPayment
<1> HIDE DEF Kept
<1>10. ASSUME NEW o \in Orders, SectionStep(o)
       PROVE  Kept
  BY <1>2, <1>4, <1>5, <1>6, <1>10 DEF SectionStep
<1>11. Next => Kept
  BY <1>2, <1>3, <1>5, <1>7, <1>8, <1>9, <1>10 DEF Next
<1>12. Kept
  BY <1>8, <1>11
<1> QED
  BY <1>12 DEF Kept

\* A deduction takes the order's units, a restoration gives them back, and no
\* other step touches the sheet.
Taken(o) ==
    /\ Live(o) /\ deducts[o] = restores[o] /\ orders' = orders
    /\ Held' = Held \cup {o} /\ stock' = stock - Qty[orders[o].cart]
GivenBack(o) ==
    /\ o \in Held /\ orders' = orders
    /\ Held' = Held \ {o} /\ stock' = stock + Qty[orders[o].cart]

LEMMA SheetFrame ==
    ASSUME IndInv, [Next]_vars
    PROVE  \/ \E o \in Orders : Taken(o) \/ GivenBack(o)
           \/ UNCHANGED sheet
<1>1. ASSUME NEW o \in Orders, Deduct(o)
      PROVE  Taken(o) \/ UNCHANGED sheet
  <2>1. At(o, "deduct") /\ "deduct" \in Steps
    BY <1>1 DEF Deduct, Steps
  <2>2. LoadedLedger = ledger
    BY <2>1, LoadedIsLedger DEF IndInv, At
  <2>3. Live(o) /\ restores[o] = 0
    BY <2>1, AtStep DEF IndInv, SectionKnows, StatusMatchesStock
  <2>4. ASSUME NEW acked \in BOOLEAN,
               WriteSheet(Reserve(o), acked, "finalize", "verify_deduct")
        PROVE  Taken(o)
    <3>1. /\ ~Records(ledger, Reserve(o)) /\ stock' = stock - Qty[orders[o].cart]
          /\ deducts' = [deducts EXCEPT ![o] = @ + 1] /\ restores' = restores
      BY <2>2, <2>4 DEF WriteSheet, Reserve
    <3>2. deducts[o] = 0
      BY <3>1 DEF IndInv, LedgerExact
    <3>3. Held' = Held \cup {o}
      BY <2>3, <3>1, <3>2 DEF Held, IndInv, TypeOK
    <3> QED
      BY <1>1, <2>3, <3>1, <3>2, <3>3 DEF Taken, Deduct
  <2> QED
    BY <1>1, <2>4 DEF Deduct, AlreadyApplied, RefuseSheet
<1>2. ASSUME NEW o \in Orders, Restore(o)
      PROVE  GivenBack(o) \/ UNCHANGED sheet
  <2>1. At(o, "restore") /\ "restore" \in Steps
    BY <1>2 DEF Restore, Steps
  <2>2. LoadedLedger = ledger
    BY <2>1, LoadedIsLedger DEF IndInv, At
  <2>3. deducts[o] = 1
    BY <2>1, AtStep DEF IndInv, SectionKnows, StatusMatchesStock
  <2>4. ASSUME NEW acked \in BOOLEAN,
               WriteSheet(Release(o), acked, "finish", "verify_restore")
        PROVE  GivenBack(o)
    <3>1. /\ ~Records(ledger, Release(o)) /\ stock' = stock + Qty[orders[o].cart]
          /\ restores' = [restores EXCEPT ![o] = @ + 1] /\ deducts' = deducts
      BY <2>2, <2>4 DEF WriteSheet, Release
    <3>2. restores[o] = 0
      BY <3>1 DEF IndInv, LedgerExact
    <3>3. Held' = Held \ {o} /\ o \in Held
      BY <2>3, <3>1, <3>2 DEF Held, IndInv, TypeOK
    <3> QED
      BY <1>2, <3>1, <3>3 DEF GivenBack, Restore
  <2> QED
    BY <1>2, <2>4 DEF Restore, AlreadyApplied, RefuseSheet
<1>3. ASSUME NEW o \in Orders,
             \/ VerifyDeduct(o) \/ MarkFailed(o) \/ Finalize(o) \/ Inspect(o)
             \/ VerifyRestore(o) \/ DeleteFinish(o) \/ ReleaseFinish(o)
      PROVE  UNCHANGED sheet
  BY <1>3 DEF VerifyDeduct, MarkFailed, Finalize, Inspect, VerifyRestore, DeleteFinish,
              ReleaseFinish, ReadLedger
<1>4. ASSUME NEW o \in Orders,
             \/ CreateReuse(o) \/ DeleteBegin(o) \/ ReleaseBegin(o) \/ Age(o)
             \/ \E c \in Customers, k \in Carts : CreateInsert(o, c, k)
      PROVE  UNCHANGED sheet
  BY <1>4 DEF CreateReuse, CreateInsert, DeleteBegin, ReleaseBegin, Age
<1>5. ASSUME NEW o \in Orders,
             \/ \E pay \in VALID_PAYMENT_STATUSES : AdminPayment(o, pay)
             \/ \E p \in Proofs : ProofPayment(o, p)
      PROVE  UNCHANGED sheet
  BY <1>5 DEF AdminPayment, ProofPayment, SetPayment
<1>6. ASSUME SweepSelect \/ Abandon \/ Crash \/ UNCHANGED vars
      PROVE  UNCHANGED sheet
  BY <1>6 DEF SweepSelect, Abandon, Crash, vars, sheet
<1>7. ASSUME NEW c \in Customers, DeleteCustomer(c)
      PROVE  UNCHANGED sheet
  BY <1>7 DEF DeleteCustomer
<1> HIDE DEF Taken, GivenBack
<1>8. ASSUME NEW o \in Orders, SectionStep(o)
      PROVE  Taken(o) \/ GivenBack(o) \/ UNCHANGED sheet
  BY <1>1, <1>2, <1>3, <1>8 DEF SectionStep
<1> QED
  BY <1>4, <1>5, <1>6, <1>7, <1>8 DEF Next

LEMMA AccountedStep ==
    ASSUME IndInv, Accounted, [Next]_vars
    PROVE  Accounted'
<1> DEFINE units == Cardinality(Units(Wanted, Held))
<1>1. /\ IsFiniteSet(Held) /\ \A o \in Held : o \in Orders /\ Wanted[o] \in Nat
      /\ \A o \in Orders : Live(o) => Wanted[o] \in Nat
  BY HeldFacts DEF Held
<1>2. units \in Nat
  BY <1>1, UnitsFinite, FS_CardinalityType
<1>3. stock \in Int /\ stock + units = InitialStock
  BY DEF Accounted, IndInv, TypeOK
<1>4. CASE UNCHANGED sheet
  <2>1. Held' = Held /\ stock' = stock
    BY <1>4 DEF Held, sheet
  <2>2. \A o \in Held : Wanted'[o] = Wanted[o]
    BY CartFrame DEF Wanted, Held
  <2>3. Units(Wanted', Held) = Units(Wanted, Held)
    BY <2>2, UnitsSame
  <2> QED
    BY <1>3, <2>1, <2>3 DEF Accounted, Units
<1>5. ASSUME NEW o \in Orders, Taken(o) PROVE Accounted'
  <2>1. /\ Live(o) /\ o \notin Held /\ Wanted' = Wanted
        /\ Held' = Held \cup {o} /\ stock' = stock - Wanted[o]
    BY <1>5 DEF Taken, Held, Wanted
  <2>2. Cardinality(Units(Wanted, Held \cup {o})) = units + Wanted[o]
    BY <1>1, <2>1, UnitsAdd
  <2>3. Wanted[o] \in Nat
    BY <1>1, <2>1
  <2> HIDE DEF units
  <2>4. stock' + (units + Wanted[o]) = InitialStock
    BY <1>2, <1>3, <2>1, <2>3
  <2> QED
    BY <2>1, <2>2, <2>4 DEF Accounted, Units
<1>6. ASSUME NEW o \in Orders, GivenBack(o) PROVE Accounted'
  <2>1. /\ o \in Held /\ Wanted' = Wanted
        /\ Held' = Held \ {o} /\ stock' = stock + Wanted[o]
    BY <1>6 DEF GivenBack, Wanted
  <2> DEFINE less == Cardinality(Units(Wanted, Held \ {o}))
  <2>2. IsFiniteSet(Held \ {o}) /\ (Held \ {o}) \cup {o} = Held
    BY <1>1, <2>1, FS_RemoveElement
  <2>3. Cardinality(Units(Wanted, (Held \ {o}) \cup {o})) = less + Wanted[o]
    BY <1>1, <2>1, <2>2, UnitsAdd
  <2>4. less \in Nat /\ Wanted[o] \in Nat
    BY <1>1, <2>1, <2>2, UnitsFinite, FS_CardinalityType
  <2>5. units = less + Wanted[o]
    BY <2>2, <2>3
  <2> HIDE DEF units, less
  <2>6. stock' + less = InitialStock
    BY <1>3, <2>1, <2>4, <2>5
  <2> QED
    BY <2>1, <2>6 DEF Accounted, Units, less
<1> QED
  BY <1>4, <1>5, <1>6, SheetFrame

(***************************************************************************)
(* The stock cell never leaks or doubles a unit: whatever was retried,     *)
(* lost or interrupted, when no order is half-way the cell holds the       *)
(* initial stock less the units of the reserved orders.                    *)
(***************************************************************************)
THEOREM StockIsAccounted == ASSUME ~UnverifiedWrites PROVE Spec => []StockAccounted
<1>1. Init => Accounted
  <2> SUFFICES ASSUME Init PROVE Accounted
    OBVIOUS
  <2>1. Held = {} /\ stock = InitialStock
    BY DEF Init, Held
  <2>2. Units(Wanted, Held) = {}
    BY <2>1 DEF Units
  <2>3. Cardinality(Units(Wanted, Held)) = 0
    BY <2>2, FS_EmptySet
  <2> QED
    BY <2>1, <2>3, OrdersAssumption DEF Accounted
<1>2. IndInv /\ Accounted /\ [Next]_vars => Accounted'
  BY AccountedStep
<1>3. IndInv /\ Accounted => StockAccounted
  <2> DEFINE reserved == {o \in Orders : Live(o) /\ orders[o].inv = "reserved"}
  <2> SUFFICES ASSUME IndInv, Accounted,
                      \A o \in Orders : Live(o) =>
                        orders[o].inv \notin {"reservation_pending", "release_pending"}
               PROVE  stock = InitialStock - Cardinality(UnitsOf(reserved))
    BY DEF StockAccounted
  <2>1. Held = reserved
    <3>1. \A o \in Orders : orders[o].inv \in InventoryStatuses
      BY DEF IndInv, TypeOK, Row
    <3>2. \A o \in Orders : Live(o) /\ deducts[o] # restores[o] => orders[o].inv = "reserved"
      BY <3>1 DEF IndInv, StatusMatchesStock, InventoryStatuses
    <3>3. \A o \in Orders : Live(o) /\ orders[o].inv = "reserved" => deducts[o] # restores[o]
      BY DEF IndInv, StatusMatchesStock
    <3> QED
      BY <3>2, <3>3, HeldFacts DEF Held
  <2>2. UnitsOf(reserved) = Units(Wanted, Held)
    BY <2>1 DEF UnitsOf, Units, Wanted
  <2>3. Cardinality(Units(Wanted, Held)) \in Nat
    BY HeldFacts, UnitsFinite, FS_CardinalityType DEF Held
  <2>4. stock \in Int
    BY DEF IndInv, TypeOK
  <2> HIDE DEF reserved
  <2> QED
    BY <2>2, <2>3, <2>4 DEF Accounted
<1> QED
  BY <1>1, <1>2, <1>3, SagaInvariant, PTL DEF Spec
-----------------------------------------------------------------------------
(***************************************************************************)
(* Totals.                                                                 *)
(***************************************************************************)
IsPaid(o) == orders[o].pay \in PAID_STATUSES
PaidOf(c) == {o \in Orders : Live(o) /\ orders[o].cust = c /\ IsPaid(o)}

\* customer_order_applied, the flag that keeps an order from being counted
\* twice, says whether the order counts for the customer it still has.
FlagTells ==
    \A o \in Orders : Live(o) =>
        /\ orders[o].applied => IsPaid(o)
        /\ IsPaid(o) /\ orders[o].cust # Null => orders[o].applied

LEMMA TotalsExactIs ==
    TotalsExact <=> \A c \in Customers : customers[c].live =>
                        customers[c].total = Cardinality(PaidOf(c))
BY DEF TotalsExact, PaidOf, IsPaid

LEMMA PaidFinite == \A c : IsFiniteSet(PaidOf(c)) /\ Cardinality(PaidOf(c)) \in Nat
<1> SUFFICES ASSUME NEW c PROVE IsFiniteSet(PaidOf(c)) /\ Cardinality(PaidOf(c)) \in Nat
  OBVIOUS
<1>1. PaidOf(c) \in SUBSET Orders
  BY DEF PaidOf
<1>2. IsFiniteSet(PaidOf(c))
  BY <1>1, OrdersAssumption, FS_Subset
<1> QED
  BY <1>2, FS_CardinalityType

\* The columns that payments are counted by, in the updates of a row.
LEMMA RowMoney ==
    ASSUME NEW row \in Row, NEW inv \in InventoryStatuses
    PROVE  /\ Rejected(row, inv).cust = row.cust /\ Rejected(row, inv).applied = row.applied
           /\ Reserved(row).cust = row.cust /\ Reserved(row).applied = row.applied
BY DEF Rejected, Reserved, Row

\* A row that a step leaves alone as far as payment is concerned, or inserts.
Steady(x) ==
    \/ /\ orders'[x].state = orders[x].state /\ orders'[x].cust = orders[x].cust
       /\ orders'[x].applied = orders[x].applied /\ (IsPaid(x)' <=> IsPaid(x))
    \/ ~Live(x) /\ ~IsPaid(x)' /\ ~orders'[x].applied
AllSteady == customers' = customers /\ \A x \in Orders : Steady(x)

LEMMA SteadyStep ==
    ASSUME TotalsExact, FlagTells, AllSteady
    PROVE  TotalsExact' /\ FlagTells'
<1>1. FlagTells'
  BY DEF FlagTells, AllSteady, Steady, Live, IsPaid
<1>2. \A c \in Customers : PaidOf(c)' = PaidOf(c)
  BY DEF PaidOf, AllSteady, Steady, Live, IsPaid
<1>3. customers' = customers
  BY DEF AllSteady
<1> HIDE DEF PaidOf
<1>4. \A c \in Customers : customers'[c].live => customers'[c].total = Cardinality(PaidOf(c)')
  BY <1>2, <1>3, TotalsExactIs
<1> QED
  BY <1>1, <1>4 DEF TotalsExact, PaidOf, IsPaid

LEMMA PaymentCounts ==
    ASSUME IndInv, [Next]_vars
    PROVE  \/ \E o \in Orders, pay \in VALID_PAYMENT_STATUSES, proof \in Proofs \cup {Null} :
                Live(o) /\ SetPayment(o, pay, proof)
           \/ \E o \in Orders : DeleteFinish(o)
           \/ \E c \in Customers : DeleteCustomer(c)
           \/ AllSteady
<1>1. orders \in [Orders -> Row] /\ \A x \in Orders : orders[x] \in Row
  BY DEF IndInv, TypeOK
<1>2. ASSUME NEW o \in Orders,
             CreateReuse(o) \/ Deduct(o) \/ VerifyDeduct(o) \/ Restore(o) \/ VerifyRestore(o)
      PROVE  AllSteady
  <2>1. customers' = customers /\ orders' = orders
    BY <1>2 DEF CreateReuse, Deduct, VerifyDeduct, Restore, VerifyRestore
  <2> QED
    BY <2>1 DEF AllSteady, Steady, IsPaid
<1>3. ASSUME NEW o \in Orders, NEW c \in Customers, NEW k \in Carts, CreateInsert(o, c, k)
      PROVE  AllSteady
  <2>1. /\ customers' = customers /\ ~Live(o)
        /\ \A x \in Orders \ {o} : orders'[x] = orders[x]
        /\ orders'[o].pay = "pending" /\ ~orders'[o].applied
    BY <1>1, <1>3 DEF CreateInsert, Live, FreshRow
  <2> QED
    BY <2>1 DEF AllSteady, Steady, IsPaid, PAID_STATUSES
<1>4. ASSUME NEW o \in Orders, NEW row \in Row, customers' = customers,
             orders' = [orders EXCEPT ![o] = row],
             row.state = orders[o].state, row.cust = orders[o].cust,
             row.applied = orders[o].applied,
             row.pay \in PAID_STATUSES <=> orders[o].pay \in PAID_STATUSES
      PROVE  AllSteady
  BY <1>1, <1>4 DEF AllSteady, Steady, IsPaid
<1>5. ASSUME customers' = customers, orders' = orders PROVE AllSteady
  BY <1>5 DEF AllSteady, Steady, IsPaid
<1>6. ASSUME NEW o \in Orders, NEW inv \in InventoryStatuses, customers' = customers,
             orders' = [orders EXCEPT ![o] = Rejected(@, inv)]
      PROVE  AllSteady
  <2> DEFINE row == Rejected(orders[o], inv)
  <2>1. /\ row \in Row /\ row.state = orders[o].state /\ row.cust = orders[o].cust
        /\ row.applied = orders[o].applied
        /\ row.pay = IF orders[o].pay = "pending" THEN "rejected" ELSE orders[o].pay
    BY <1>1, RowUpdates, RowMoney
  <2>2. orders' = [orders EXCEPT ![o] = row]
    BY <1>1, <1>6
  <2>3. row.pay \in PAID_STATUSES <=> orders[o].pay \in PAID_STATUSES
    BY <2>1 DEF PAID_STATUSES
  <2> HIDE DEF row
  <2> QED
    BY <1>4, <1>6, <2>1, <2>2, <2>3
<1>7. ASSUME NEW o \in Orders, Finalize(o)
      PROVE  AllSteady
  <2> DEFINE row == Reserved(orders[o])
  <2>1. /\ row \in Row /\ row.state = orders[o].state /\ row.cust = orders[o].cust
        /\ row.applied = orders[o].applied /\ row.pay = orders[o].pay
    BY <1>1, RowUpdates, RowMoney DEF InventoryStatuses
  <2>2. orders' = [orders EXCEPT ![o] = row] \/ orders' = orders
    BY <1>1, <1>7 DEF Finalize
  <2>3. customers' = customers
    BY <1>7 DEF Finalize
  <2> HIDE DEF row
  <2> QED
    BY <1>4, <1>5, <2>1, <2>2, <2>3
<1>8. ASSUME NEW o \in Orders, MarkFailed(o) \/ ReleaseFinish(o)
      PROVE  AllSteady
  BY <1>5, <1>6, <1>8 DEF MarkFailed, ReleaseFinish, InventoryStatuses
<1>9. ASSUME NEW o \in Orders, DeleteBegin(o) \/ ReleaseBegin(o) \/ Inspect(o) \/ Age(o)
      PROVE  AllSteady
  <2>1. /\ customers' = customers
        /\ \A x \in Orders : /\ orders'[x].state = orders[x].state
                             /\ orders'[x].cust = orders[x].cust
                             /\ orders'[x].applied = orders[x].applied
                             /\ orders'[x].pay = orders[x].pay
    BY <1>1, <1>9 DEF DeleteBegin, ReleaseBegin, Inspect, Age, Plan, Row
  <2> QED
    BY <2>1 DEF AllSteady, Steady, IsPaid
<1>10. ASSUME SweepSelect \/ Abandon \/ Crash \/ UNCHANGED vars
       PROVE  AllSteady
  BY <1>5, <1>10 DEF SweepSelect, Abandon, Crash, vars
<1> DEFINE Pays == \E o \in Orders, pay \in VALID_PAYMENT_STATUSES, proof \in Proofs \cup {Null} :
                     Live(o) /\ SetPayment(o, pay, proof)
<1>11. ASSUME NEW o \in Orders, NEW pay \in VALID_PAYMENT_STATUSES, AdminPayment(o, pay)
       PROVE  Pays
  <2>1. orders[o].proof \in Proofs \cup {Null}
    BY <1>1 DEF Row
  <2> QED
    BY <1>11, <2>1 DEF AdminPayment
<1>12. ASSUME NEW o \in Orders, NEW p \in Proofs, ProofPayment(o, p)
       PROVE  Pays
  <2>1. "proof_received" \in VALID_PAYMENT_STATUSES
    BY DEF VALID_PAYMENT_STATUSES, PAID_STATUSES
  <2> QED
    BY <1>12, <2>1 DEF ProofPayment
<1> DEFINE Deletes == \E o \in Orders : DeleteFinish(o)
<1> DEFINE Forgets == \E c \in Customers : DeleteCustomer(c)
<1>13. ASSUME NEW o \in Orders, DeleteFinish(o) PROVE Deletes
  BY <1>13
<1>14. ASSUME NEW c \in Customers, DeleteCustomer(c) PROVE Forgets
  BY <1>14
<1> HIDE DEF Pays, Deletes, Forgets
<1>15. ASSUME NEW o \in Orders, SectionStep(o) PROVE Deletes \/ AllSteady
  BY <1>2, <1>7, <1>8, <1>9, <1>13, <1>15 DEF SectionStep
<1>16. Pays \/ Deletes \/ Forgets \/ AllSteady
  BY <1>2, <1>3, <1>9, <1>10, <1>11, <1>12, <1>14, <1>15 DEF Next
<1> QED
  BY <1>16 DEF Pays, Deletes, Forgets

\* One order moves to a payment status, or leaves the table unpaid; the
\* customer's counter moves with it.
Recount(o, pay, stays) ==
    /\ customers' = Totals(o, pay)
    /\ \A x \in Orders \ {o} : orders'[x] = orders[x]
    /\ IF stays
         THEN /\ orders'[o].state = "live" /\ orders'[o].cust = orders[o].cust
              /\ orders'[o].pay = pay /\ orders'[o].applied = Applied(o, pay)
         ELSE orders'[o].state = "deleted" /\ pay \notin PAID_STATUSES

LEMMA RecountStep ==
    ASSUME IndInv, TotalsExact, FlagTells, NEW o \in Orders, Live(o), NEW pay,
           NEW stays \in BOOLEAN, Recount(o, pay, stays)
    PROVE  TotalsExact' /\ FlagTells'
<1>0. PICK c : c = orders[o].cust
  OBVIOUS
<1> DEFINE counted == stays /\ pay \in PAID_STATUSES
<1>1. /\ c \in Customers \cup {Null} /\ Null \notin Customers
      /\ customers \in [Customers -> [live : BOOLEAN, total : Int]]
      /\ orders[o].applied \in BOOLEAN
  BY <1>0, OrdersAssumption DEF IndInv, TypeOK, Row
<1>2. FlagTells'
  <2>1. stays /\ pay \in PAID_STATUSES => (Applied(o, pay) <=> orders[o].applied \/ c # Null)
    BY <1>0 DEF Applied
  <2>2. stays /\ pay \notin PAID_STATUSES => ~Applied(o, pay)
    BY DEF Applied
  <2>3. Live(o)' => /\ orders'[o].applied => IsPaid(o)'
                    /\ IsPaid(o)' /\ orders'[o].cust # Null => orders'[o].applied
    BY <1>0, <2>1, <2>2 DEF Recount, Live, IsPaid
  <2>4. \A x \in Orders \ {o} : orders'[x] = orders[x]
    BY DEF Recount
  <2> QED
    BY <2>3, <2>4 DEF FlagTells, Live, IsPaid
<1>3. \A d \in Customers \ {c} : customers'[d] = customers[d]
  BY <1>0, <1>1 DEF Recount, Totals
<1>4. \A d \in Customers \ {c} : PaidOf(d)' = PaidOf(d)
  BY <1>0 DEF PaidOf, Recount, Live, IsPaid
<1>5. c # Null => (orders[o].applied <=> o \in PaidOf(c))
  BY <1>0 DEF FlagTells, PaidOf
<1>6. PaidOf(c)' = IF counted THEN PaidOf(c) \cup {o} ELSE PaidOf(c) \ {o}
  BY <1>0 DEF PaidOf, Recount, Live, IsPaid
<1>7. ASSUME c \in Customers, customers'[c].live
      PROVE  customers'[c].total = Cardinality(PaidOf(c)')
  <2> DEFINE paid == PaidOf(c)
  <2>1. /\ IsFiniteSet(paid) /\ Cardinality(paid) \in Nat
        /\ o \in paid => Cardinality(paid) # 0
    BY PaidFinite, FS_EmptySet
  <2>2. /\ Cardinality(paid \cup {o}) = IF o \in paid THEN Cardinality(paid) ELSE Cardinality(paid) + 1
        /\ Cardinality(paid \ {o}) = IF o \in paid THEN Cardinality(paid) - 1 ELSE Cardinality(paid)
    <3> HIDE DEF paid
    <3> QED
      BY <2>1, FS_AddElement, FS_RemoveElement
  <2>3. c # Null
    BY <1>1, <1>7
  <2>4. customers[c].live
    BY <1>0, <1>1, <1>7 DEF Recount, Totals
  <2>5. customers[c].total = Cardinality(paid) /\ customers[c].total \in Int
    BY <1>1, <1>7, <2>4, TotalsExactIs
  <2>6. CASE counted
    <3>1. customers'[c].total =
            IF orders[o].applied THEN customers[c].total ELSE customers[c].total + 1
      BY <1>0, <1>1, <1>7, <2>3, <2>6 DEF Recount, Totals
    <3>2. PaidOf(c)' = paid \cup {o}
      BY <1>6, <2>6
    <3> HIDE DEF paid
    <3> QED
      BY <1>5, <2>1, <2>2, <2>3, <2>5, <3>1, <3>2 DEF paid
  <2>7. CASE ~counted
    <3>1. pay \notin PAID_STATUSES
      BY <2>7 DEF Recount
    <3>2. customers'[c].total =
            IF orders[o].applied
              THEN IF customers[c].total > 0 THEN customers[c].total - 1 ELSE 0
              ELSE customers[c].total
      BY <1>0, <1>1, <1>7, <2>3, <3>1 DEF Recount, Totals
    <3>3. PaidOf(c)' = paid \ {o}
      BY <1>6, <2>7
    <3>4. orders[o].applied <=> o \in paid
      BY <1>5, <2>3
    <3> HIDE DEF paid
    <3> QED
      BY <2>1, <2>2, <2>5, <3>2, <3>3, <3>4
  <2> QED
    BY <2>6, <2>7
<1>8. \A d \in Customers : customers'[d].live => customers'[d].total = Cardinality(PaidOf(d)')
  <2> SUFFICES ASSUME NEW d \in Customers, customers'[d].live
               PROVE  customers'[d].total = Cardinality(PaidOf(d)')
    OBVIOUS
  <2>1. CASE d = c
    BY <1>7, <2>1
  <2>2. CASE d # c
    BY <1>3, <1>4, <2>2, TotalsExactIs
  <2> QED
    BY <2>1, <2>2
<1> QED
  BY <1>2, <1>8 DEF TotalsExact, PaidOf, IsPaid

LEMMA TotalsStep ==
    ASSUME IndInv, TotalsExact, FlagTells, [Next]_vars
    PROVE  TotalsExact' /\ FlagTells'
<1>1. orders \in [Orders -> Row] /\ \A x \in Orders : orders[x] \in Row
  BY DEF IndInv, TypeOK
<1>2. ASSUME NEW o \in Orders, NEW pay \in VALID_PAYMENT_STATUSES,
             NEW proof \in Proofs \cup {Null}, Live(o), SetPayment(o, pay, proof)
      PROVE  TotalsExact' /\ FlagTells'
  <2>1. Applied(o, pay) \in BOOLEAN
    BY <1>1 DEF Applied, Row
  <2>2. Recount(o, pay, TRUE)
    <3> DEFINE row == [orders[o] EXCEPT !.pay = pay, !.proof = proof, !.applied = Applied(o, pay)]
    <3>1. /\ row.state = orders[o].state /\ row.cust = orders[o].cust
          /\ row.pay = pay /\ row.applied = Applied(o, pay)
      BY <1>1 DEF Row
    <3>2. orders' = [orders EXCEPT ![o] = row] /\ customers' = Totals(o, pay)
      BY <1>1, <1>2 DEF SetPayment
    <3> HIDE DEF row
    <3>3. orders'[o] = row /\ \A x \in Orders \ {o} : orders'[x] = orders[x]
      BY <1>1, <3>2
    <3> QED
      BY <1>2, <3>1, <3>2, <3>3 DEF Recount, Live
  <2> QED
    BY <1>2, <2>2, RecountStep
<1>3. ASSUME NEW o \in Orders, DeleteFinish(o)
      PROVE  TotalsExact' /\ FlagTells'
  <2>1. Live(o)
    <3>1. At(o, "finish") /\ "finish" \in Steps
      BY <1>3 DEF DeleteFinish, Steps
    <3> QED
      BY <3>1, AtStep DEF IndInv, SectionKnows
  <2>2. Recount(o, "rejected", FALSE)
    BY <1>1, <1>3 DEF DeleteFinish, Recount, FreshRow, PAID_STATUSES
  <2> QED
    BY <2>1, <2>2, RecountStep
<1>4. ASSUME NEW c \in Customers, DeleteCustomer(c)
      PROVE  TotalsExact' /\ FlagTells'
  <2>1. \A x \in Orders : /\ orders'[x].state = orders[x].state
                          /\ orders'[x].pay = orders[x].pay
                          /\ orders'[x].applied = orders[x].applied
                          /\ orders'[x].cust = IF orders[x].cust = c THEN Null ELSE orders[x].cust
    BY <1>1, <1>4 DEF DeleteCustomer, Row
  <2>2. FlagTells'
    BY <2>1 DEF FlagTells, Live, IsPaid
  <2>3. \A d \in Customers \ {c} : customers'[d] = customers[d]
    BY <1>4 DEF DeleteCustomer, IndInv, TypeOK
  <2>4. ~customers'[c].live
    BY <1>4 DEF DeleteCustomer, IndInv, TypeOK
  <2>5. \A d \in Customers \ {c} : PaidOf(d)' = PaidOf(d)
    BY <2>1, OrdersAssumption DEF PaidOf, Live, IsPaid
  <2>6. \A d \in Customers : customers'[d].live => customers'[d].total = Cardinality(PaidOf(d)')
    BY <2>3, <2>4, <2>5, TotalsExactIs
  <2> QED
    BY <2>2, <2>6 DEF TotalsExact, PaidOf, IsPaid
<1> QED
  BY <1>2, <1>3, <1>4, SteadyStep, PaymentCounts

(***************************************************************************)
(* customers.total_orders is the number of the customer's paid orders,     *)
(* whatever the order of proofs, confirmations, reversals and deletions.   *)
(***************************************************************************)
THEOREM TotalsAreExact == ASSUME ~UnverifiedWrites PROVE Spec => []TotalsExact
<1>1. Init => TotalsExact /\ FlagTells
  <2> SUFFICES ASSUME Init PROVE TotalsExact /\ FlagTells
    OBVIOUS
  <2>1. orders \in [Orders -> {FreshRow} \cup {LegacyRow(c, k) : c \in Customers, k \in Carts}]
    BY DEF Init
  <2>2. \A x \in Orders : ~IsPaid(x)
    BY <2>1, InitialRows DEF IsPaid, PAID_STATUSES
  <2>3. \A x \in Orders : ~orders[x].applied
    <3>1. /\ ~FreshRow.applied
          /\ \A c \in Customers, k \in Carts : ~LegacyRow(c, k).applied
      BY DEF FreshRow, LegacyRow
    <3> QED
      BY <2>1, <3>1
  <2>4. \A c \in Customers : PaidOf(c) = {} /\ customers[c].total = 0
    BY <2>2 DEF PaidOf, Init
  <2>5. TotalsExact
    BY <2>4, FS_EmptySet, TotalsExactIs
  <2> QED
    BY <2>2, <2>3, <2>5 DEF FlagTells
<1>2. IndInv /\ TotalsExact /\ FlagTells /\ [Next]_vars => (TotalsExact /\ FlagTells)'
  BY TotalsStep
<1> QED
  BY <1>1, <1>2, SagaInvariant, PTL DEF Spec
=============================================================================
