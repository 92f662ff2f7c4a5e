------------------------------ MODULE MCDrafts ------------------------------
(***************************************************************************)
(* Product a in one presentation, product b in two and in two colours of   *)
(* one of them; two cities.  The SKU a1 is part of the SKU b10, so a1      *)
(* finds both rows.                                                        *)
(***************************************************************************)
EXTENDS Drafts, TLC

CONSTANTS a, b, a1, b10, b3, b2, s, m, near, far, zone, mrw

MCFoundBy == (a :> {a1}) @@ (b :> {b10, b3, b2}) @@ (a1 :> {a1, b10})
             @@ (b10 :> {b10}) @@ (b3 :> {b3}) @@ (b2 :> {b2})
MCPlace == (a1 :> 1) @@ (b10 :> 2) @@ (b3 :> 3) @@ (b2 :> 4)
MCSizeOf == (a1 :> s) @@ (b10 :> s) @@ (b3 :> s) @@ (b2 :> m)
MCKin == (a1 :> {}) @@ (b10 :> {b3, b2}) @@ (b3 :> {b10, b2}) @@ (b2 :> {b10, b3})

Fields1(patch) == [list |-> FALSE, saved |-> FALSE, patch |-> patch]
MCUpdates ==
    {Fields1([query |-> a]), Fields1([query |-> b, size |-> s]), Fields1([size |-> m]),
     Fields1([sku |-> a1, size |-> s]), Fields1([sku |-> b2]),
     Fields1([city |-> far, method |-> mrw, agency |-> "agency"]),
     Fields1([city |-> near, zone |-> zone]), Fields1([city |-> far]),
     Fields1([address |-> "street", pay |-> "zelle", qty |-> 1]),
     [list |-> TRUE, saved |-> FALSE, patch |-> [query |-> a, qty |-> 2, pay |-> "zelle"]],
     [list |-> TRUE, saved |-> FALSE, patch |-> [sku |-> b3, qty |-> 1, pay |-> "zelle"]],
     [list |-> FALSE, saved |-> TRUE, patch |-> [pay |-> "zelle"]]}
MCArgs ==
    {[Empty EXCEPT !.query = a, !.sku = a1, !.size = s, !.qty = 1, !.city = far,
                   !.method = mrw, !.agency = "agency", !.pay = "zelle"]}
=============================================================================
