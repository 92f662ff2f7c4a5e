------------------------------ MODULE MCOrders ------------------------------
(* Orders on small instances for TLC.                                      *)
EXTENDS Orders, TLC
CONSTANTS o1, o2, c1, cart, h1, h2, r1

MCQty == (cart :> 2)
\* Two screenshots of the same transfer.
MCProofs == {[hash |-> h1, ref |-> r1], [hash |-> h2, ref |-> r1]}
Symmetry == Permutations(Orders)
=============================================================================
