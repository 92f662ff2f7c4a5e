--------------------------- MODULE MCMetaInbound ---------------------------
(* MetaInbound on a small instance for TLC: two messages of one sender.    *)
EXTENDS MetaInbound
CONSTANTS s1, w1, w2

FromOne == [m \in Messages |-> s1]
=============================================================================
