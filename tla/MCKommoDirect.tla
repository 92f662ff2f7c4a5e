--------------------------- MODULE MCKommoDirect ---------------------------
(* Either one message with two tasks, a fault and a comment it may mirror, *)
(* or two messages, the second held back by the first.                     *)
EXTENDS KommoDirect
CONSTANTS w1, w2

MCScopes ==
    {[jobs |-> {1}, tasks |-> Workers, mirrors |-> {1}, faults |-> 1],
     [jobs |-> Jobs, tasks |-> {w1}, mirrors |-> {}, faults |-> 0]}
=============================================================================
