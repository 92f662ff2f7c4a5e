--------------------------- MODULE MCMetaContext ---------------------------
(* Two events and two jobs, well apart, crossed, alike, or a text that was *)
(* sent twice; or one of each, with every kind of content, changes of the  *)
(* mappings, aged events and a crash.                                      *)
EXTENDS MetaContext
CONSTANTS e1, e2, j1, j2, t1, t2

Table(a, b, c, d) ==
    [p \in Events \X Jobs |-> CASE p = <<e1, j1>> -> a [] p = <<e1, j2>> -> b
                                [] p = <<e2, j1>> -> c [] p = <<e2, j2>> -> d]
Pairs(table) ==
    [events |-> Events, jobs |-> Jobs, tasks |-> Tasks, story |-> TRUE,
     signals |-> table, content |-> "id", edits |-> 0, ages |-> 0, crashes |-> 0]
One(running, replies, first, changes, faults) ==
    [events |-> {e1}, jobs |-> {j1}, tasks |-> running, story |-> replies,
     signals |-> Table({"text"}, {}, {}, {}),
     content |-> first, edits |-> changes, ages |-> faults, crashes |-> faults]

MCScopes ==
    {Pairs(Table({"identity", "text", "5s"}, {"text"}, {"text"}, {"username", "text", "15s"})),
     Pairs(Table({"text"}, {"text", "stranger"}, {"text", "username"}, {"text"})),
     Pairs(Table({"text"}, {"text"}, {"text"}, {"text"})),
     Pairs(Table({"text", "twice"}, {}, {"text", "identity"}, {"text", "stranger"})),
     One(Tasks, FALSE, "url", 0, 0), One({t1}, FALSE, "other", 1, 0),
     One({t1}, FALSE, "many", 0, 0),
     One({t1}, FALSE, "id", 1, 0), One(Tasks, TRUE, "none", 1, 1)}
=============================================================================
