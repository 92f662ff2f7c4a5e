------------------------------- MODULE MCTurns -------------------------------
(* A customer beside a person who pauses, and one who buys.                *)
EXTENDS Turns

CONSTANTS t1, t2

\* Two concurrent turns, a comment beside a private message or a turn whose
\* lease another worker took over, or one turn after the other.
Pausing(provider, turns, kinds, interventions, errors) ==
    [provider |-> provider, agents |-> "legacy", tasks |-> turns, kinds |-> kinds,
     tools |-> {"escalate"}, messages |-> 2, people |-> interventions, faults |-> errors]

\* One turn after the other, as the leases of a conversation make them.
Buying(agents, tools, texts) ==
    [provider |-> "meta", agents |-> agents, tasks |-> {t1}, kinds |-> {"talk", "proof"},
     tools |-> tools, messages |-> texts, people |-> 0, faults |-> 1]

MCScopes ==
    {Pausing("kommo", {t1, t2}, {"human", "simple"}, 1, 1),
     Pausing("kommo", {t1}, {"human", "talk"}, 2, 1),
     Pausing("meta", {t1, t2}, {"talk", "simple"}, 2, 0),
     Buying("multi_agent", {"draft", "finalize", "cancel", "handoff"}, 3),
     Buying("legacy", {"draft", "finalize", "create"}, 2)}

ASSUME MCAssumption == BuysAlone
=============================================================================
