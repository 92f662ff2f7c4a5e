------------------------------ MODULE Answers ------------------------------
(***************************************************************************)
(* What the store promises a customer who writes, whichever channel the    *)
(* message takes: it is accepted, answered once at most, in the order of   *)
(* its chat, and closed for good.  The provider alone can undo an answer,  *)
(* by saying that it never arrived.  The queues implement this: each one   *)
(* has a PROPERTY that maps its rows and what the customer received to     *)
(* these variables.                                                        *)
(***************************************************************************)
EXTENDS Naturals

CONSTANTS Newest,  \* messages, numbered by arrival
          ChatOf   \* the chat of each message

VARIABLES phase,   \* of each message: not accepted yet, open or closed
          copies   \* answers to it that the customer has received

Messages == 1..Newest
Earlier(m) == {i \in 1..(m - 1) : ChatOf[i] = ChatOf[m]}

Init ==
    /\ phase = [m \in Messages |-> "none"]
    /\ copies = [m \in Messages |-> 0]

\* A message is accepted, unless an earlier one of its chat is still unknown.
Accept(m) ==
    /\ phase[m] = "none" /\ \A i \in Earlier(m) : phase[i] # "none"
    /\ phase' = [phase EXCEPT ![m] = "open"]
    /\ UNCHANGED copies

\* One answer to a batch: it leaves no earlier message of the chat behind
\* open.  A late task may still answer a message that was closed.
Answer(batch) ==
    /\ UNCHANGED phase
    /\ \A m \in batch :
         /\ phase[m] # "none" /\ copies[m] = 0
         /\ \A i \in Earlier(m) \ batch : phase[i] = "closed"
    /\ copies' = [m \in Messages |-> IF m \in batch THEN 1 ELSE copies[m]]

\* The provider reports that the answer did not arrive.
Undelivered(m) ==
    /\ copies[m] = 1
    /\ copies' = [copies EXCEPT ![m] = 0]
    /\ UNCHANGED phase

Close(batch) ==
    /\ UNCHANGED copies
    /\ \A m \in batch : phase[m] = "open"
    /\ phase' = [m \in Messages |-> IF m \in batch THEN "closed" ELSE phase[m]]

Next ==
    \/ \E m \in Messages : Accept(m) \/ Undelivered(m)
    \/ \E batch \in (SUBSET Messages) \ {{}} : Answer(batch) \/ Close(batch)

Spec == Init /\ [][Next]_<<phase, copies>>
=============================================================================
