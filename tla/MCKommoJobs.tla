---------------------------- MODULE MCKommoJobs ----------------------------
(* Two chats of one lead, each with a contact of its own.                  *)
EXTENDS KommoJobs, TLC
CONSTANTS w1, w2

TwoChats == [m \in Messages |-> IF m % 2 = 1 THEN "a" ELSE "b"]
OneChat == [m \in Messages |-> "a"]
MCLeadOf == [c \in Chats |-> "lead"]
MCContactOf == [c \in Chats |-> c]
Symmetry == Permutations(Workers)
=============================================================================
