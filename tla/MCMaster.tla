------------------------------ MODULE MCMaster ------------------------------
(* One store that may move between two databases; two environments.        *)
EXTENDS Master

CONSTANTS openai, anthropic

MCPatches == {[provider |-> openai, auto |-> FALSE], [model |-> <<anthropic, 2>>]}
=============================================================================
