---------------------------- MODULE MCAgentPool ----------------------------
(* TLC instances of AgentPool. *)
EXTENDS AgentPool

CONSTANTS a1, a2, r1, r2, r3

(* One urgent request among normal ones; one slot takes two at a time.      *)
MCPriority == [r \in Requests |-> IF r = r3 THEN 0 ELSE 2]
MCMaxConcurrency == [a \in Agents |-> IF a = a1 THEN 2 ELSE 1]
=============================================================================
