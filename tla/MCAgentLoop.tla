----------------------------- MODULE MCAgentLoop -----------------------------
(* TLC instances of AgentLoop. *)
EXTENDS AgentLoop

CONSTANTS read, edit, skill

(* One call, two that may run side by side, and one that may not.           *)
MCBatches == {<<read>>, <<read, skill>>, <<skill, edit>>}
=============================================================================
