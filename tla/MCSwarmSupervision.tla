------------------------- MODULE MCSwarmSupervision -------------------------
(* TLC instances of SwarmSupervision. *)
EXTENDS SwarmSupervision

CONSTANTS a1, a2, r1, r2, s1

MCCaps == [a \in Agents |-> {s1}]
MCHandsOffTo == [a \in Agents |-> Agents \ {a}]
MCRecursionLimit == [r \in Runs |-> IF r = r1 THEN 4 ELSE 2]
MCMaxCalls == [r \in Runs |-> IF r = r1 THEN 1 ELSE 2]
MCHasRetryDelay == [a \in Agents |-> a = a1]
MCMaxConcurrency == [a \in Agents |-> IF a = a1 THEN 2 ELSE 1]
=============================================================================
