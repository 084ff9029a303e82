----------------------------- MODULE SettleOnce -----------------------------
(***************************************************************************)
(* What the request tables of the code promise their callers: every request*)
(* that was accepted is settled, once, with an answer or with a failure.   *)
(* The clients of language servers and MCP servers, their manager and the  *)
(* broker of replies are shown to implement it.                            *)
(***************************************************************************)
CONSTANTS Requests
VARIABLE status   \* of each request

Settled == {"answered", "failed"}

Init == status = [r \in Requests |-> "idle"]

(* The request is made; a request that cannot be accepted fails at once,    *)
(* one that needs no waiting is answered at once.                           *)
Ask(r) == /\ status[r] = "idle"
          /\ \E s \in {"pending"} \cup Settled : status' = [status EXCEPT ![r] = s]

(* One event (the end of a process, a shutdown) may settle several.         *)
Settle == \E R \in SUBSET {r \in Requests : status[r] = "pending"} :
            \E out \in [R -> Settled] :
              /\ R # {}
              /\ status' = [r \in Requests |-> IF r \in R THEN out[r] ELSE status[r]]

Next == Settle \/ \E r \in Requests : Ask(r)

(* No pending request is forgotten. *)
NoneForgotten == \A r \in Requests : status[r] = "pending" ~> status[r] \in Settled

Spec == Init /\ [][Next]_status /\ NoneForgotten
=============================================================================
