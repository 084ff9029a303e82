----------------------------- MODULE AtomicStore -----------------------------
(***************************************************************************)
(* What a store of sessions or of artifacts promises: a call takes effect  *)
(* at once, between the call and its answer.  A session is created at most *)
(* once and saved only after that, an artifact may be put again; a call    *)
(* that failed has changed nothing, one whose answer was lost has taken    *)
(* effect; a restart drops the calls under way and, in a volatile store,   *)
(* what it held.                                                           *)
(***************************************************************************)
CONSTANTS Callers, Keys, Values, None

VARIABLES
  map,       \* the value of each key, or None
  request    \* the call of each caller and its answer

atomicVars == <<map, request>>

Ops == {"create", "save", "put"}

AtomicInit == map = [k \in Keys |-> None] /\ request = [c \in Callers |-> None]

Pending(c) == request[c] # None /\ request[c].answer = "pending"
Answer(c, a) == request' = [request EXCEPT ![c].answer = a]

Ask(c) ==
  /\ ~Pending(c)
  /\ \E op \in Ops, k \in Keys, v \in Values :
       request' = [request EXCEPT ![c] = [op |-> op, key |-> k, value |-> v, answer |-> "pending"]]
  /\ UNCHANGED map

(* create takes a free key, save one that is taken, put any. *)
Fits(r) == r.op = "put" \/ ((r.op = "create") <=> (map[r.key] = None))

Perform(c) ==
  /\ Pending(c)
  /\ IF Fits(request[c])
     THEN /\ map' = [map EXCEPT ![request[c].key] = request[c].value]
          /\ Answer(c, "ok") \/ Answer(c, "lost")
     ELSE Answer(c, "refused") /\ UNCHANGED map

Fail(c) == Pending(c) /\ Answer(c, "failed") /\ UNCHANGED map

Restart ==
  /\ request' = [c \in Callers |-> None]
  /\ map' \in {map, [k \in Keys |-> None]}

AtomicNext == Restart \/ \E c \in Callers : Ask(c) \/ Perform(c) \/ Fail(c)

AtomicSpec == AtomicInit /\ [][AtomicNext]_atomicVars
=============================================================================
