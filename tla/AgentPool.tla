----------------------------- MODULE AgentPool -----------------------------
(***************************************************************************)
(* AgentPool (src/src/swarm/pool.ts): equivalent agents behind one         *)
(* invoke(), with a priority queue for requests that find every slot at    *)
(* its maxConcurrency, slots added and removed while requests run, retries *)
(* with a delay, and dispose().                                            *)
(*                                                                         *)
(* JavaScript runs each handler to its next await: an action is one such   *)
(* segment.  The drain loop of addSlots is a single segment of several     *)
(* dispatches; while it runs (draining) nothing else may.                  *)
(***************************************************************************)
EXTENDS Integers, Sequences, FiniteSets

CONSTANTS
  Agents,          \* agent ids; the slot of an agent is named by its id
  InitialAgents,   \* the agents given to the constructor
  Removable,       \* agents that removeSlots is called with
  Requests,        \* invoke() calls
  Priority,        \* PRIORITY_ORDER of each request, 0 (critical) .. 3 (low)
  MaxConcurrency,  \* agent.maxConcurrency ?? 1
  MaxRetries,      \* agent.maxRetries ?? 0
  HasRetryDelay,   \* agent.retryDelayMs > 0
  LeastBusy,       \* strategy "least-busy"; otherwise any available slot
  MaxQueueDepth,
  NoSlot           \* "runs on no slot"

ASSUME AgentPoolAssumption ==
  /\ InitialAgents # {} /\ InitialAgents \subseteq Agents
  /\ Removable \subseteq Agents
  /\ IsFiniteSet(Requests)
  /\ Priority \in [Requests -> 0..3]
  /\ MaxConcurrency \in [Agents -> Nat \ {0}]
  /\ MaxRetries \in Nat
  /\ MaxQueueDepth \in Nat
  /\ NoSlot \notin Agents
  /\ HasRetryDelay \in BOOLEAN /\ LeastBusy \in BOOLEAN

VARIABLES
  slots,           \* the agents that have a slot
  activeTasks,     \* slot.activeTasks
  pendingRemoval,  \* _pendingRemoval
  queue,           \* queued requests in dispatch order
  disposed,        \* _disposed
  phase,           \* where each request is
  slotOf,          \* the slot it runs on
  attempt,         \* its retry loop counter
  draining         \* the loop of addSlots is running

poolVars == <<slots, activeTasks, pendingRemoval, queue, disposed, draining>>
vars == <<poolVars, phase, slotOf, attempt>>

(* Awaits of runOnSlot: the three hooks, the agent and the retry delay. *)
InFlight == {"starting", "invoking", "sleeping", "completing", "failing"}
Settled == {"ok", "failed", "disposed", "rejected_full", "rejected_disposed"}

TypeOK ==
  /\ slots \subseteq Agents
  /\ activeTasks \in [Agents -> Nat]
  /\ pendingRemoval \subseteq Agents
  /\ queue \in Seq(Requests)
  /\ disposed \in BOOLEAN
  /\ phase \in [Requests -> {"idle", "queued"} \cup InFlight \cup Settled]
  /\ slotOf \in [Requests -> Agents \cup {NoSlot}]
  /\ attempt \in [Requests -> 0..MaxRetries]
  /\ draining \in BOOLEAN

Init ==
  /\ slots = InitialAgents
  /\ activeTasks = [a \in Agents |-> 0]
  /\ pendingRemoval = {}
  /\ queue = <<>>
  /\ disposed = FALSE
  /\ phase = [r \in Requests |-> "idle"]
  /\ slotOf = [r \in Requests |-> NoSlot]
  /\ attempt = [r \in Requests |-> 0]
  /\ draining = FALSE

-----------------------------------------------------------------------------

(* The filter of pickSlot. *)
Available(S, active, pending) ==
  {a \in S : active[a] < MaxConcurrency[a] /\ a \notin pending}

(* The slots pickSlot may return; its order among equals is left open. *)
Pickable(S, active, pending) ==
  LET avail == Available(S, active, pending)
  IN  IF LeastBusy THEN {a \in avail : \A b \in avail : active[a] <= active[b]}
      ELSE avail

InsertedAt(q, k, r) ==
  [i \in 1..(Len(q) + 1) |-> IF i < k THEN q[i] ELSE IF i = k THEN r ELSE q[i - 1]]

(* queue.push followed by the stable sort: behind its equals, ahead of the  *)
(* less urgent.                                                             *)
Enqueue(q, r, q2) ==
  \E k \in 1..(Len(q) + 1) :
    /\ \A i \in 1..Len(q) : i < k <=> Priority[q[i]] <= Priority[r]
    /\ q2 = InsertedAt(q, k, r)

(* runOnSlot up to its first await. *)
RunOnSlot(r, a) ==
  /\ phase' = [phase EXCEPT ![r] = "starting"]
  /\ slotOf' = [slotOf EXCEPT ![r] = a]
  /\ attempt' = [attempt EXCEPT ![r] = 0]

Settle(r, how) ==
  /\ phase' = [phase EXCEPT ![r] = how]
  /\ UNCHANGED <<slotOf, attempt>>

-----------------------------------------------------------------------------
(* invoke(input, config, priority) *)
InvokeRejected(r) ==
  /\ ~draining /\ phase[r] = "idle"
  /\ \/ disposed /\ Settle(r, "rejected_disposed")
     \/ /\ ~disposed
        /\ Pickable(slots, activeTasks, pendingRemoval) = {}
        /\ Len(queue) >= MaxQueueDepth
        /\ Settle(r, "rejected_full")
  /\ UNCHANGED poolVars

InvokeRuns(r, a) ==
  /\ ~draining /\ phase[r] = "idle" /\ ~disposed
  /\ a \in Pickable(slots, activeTasks, pendingRemoval)
  /\ activeTasks' = [activeTasks EXCEPT ![a] = @ + 1]
  /\ RunOnSlot(r, a)
  /\ UNCHANGED <<slots, pendingRemoval, queue, disposed, draining>>

InvokeQueues(r) ==
  /\ ~draining /\ phase[r] = "idle" /\ ~disposed
  /\ Pickable(slots, activeTasks, pendingRemoval) = {}
  /\ Len(queue) < MaxQueueDepth
  /\ Enqueue(queue, r, queue')
  /\ Settle(r, "queued")
  /\ UNCHANGED <<slots, activeTasks, pendingRemoval, disposed, draining>>

-----------------------------------------------------------------------------
(* runOnSlot between its awaits *)

HookStartDone(r) ==
  /\ ~draining /\ phase[r] = "starting"
  /\ Settle(r, "invoking")
  /\ UNCHANGED poolVars

AgentSucceeds(r) ==
  /\ ~draining /\ phase[r] = "invoking"
  /\ Settle(r, "completing")
  /\ UNCHANGED poolVars

MayRetry(r) == attempt[r] < MaxRetries

(* The agent throws or runWithTimeout rejects. *)
AgentFails(r) ==
  /\ ~draining /\ phase[r] = "invoking"
  /\ IF MayRetry(r)
       THEN IF HasRetryDelay
              THEN Settle(r, "sleeping")
              ELSE /\ attempt' = [attempt EXCEPT ![r] = @ + 1]
                   /\ UNCHANGED <<phase, slotOf>>
       ELSE Settle(r, "failing")
  /\ UNCHANGED poolVars

(* The delay ends while the pool is alive. *)
RetryDelayOver(r) ==
  /\ ~draining /\ phase[r] = "sleeping" /\ ~disposed
  /\ phase' = [phase EXCEPT ![r] = "invoking"]
  /\ attempt' = [attempt EXCEPT ![r] = @ + 1]
  /\ UNCHANGED <<poolVars, slotOf>>

(* Mutant: dispose() does not wake requests that sleep before a retry. *)
FinishesAwake(r, p, how) ==
  \/ p = "completing" /\ how = "ok"
  \/ p = "failing" /\ how = "failed"

(* The end of runOnSlot that the request takes out of phase p. *)
Finishes(r, p, how) ==
  \/ p = "completing" /\ how = "ok"
  \/ p = "failing" /\ how = "failed"
  \/ p = "sleeping" /\ disposed /\ how = "disposed"

(* Deferred eviction: the last task of a slot marked for removal ends. *)
Evicts(a) == activeTasks[a] = 1 /\ a \in pendingRemoval

Release(r, how) ==
  [phase EXCEPT ![r] = how]

(* finally: release the slot with nobody waiting. *)
FinishIdle(r, how) ==
  LET a == slotOf[r] IN
  /\ ~draining /\ Finishes(r, phase[r], how)
  /\ queue = <<>>
  /\ activeTasks' = [activeTasks EXCEPT ![a] = @ - 1]
  /\ pendingRemoval' = IF Evicts(a) THEN pendingRemoval \ {a} ELSE pendingRemoval
  /\ slots' = IF Evicts(a) THEN slots \ {a} ELSE slots
  /\ phase' = Release(r, how)
  /\ slotOf' = [slotOf EXCEPT ![r] = NoSlot]
  /\ UNCHANGED <<queue, disposed, draining, attempt>>

(* Mutant: the newest waiting request is served instead of the first. *)
FinishHandsOverLast(r, how) ==
  LET a == slotOf[r]
      n == queue[Len(queue)]
  IN
  /\ ~draining /\ Finishes(r, phase[r], how)
  /\ queue # <<>> /\ ~Evicts(a)
  /\ phase' = [Release(r, how) EXCEPT ![n] = "starting"]
  /\ slotOf' = [slotOf EXCEPT ![r] = NoSlot, ![n] = a]
  /\ attempt' = [attempt EXCEPT ![n] = 0]
  /\ queue' = SubSeq(queue, 1, Len(queue) - 1)
  /\ UNCHANGED <<slots, activeTasks, pendingRemoval, disposed, draining>>

(* finally: the slot is still in the pool and takes the head of the queue  *)
(* itself, without asking pickSlot.                                        *)
FinishHandsOver(r, how) ==
  LET a == slotOf[r]
      n == Head(queue)
  IN
  /\ ~draining /\ Finishes(r, phase[r], how)
  /\ queue # <<>> /\ ~Evicts(a)
  /\ phase' = [Release(r, how) EXCEPT ![n] = "starting"]
  /\ slotOf' = [slotOf EXCEPT ![r] = NoSlot, ![n] = a]
  /\ attempt' = [attempt EXCEPT ![n] = 0]
  /\ queue' = Tail(queue)
  /\ UNCHANGED <<slots, activeTasks, pendingRemoval, disposed, draining>>

(* Mutant: the depth is checked as if the request were still in the queue. *)
InvokedAgainWithItself(a) ==
  IF disposed THEN "rejected_disposed"
  ELSE IF Pickable(slots \ {a}, activeTasks, pendingRemoval) # {} THEN "starting"
  ELSE IF Len(queue) >= MaxQueueDepth THEN "rejected_full"
  ELSE "queued"

(* What invoke() does with the head that was just shifted off the queue of  *)
(* a pool that has lost slot a: every check of a first invoke(), in order.  *)
InvokedAgain(a) ==
  IF disposed THEN "rejected_disposed"
  ELSE IF Pickable(slots \ {a}, activeTasks, pendingRemoval) # {} THEN "starting"
  ELSE IF Len(Tail(queue)) >= MaxQueueDepth THEN "rejected_full"
  ELSE "queued"

(* finally: the slot is evicted and the head of the queue goes through      *)
(* invoke() again: onto another slot, back into the queue or away.          *)
FinishEvicts(r, how) ==
  LET a == slotOf[r]
      n == Head(queue)
      fate == InvokedAgain(a)
      released == [activeTasks EXCEPT ![a] = @ - 1]
  IN
  /\ ~draining /\ Finishes(r, phase[r], how)
  /\ queue # <<>> /\ Evicts(a)
  /\ slots' = slots \ {a}
  /\ pendingRemoval' = pendingRemoval \ {a}
  /\ phase' = [Release(r, how) EXCEPT ![n] = fate]
  /\ IF fate = "queued" THEN Enqueue(Tail(queue), n, queue') ELSE queue' = Tail(queue)
  /\ IF fate = "starting"
       THEN \E b \in Pickable(slots \ {a}, activeTasks, pendingRemoval) :
              /\ activeTasks' = [released EXCEPT ![b] = @ + 1]
              /\ slotOf' = [slotOf EXCEPT ![r] = NoSlot, ![n] = b]
              /\ attempt' = [attempt EXCEPT ![n] = 0]
       ELSE /\ activeTasks' = released
            /\ slotOf' = [slotOf EXCEPT ![r] = NoSlot]
            /\ UNCHANGED attempt
  /\ UNCHANGED <<disposed, draining>>

-----------------------------------------------------------------------------
(* addSlots(agents): all new, then the drain loop. *)
AddSlots(A) ==
  /\ ~draining /\ A # {} /\ A \cap slots = {}
  /\ slots' = slots \cup A
  /\ draining' = TRUE
  /\ UNCHANGED <<activeTasks, pendingRemoval, queue, disposed, phase, slotOf, attempt>>

DrainStep(a) ==
  /\ draining /\ queue # <<>>
  /\ a \in Pickable(slots, activeTasks, pendingRemoval)
  /\ activeTasks' = [activeTasks EXCEPT ![a] = @ + 1]
  /\ RunOnSlot(Head(queue), a)
  /\ queue' = Tail(queue)
  /\ UNCHANGED <<slots, pendingRemoval, disposed, draining>>

(* Mutant: addSlots does not drain the queue. *)
DrainEndsEarly ==
  /\ draining
  /\ draining' = FALSE
  /\ UNCHANGED <<slots, activeTasks, pendingRemoval, queue, disposed,
                 phase, slotOf, attempt>>

DrainEnds ==
  /\ draining
  /\ queue = <<>> \/ Pickable(slots, activeTasks, pendingRemoval) = {}
  /\ draining' = FALSE
  /\ UNCHANGED <<slots, activeTasks, pendingRemoval, queue, disposed,
                 phase, slotOf, attempt>>

Busy(A) == {a \in A : activeTasks[a] > 0}

(* removeSlots(ids): idle slots go now, busy ones when they drain; removing *)
(* every slot at once throws.                                               *)
RemoveSlots(A) ==
  LET S == slots \cap A IN
  /\ ~draining /\ A # {}
  /\ (slots \ S) \cup Busy(S) # {}
  /\ slots' = (slots \ S) \cup Busy(S)
  /\ pendingRemoval' = (pendingRemoval \ S) \cup Busy(S)
  /\ UNCHANGED <<activeTasks, queue, disposed, draining, phase, slotOf, attempt>>

(* dispose(): queued requests are rejected, sleepers are woken (their next  *)
(* step is Finish*("disposed")), running agents are left to finish.         *)
Dispose ==
  /\ ~draining /\ ~disposed
  /\ disposed' = TRUE
  /\ phase' = [r \in Requests |-> IF phase[r] = "queued" THEN "disposed" ELSE phase[r]]
  /\ queue' = <<>>
  /\ UNCHANGED <<slots, activeTasks, pendingRemoval, draining, slotOf, attempt>>

-----------------------------------------------------------------------------
Finish(r) ==
  \E how \in Settled :
    FinishIdle(r, how) \/ FinishHandsOver(r, how) \/ FinishEvicts(r, how)

Progress(r) ==
  \/ HookStartDone(r) \/ AgentSucceeds(r) \/ AgentFails(r) \/ RetryDelayOver(r)
  \/ Finish(r)

Drain == DrainEnds \/ \E a \in Agents : DrainStep(a)

Next ==
  \/ \E r \in Requests :
       \/ InvokeRejected(r) \/ InvokeQueues(r)
       \/ \E a \in Agents : InvokeRuns(r, a)
       \/ Progress(r)
  \/ Drain
  \/ \E A \in SUBSET Agents : AddSlots(A)
  \/ \E A \in SUBSET Removable : RemoveSlots(A)
  \/ Dispose

(* Agents, hooks and timers settle; the drain loop is synchronous code.    *)
(* Only that loop ever disables a request's next step, so strong fairness   *)
(* says no more than that the event loop comes back to the request after it.*)
Fairness == WF_vars(Drain) /\ \A r \in Requests : SF_vars(Progress(r))

Spec == Init /\ [][Next]_vars /\ Fairness

-----------------------------------------------------------------------------
(* Properties *)

RunningOn(a) == {r \in Requests : phase[r] \in InFlight /\ slotOf[r] = a}

(* activeTasks counts the requests in flight on the slot and never exceeds  *)
(* maxConcurrency, through hand-overs, retries, evictions and drains; a     *)
(* slot that left the pool has none (eviction abandons no request).         *)
CountsExact ==
  \A a \in Agents :
    /\ activeTasks[a] = Cardinality(RunningOn(a))
    /\ activeTasks[a] <= MaxConcurrency[a]
    /\ a \notin slots => activeTasks[a] = 0

(* _pendingRemoval only names slots of the pool that still have tasks, so   *)
(* no id stays marked and blocks a slot added later under the same id.      *)
PendingSlotsAreBusy ==
  \A a \in pendingRemoval : a \in slots /\ activeTasks[a] > 0

(* A request waits only while no slot could take it (invoke, addSlots).     *)
NoIdleCapacityWhileQueued ==
  ~draining /\ queue # <<>> => Available(slots, activeTasks, pendingRemoval) = {}

(* The pool's books are right at every moment: counts, marks and queue.     *)
CapacityAccounted ==
  TypeOK /\ CountsExact /\ PendingSlotsAreBusy /\ NoIdleCapacityWhileQueued

(* Those that are dispatched before r. *)
AheadOf(q, r) ==
  {s \in Requests : \E i, j \in 1..Len(q) : i < j /\ q[i] = s /\ q[j] = r}

(* A request accepted into the queue leaves it only to run, with nobody     *)
(* ahead of it and nobody waiting who is more urgent, or because the pool   *)
(* was disposed of: the checks of the second invoke() of an evicting slot   *)
(* (pool.ts:312) never turn it away.  While it waits, those who get ahead   *)
(* of it are more urgent; but a head that an evicting slot sends back is    *)
(* put behind the waiting ones that are as urgent.                          *)
QueuedRequestsServedInOrder ==
  [][\A r \in Requests :
       phase[r] = "queued" =>
         \/ phase'[r] = "disposed" /\ disposed'
         \/ /\ phase'[r] = "starting"
            /\ AheadOf(queue, r) = {}
            /\ \A s \in Requests : phase[s] = "queued" => Priority[r] <= Priority[s]
         \/ /\ phase'[r] = "queued"
            /\ \A s \in AheadOf(queue', r) \ AheadOf(queue, r) :
                 \/ Priority[s] < Priority[r]
                 \/ /\ r = Head(queue) /\ slots' # slots
                    /\ phase[s] = "queued" /\ Priority[s] = Priority[r]]_vars

(* Every accepted request settles, unless removals whose evictions come     *)
(* later leave a pool of no slots (pool.ts:196): there its queue waits for  *)
(* addSlots.                                                                *)
AcceptedRequestsSettle ==
  \A r \in Requests :
    phase[r] \in InFlight \cup {"queued"} ~> phase[r] \in Settled \/ slots = {}
=============================================================================
