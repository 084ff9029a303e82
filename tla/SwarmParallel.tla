--------------------------- MODULE SwarmParallel ---------------------------
(***************************************************************************)
(* The swarm templates that call several agents at once: fan-out, ensemble *)
(* vote, race, speculative execution, dag, pool and map-reduce             *)
(* (src/src/swarm/factories.ts, factories-advanced.ts).  Each is one node  *)
(* that starts agents, waits for the promises it made of them and returns  *)
(* an update, or throws.                                                   *)
(*                                                                         *)
(* A task is an agent of the template, in the order of its list, or an     *)
(* input item of pool and map-reduce.  An action is the code that runs     *)
(* from one await to the next.  What the node waits for (stage) is kept    *)
(* apart from the agent's own execution (call): a timeout ends the first   *)
(* and leaves the second.                                                  *)
(***************************************************************************)
EXTENDS Integers, FiniteSets, FiniteSetsExt

CONSTANTS
  TaskCount,       \* agents of the template, or input items
  Templates,       \* the templates to run
  FanOutLimit,     \* fan-out: maxConcurrency, 0 when not given
  TimedOutAgents,  \* fan-out, ensemble, race, speculative: timeoutMs, perStrategyTimeoutMs is given
  GlobalTimeout,   \* speculative: timeoutMs is given
  DepGraphs,       \* dag: dependencies, each a function from tasks to sets of tasks
  PoolSize,        \* pool and map-reduce: copies of the agent
  PoolStrategies,  \* map-reduce: config.poolStrategy
  RemovableSlots   \* pool: copies the application calls removeAgent for

Tasks == 1..TaskCount
Slots == 0..(PoolSize - 1)

ASSUME ParallelAssumption ==
  /\ TaskCount \in Nat \ {0} /\ PoolSize \in Nat \ {0} /\ FanOutLimit \in Nat
  /\ Templates \subseteq {"fanOut", "ensemble", "race", "speculative", "dag", "pool", "mapReduce"}
  /\ TimedOutAgents \in BOOLEAN /\ GlobalTimeout \in BOOLEAN
  /\ DepGraphs \subseteq [Tasks -> SUBSET Tasks]
  /\ PoolStrategies \subseteq {"round-robin", "least-busy", "random"}
  /\ RemovableSlots \subseteq Slots

VARIABLES
  template,   \* the template of this behaviour
  deps,       \* dag: config.dependencies
  poolStrategy, \* map-reduce: config.poolStrategy
  slotOf,     \* pool and map-reduce: the copy an item is for
  present,    \* pool: copies in the registry
  node,       \* the runner node
  stage,      \* what the node's promise for a task waits for
  outcome,    \* what that promise came to
  call,       \* the execution of the agent itself
  winner,     \* race and speculative: the task whose result is returned, or 0
  signalled,  \* the signal given to the agents is aborted
  recorded    \* agentResults (pool: results) as the node returns them

parallelVars == <<template, deps, poolStrategy, slotOf, present, node, stage, outcome,
                  call, winner, signalled, recorded>>
configVars == <<template, deps, poolStrategy>>

Racing == template \in {"race", "speculative"}
Pending == {"onStart", "open", "closing", "checking"}
InStage(s) == {t \in Tasks : stage[t] = s}
Waiting == InStage("waiting")
Awaited == {t \in Tasks : stage[t] \in Pending}
AllSettled == InStage("settled") = Tasks

(* The k first tasks of S in the order of the list.                        *)
FirstOf(k, S) == {t \in S : Cardinality({u \in S : u < t}) < k}

(* The depth-first visit finds a cycle exactly when the agents cannot be   *)
(* ranked below what depends on them.                                      *)
DagBuilds(d) ==
  \E rank \in [Tasks -> Tasks] : \A t \in Tasks : \A u \in d[t] : rank[u] < rank[t]

(* Least-busy counts the items assigned in this batch, so it goes round as *)
(* round-robin does; random is any copy.                                   *)
SplitFor(s, f) ==
  s \in {"round-robin", "least-busy"} => \A t \in Tasks : f[t] = (t - 1) % PoolSize

ParallelInit ==
  /\ template \in Templates
  /\ deps \in IF template = "dag" THEN {d \in DepGraphs : DagBuilds(d)}
                                  ELSE {[t \in Tasks |-> {}]}
  /\ poolStrategy \in IF template = "mapReduce" THEN PoolStrategies ELSE {"round-robin"}
  /\ slotOf \in {f \in [Tasks -> Slots] : SplitFor(poolStrategy, f)}
  /\ present = Slots
  /\ node = "running"
  /\ stage = [t \in Tasks |-> "waiting"]
  /\ outcome = [t \in Tasks |-> "none"]
  /\ call = [t \in Tasks |-> "none"]
  /\ winner = 0
  /\ signalled = FALSE
  /\ recorded = [t \in Tasks |-> "none"]

-----------------------------------------------------------------------------
(* Starting agents.                                                        *)

Open(S) ==
  /\ stage' = [t \in Tasks |-> IF t \in S THEN "open" ELSE stage[t]]
  /\ call' = [t \in Tasks |-> IF t \in S THEN "running" ELSE call[t]]

(* remaining.splice(0, maxConcurrency), once the batch before has settled. *)
Batch ==
  IF FanOutLimit = 0 THEN Waiting
  ELSE IF Awaited = {} THEN FirstOf(FanOutLimit, Waiting) ELSE {}

FanOutBatch ==
  /\ template = "fanOut" /\ node = "running" /\ Batch # {}
  /\ stage' = [t \in Tasks |-> IF t \in Batch THEN "onStart" ELSE stage[t]]
  /\ UNCHANGED <<configVars, slotOf, present, node, outcome, call, winner, signalled, recorded>>

StartHookReturns(t) ==
  /\ stage[t] = "onStart"
  /\ Open({t})
  /\ UNCHANGED <<configVars, slotOf, present, node, outcome, winner, signalled, recorded>>

StartHookThrows(t) ==
  /\ stage[t] = "onStart"
  /\ stage' = [stage EXCEPT ![t] = "closing"]
  /\ outcome' = [outcome EXCEPT ![t] = "failed"]
  /\ UNCHANGED <<configVars, slotOf, present, node, call, winner, signalled, recorded>>

StartAll ==
  /\ template \in {"ensemble", "race", "speculative", "mapReduce"}
  /\ node = "running" /\ Waiting = Tasks
  /\ Open(Tasks)
  /\ UNCHANGED <<configVars, slotOf, present, node, outcome, winner, signalled, recorded>>

(* Agents whose dependencies have completed, in one batch; when none is,   *)
(* the node throws.                                                        *)
Ready == {t \in Waiting : deps[t] \subseteq InStage("settled")}

DagBatch ==
  /\ template = "dag" /\ node = "running" /\ Awaited = {} /\ Waiting # {}
  /\ node' = IF Ready = {} THEN "threw" ELSE node
  /\ Open(Ready)
  /\ UNCHANGED <<configVars, slotOf, present, outcome, winner, signalled, recorded>>

(* processNext: the next items go to the free places, each to the copy it  *)
(* was assigned or, when that was removed, to one that is there; without   *)
(* any copy every item left is recorded as failed.                         *)
Redirected(t) ==
  IF slotOf[t] \in present THEN slotOf[t]
  ELSE CHOOSE s \in present :
         Cardinality({p \in present : p < s}) = (t - 1) % Cardinality(present)

ProcessNext(free, stages, calls, outcomes) ==
  LET next == FirstOf(free, Waiting) IN
  IF present = {}
  THEN /\ stage' = [t \in Tasks |-> IF t \in Waiting THEN "settled" ELSE stages[t]]
       /\ outcome' = [t \in Tasks |-> IF t \in Waiting THEN "failed" ELSE outcomes[t]]
       /\ call' = calls
       /\ UNCHANGED slotOf
  ELSE /\ stage' = [t \in Tasks |-> IF t \in next THEN "open" ELSE stages[t]]
       /\ call' = [t \in Tasks |-> IF t \in next THEN "running" ELSE calls[t]]
       /\ slotOf' = [t \in Tasks |-> IF t \in next THEN Redirected(t) ELSE slotOf[t]]
       /\ outcome' = outcomes

PoolStarts ==
  /\ template = "pool" /\ node = "running" /\ Waiting = Tasks
  /\ ProcessNext(PoolSize, stage, call, outcome)
  /\ UNCHANGED <<configVars, present, node, winner, signalled, recorded>>

(* A copy that executes an item is not deregistered.                       *)
RemoveSlot(s) ==
  /\ template = "pool" /\ s \in RemovableSlots \cap present
  /\ \A t \in InStage("open") : slotOf[t] # s
  /\ present' = present \ {s}
  /\ UNCHANGED <<configVars, slotOf, node, stage, outcome, call, winner, signalled, recorded>>

-----------------------------------------------------------------------------
(* The promise of a task settles.  What the node does next is part of the  *)
(* same turn.                                                              *)

Settles(t, o) ==
  /\ outcome' = [outcome EXCEPT ![t] = o]
  /\ stage' = [stage EXCEPT ![t] =
       CASE template = "fanOut" -> "closing"
         [] template = "speculative" /\ winner = 0 /\ o # "failed" -> "checking"
         [] OTHER -> "settled"]

(* The first acceptable result ends the race and aborts the other agents;  *)
(* when no promise is left the race ends without a winner.                 *)
DecideEagerly(t, accepted, left) ==
  /\ node' = "deciding"
  /\ winner' = (IF accepted THEN t ELSE 0) /\ signalled' = (signalled \/ accepted)
Decide(t, accepted, left) ==
  \/ /\ winner = 0 /\ accepted
     /\ winner' = t /\ signalled' = TRUE /\ node' = "deciding"
  \/ /\ winner = 0 /\ ~accepted
     /\ node' = IF left = {} THEN "deciding" ELSE node
     /\ UNCHANGED <<winner, signalled>>

(* accept() and validator judge a result; a result they throw on is refused*)
Reacts(t, o) ==
  CASE template = "race" /\ node = "running" ->
         /\ Decide(t, o = "good", Tasks \ (InStage("settled") \cup {t}))
    [] template = "speculative" /\ node = "running" /\ o = "failed" ->
         /\ Decide(t, FALSE, Tasks \ (InStage("settled") \cup {t}))
    [] template \in {"dag", "mapReduce"} /\ node = "running" /\ o = "failed" ->
         /\ node' = "threw"
         /\ UNCHANGED <<winner, signalled>>
    [] OTHER -> UNCHANGED <<node, winner, signalled>>

AgentAnswers(t) ==
  /\ call[t] = "running"
  /\ \E o \in {"good", "refused", "failed"} :
       /\ o = "refused" => Racing
       /\ LET calls == [call EXCEPT ![t] = "over"] IN
          IF stage[t] # "open"
          THEN call' = calls /\ UNCHANGED <<slotOf, node, stage, outcome, winner, signalled>>
          ELSE IF template = "pool"
          THEN /\ ProcessNext(PoolSize - Cardinality(Awaited \ {t}),
                              [stage EXCEPT ![t] = "settled"], calls, [outcome EXCEPT ![t] = o])
               /\ UNCHANGED <<node, winner, signalled>>
          ELSE /\ call' = calls
               /\ Settles(t, o) /\ Reacts(t, o)
               /\ UNCHANGED slotOf
  /\ UNCHANGED <<configVars, present, recorded>>

(* The promise is rejected and the agent goes on.                          *)
TimesOut(t) ==
  /\ TimedOutAgents /\ template \in {"fanOut", "ensemble", "race", "speculative"}
  /\ stage[t] = "open"
  /\ Settles(t, "failed") /\ Reacts(t, "failed")
  /\ UNCHANGED <<configVars, slotOf, present, call, recorded>>

(* onComplete and onError are awaited; what they throw is logged.          *)
HookReturns(t) ==
  /\ stage[t] = "closing"
  /\ stage' = [stage EXCEPT ![t] = "settled"]
  /\ UNCHANGED <<configVars, slotOf, present, node, outcome, call, winner, signalled, recorded>>

(* Two results can be under validation at once: resolved is read before    *)
(* the await and not after it.                                             *)
ValidatorAnswers(t) ==
  /\ stage[t] = "checking"
  /\ stage' = [stage EXCEPT ![t] = "settled"]
  /\ IF node = "running"
     THEN Decide(t, outcome[t] = "good", Tasks \ (InStage("settled") \cup {t}))
     ELSE signalled' = (signalled \/ outcome[t] = "good") /\ UNCHANGED <<node, winner>>
  /\ UNCHANGED <<configVars, slotOf, present, outcome, call, recorded>>

GlobalTimeoutFires ==
  /\ template = "speculative" /\ GlobalTimeout /\ node = "running" /\ Waiting = {}
  /\ ~signalled
  /\ signalled' = TRUE
  /\ UNCHANGED <<configVars, slotOf, present, node, stage, outcome, call, winner, recorded>>

-----------------------------------------------------------------------------
(* The node ends.                                                          *)

Answered(t) == IF outcome[t] = "failed" THEN "error" ELSE "result"

(* The update of map-reduce is keyed by mapper: of the items one mapper    *)
(* was given, the last one's result is what the reducer sees.              *)
Kept(t) == \A u \in Tasks : u > t => slotOf[u] # slotOf[t]

Gathers ==
  /\ node = "running" /\ AllSettled
  /\ template \in {"fanOut", "dag", "pool", "ensemble", "mapReduce"}
  /\ recorded' = [t \in Tasks |->
       IF template = "mapReduce" /\ ~Kept(t) THEN "none" ELSE Answered(t)]
  /\ node' \in CASE template = "ensemble" -> {"aggregating"}
                 [] template = "dag" -> {"returned"}
                 [] OTHER -> {"returned", "threw"}
  /\ UNCHANGED <<configVars, slotOf, present, stage, outcome, call, winner, signalled>>

(* The judge, the synthesizer or the custom aggregator.                    *)
Aggregates ==
  /\ node = "aggregating"
  /\ node' \in {"returned", "threw"}
  /\ UNCHANGED <<configVars, slotOf, present, stage, outcome, call, winner, signalled, recorded>>

(* The race keeps the winner alone, speculative execution every strategy   *)
(* that has settled by the time its onCancel callbacks have run.           *)
ReturnsWinner ==
  /\ node = "deciding"
  /\ node' = "returned"
  /\ recorded' = [t \in Tasks |->
       IF template = "race" THEN (IF t = winner THEN "result" ELSE "none")
       ELSE IF stage[t] \in {"checking", "settled"} THEN Answered(t) ELSE "none"]
  /\ UNCHANGED <<configVars, slotOf, present, stage, outcome, call, winner, signalled>>

NodeSteps ==
  \/ FanOutBatch \/ StartAll \/ DagBatch \/ PoolStarts
  \/ Gathers \/ Aggregates \/ ReturnsWinner
  \/ \E t \in Tasks : StartHookReturns(t) \/ StartHookThrows(t) \/ HookReturns(t) \/ ValidatorAnswers(t)

ParallelNext ==
  \/ NodeSteps
  \/ \E t \in Tasks : AgentAnswers(t) \/ TimesOut(t)
  \/ \E s \in Slots : RemoveSlot(s)
  \/ GlobalTimeoutFires

(* Hooks, validators, judges and callbacks answer; timers fire.  Agents    *)
(* need to answer only where the template has no timeout for them.         *)
Untimed == template \in {"dag", "pool", "mapReduce"} \/ ~TimedOutAgents
ParallelFairness ==
  /\ WF_parallelVars(NodeSteps)
  /\ \A t \in Tasks : WF_parallelVars(TimesOut(t))
  /\ \A t \in Tasks : WF_parallelVars(Untimed /\ AgentAnswers(t))

ParallelSpec == ParallelInit /\ [][ParallelNext]_parallelVars /\ ParallelFairness

-----------------------------------------------------------------------------
(* What race and speculative execution return was accepted, nothing that   *)
(* was accepted is thrown away for "no acceptable result", and a winner    *)
(* leaves no agent running without its abort signal                        *)
(* (factories.ts:603, factories-advanced.ts:404).                          *)
AcceptedResultWins ==
  Racing /\ node = "returned" =>
    /\ winner # 0 => outcome[winner] = "good" /\ recorded[winner] = "result" /\ signalled
    /\ winner = 0 => \A t \in Tasks : stage[t] = "settled" /\ outcome[t] # "good"

(* Every agent of fan-out, ensemble and dag and every item of a pool has   *)
(* its own answer when the node returns, the error of one that timed out   *)
(* or whose copy was removed included, and no more of them are awaited at  *)
(* once than the template allows (factories.ts:102, 795).                  *)
EveryTaskAnsweredOnce ==
  /\ node = "returned" /\ template \in {"fanOut", "ensemble", "dag", "pool"} =>
       \A t \in Tasks : /\ stage[t] = "settled"
                        /\ recorded[t] = IF outcome[t] = "failed" THEN "error" ELSE "result"
  /\ template = "pool" => Cardinality(Awaited) <= PoolSize
  /\ template = "fanOut" /\ FanOutLimit > 0 => Cardinality(Awaited) <= FanOutLimit

(* An agent of a dag is called when everything it depends on has answered  *)
(* without error, nothing is called after the node failed, and a graph     *)
(* that was accepted never gets stuck (factories.ts:712).                  *)
DependenciesFirst ==
  template = "dag" =>
    /\ \A t \in Tasks : call[t] # "none" => \A u \in deps[t] : outcome[u] = "good"
    /\ node = "threw" => \E t \in Tasks : outcome[t] = "failed"

(* The node of every template returns or throws.  Where agents have a      *)
(* timeout this needs no agent to answer.                                  *)
ParallelEnds == <>(node \in {"returned", "threw"})
=============================================================================
