-------------------------- MODULE SwarmSupervision --------------------------
(***************************************************************************)
(* A supervised swarm: the supervisor node (src/src/swarm/supervisor.ts),  *)
(* the agent nodes it dispatches to (agent-node.ts), the registry of       *)
(* agents they share (registry.ts), and agents spawned and removed while   *)
(* runs are under way (compile-ext.ts).                                    *)
(*                                                                         *)
(* Several threads run over one compiled swarm, each a sequence of         *)
(* supersteps with one node: the supervisor, then an agent, and so on.     *)
(* What they share is the registry, whose counters decide who is idle.     *)
(* An action is a segment of a node between two awaits.                    *)
(***************************************************************************)
EXTENDS Integers, FiniteSets

CONSTANTS
  Agents,           \* ids of agents that are, or may come to be, registered
  InitialAgents,    \* registered by addAgent before compile()
  Removable,        \* agents the application calls removeAgent for
  Runs,             \* threads, each invoked and, when it failed, invoked again
  Abortable,        \* threads whose calls carry a signal
  Skills,           \* capability names
  Caps,             \* def.capabilities of each agent
  Required,         \* context.requiredCapabilities
  HandsOffTo,       \* agents a handoff of each agent may name
  MaxConcurrency,   \* def.maxConcurrency ?? 1
  Strategies,       \* the supervisor uses one of these
  MaxRounds,        \* config.maxRounds
  MaxRetries,       \* def.maxRetries
  HasRetryDelay,    \* def.retryDelayMs > 0
  AutoRecover,      \* config.autoRecover
  HasDeadline,      \* config.deadlineMs is given
  OnErrorThrows,    \* onErrorPolicy is "throw"
  RecursionLimit,   \* config.recursionLimit of each thread's calls
  MaxCalls,         \* bound: invoke() calls of each thread
  Supervisor, END, None

ASSUME SwarmAssumption ==
  /\ IsFiniteSet(Agents) /\ IsFiniteSet(Runs)
  /\ InitialAgents \subseteq Agents /\ Removable \subseteq Agents
  /\ Abortable \subseteq Runs
  /\ Caps \in [Agents -> SUBSET Skills]
  /\ Required \subseteq Skills
  /\ HandsOffTo \in [Agents -> SUBSET Agents]
  /\ MaxConcurrency \in [Agents -> Nat \ {0}]
  /\ Strategies \subseteq {"llm", "rule", "round-robin", "capability"}
  /\ MaxRounds \in Nat /\ MaxRetries \in Nat
  /\ RecursionLimit \in [Runs -> Nat] /\ MaxCalls \in [Runs -> Nat]
  /\ HasRetryDelay \in [Agents -> BOOLEAN] /\ AutoRecover \in BOOLEAN
  /\ HasDeadline \in BOOLEAN /\ OnErrorThrows \in BOOLEAN
  /\ Supervisor \notin Agents /\ END \notin Agents /\ None \notin Agents
  /\ Supervisor # END

VARIABLES
  seat,          \* position of an agent in the registry's map, 0 when not in it
  status,        \* rec.status
  active,        \* rec.activeTasks
  pendingError,  \* rec.pendingError
  burstFailed,   \* history: an execution failed since the agent was last free
  stranded,      \* history: executions that ended without leaving the registry
  strategy,      \* config.strategy
  pc,            \* where each run is
  target,        \* the node of its current superstep
  step,          \* supersteps of the thread so far
  calls,         \* invoke() calls of the thread so far
  aborted,       \* config.signal of the current call
  candidates,    \* agent ids the routing prompt was built from
  round,         \* state.supervisorRound
  deadline,      \* context.__deadlineAbsolute against the clock
  lastErr,       \* context.lastAgentError.agent
  attempt        \* the retry loop of the agent node

registryVars == <<seat, status, active, pendingError, burstFailed>>
channelVars == <<round, deadline, lastErr>>
engineVars == <<target, step, calls, aborted>>
vars == <<registryVars, stranded, strategy, pc, engineVars, candidates,
          channelVars, attempt>>

(* Awaits between markBusy and markIdle or markError. *)
Executing == {"starting", "attempting", "invoking", "sleeping", "completing"}
Settled == {"ended", "failed"}

TypeOK ==
  /\ seat \in [Agents -> Nat]
  /\ status \in [Agents -> {"idle", "busy", "error"}]
  /\ active \in [Agents -> Nat]
  /\ pendingError \in [Agents -> BOOLEAN]
  /\ burstFailed \in [Agents -> BOOLEAN]
  /\ stranded \in [Agents -> Nat]
  /\ strategy \in Strategies
  /\ pc \in [Runs -> {"idle", "scheduled", "routing", "failing"} \cup Executing \cup Settled]
  /\ target \in [Runs -> Agents \cup {Supervisor, END}]
  /\ \A r \in Runs : step[r] <= RecursionLimit[r] /\ calls[r] <= MaxCalls[r]
  /\ step \in [Runs -> Nat]
  /\ calls \in [Runs -> Nat]
  /\ aborted \in [Runs -> BOOLEAN]
  /\ candidates \in [Runs -> SUBSET Agents]
  /\ round \in [Runs -> 0..MaxRounds]
  /\ deadline \in [Runs -> {"unset", "running", "expired"}]
  /\ lastErr \in [Runs -> Agents \cup {None}]
  /\ attempt \in [Runs -> 0..MaxRetries]

InitialSeats(f) ==
  /\ f \in [Agents -> 0..Cardinality(InitialAgents)]
  /\ \A a \in Agents : f[a] # 0 <=> a \in InitialAgents
  /\ \A a, b \in InitialAgents : f[a] = f[b] => a = b

Init ==
  /\ \E f \in [Agents -> 0..Cardinality(InitialAgents)] : InitialSeats(f) /\ seat = f
  /\ status = [a \in Agents |-> "idle"]
  /\ active = [a \in Agents |-> 0]
  /\ pendingError = [a \in Agents |-> FALSE]
  /\ burstFailed = [a \in Agents |-> FALSE]
  /\ stranded = [a \in Agents |-> 0]
  /\ strategy \in Strategies
  /\ pc = [r \in Runs |-> "idle"]
  /\ target = [r \in Runs |-> Supervisor]
  /\ step = [r \in Runs |-> 0]
  /\ calls = [r \in Runs |-> 0]
  /\ aborted = [r \in Runs |-> FALSE]
  /\ candidates = [r \in Runs |-> {}]
  /\ round = [r \in Runs |-> 0]
  /\ deadline = [r \in Runs |-> "unset"]
  /\ lastErr = [r \in Runs |-> None]
  /\ attempt = [r \in Runs |-> 0]

-----------------------------------------------------------------------------
(* The registry. *)
Registered == {a \in Agents : seat[a] # 0}

FindIdle ==
  {a \in Registered :
     status[a] # "error" /\ (status[a] = "idle" \/ active[a] < MaxConcurrency[a])}

(* The first of S in the order of registration. *)
IsFirst(a, S) == a \in S /\ \A b \in S : seat[a] <= seat[b]

MarkBusy(a) ==
  /\ status' = [status EXCEPT ![a] = "busy"]
  /\ active' = [active EXCEPT ![a] = @ + 1]
  /\ burstFailed' = [burstFailed EXCEPT ![a] = @ /\ active[a] > 0]
  /\ UNCHANGED <<seat, pendingError>>

Drained(a) == active[a] <= 1

Release(a) == active' = [active EXCEPT ![a] = IF @ = 0 THEN 0 ELSE @ - 1]

(* Mutant: the last execution to leave does not look at the latch. *)
MarkIdleForgetting(a) ==
  /\ Release(a)
  /\ status' = [status EXCEPT ![a] = IF Drained(a) THEN "idle" ELSE @]
  /\ pendingError' = [pendingError EXCEPT ![a] = @ /\ ~Drained(a)]
  /\ UNCHANGED <<seat, burstFailed>>

MarkIdle(a) ==
  /\ Release(a)
  /\ status' = [status EXCEPT ![a] = IF ~Drained(a) THEN @
                                     ELSE IF pendingError[a] THEN "error" ELSE "idle"]
  /\ pendingError' = [pendingError EXCEPT ![a] = @ /\ ~Drained(a)]
  /\ UNCHANGED <<seat, burstFailed>>

MarkError(a) ==
  /\ Release(a)
  /\ status' = [status EXCEPT ![a] = IF Drained(a) THEN "error" ELSE @]
  /\ pendingError' = [pendingError EXCEPT ![a] = ~Drained(a)]
  /\ burstFailed' = [burstFailed EXCEPT ![a] = TRUE]
  /\ UNCHANGED seat

-----------------------------------------------------------------------------
(* spawnAgent(def): a new record at the end of the map. *)
SpawnAgent(a) ==
  /\ seat[a] = 0
  /\ seat' = [seat EXCEPT ![a] = Cardinality(Registered) + 1]
  /\ status' = [status EXCEPT ![a] = "idle"]
  /\ active' = [active EXCEPT ![a] = 0]
  /\ pendingError' = [pendingError EXCEPT ![a] = FALSE]
  /\ burstFailed' = [burstFailed EXCEPT ![a] = FALSE]
  /\ UNCHANGED <<stranded, strategy, pc, engineVars, candidates, channelVars, attempt>>

(* deregister throws while the agent has tasks in flight. *)
MayDeregister(a) == seat[a] # 0 /\ active[a] = 0

(* removeAgent(id) *)
RemoveAgent(a) ==
  /\ MayDeregister(a)
  /\ seat' = [b \in Agents |-> IF b = a THEN 0
                               ELSE IF seat[b] > seat[a] THEN seat[b] - 1 ELSE seat[b]]
  /\ UNCHANGED <<status, active, pendingError, burstFailed, stranded, strategy, pc,
                 engineVars, candidates, channelVars, attempt>>

-----------------------------------------------------------------------------
(* The engine around the nodes: one superstep after another.               *)
(* Mutant: only what the supervisor decides counts as a superstep. *)
GotoUncounted(r, node) ==
  /\ pc' = [pc EXCEPT ![r] = "scheduled"]
  /\ step' = [step EXCEPT ![r] = IF target[r] = Supervisor THEN @ + 1 ELSE @]
  /\ target' = [target EXCEPT ![r] = node]
  /\ UNCHANGED <<calls, aborted>>

Goto(r, node) ==
  /\ pc' = [pc EXCEPT ![r] = "scheduled"]
  /\ target' = [target EXCEPT ![r] = node]
  /\ step' = [step EXCEPT ![r] = @ + 1]
  /\ UNCHANGED <<calls, aborted>>

Moves(r, where) ==
  /\ pc' = [pc EXCEPT ![r] = where]
  /\ UNCHANGED engineVars

(* invoke() on a new thread, or on one whose call failed: the checkpoint    *)
(* names the superstep that did not complete.                              *)
Invoke(r) ==
  /\ pc[r] \in {"idle", "failed"} /\ calls[r] < MaxCalls[r]
  /\ pc' = [pc EXCEPT ![r] = "scheduled"]
  /\ calls' = [calls EXCEPT ![r] = @ + 1]
  /\ aborted' = [aborted EXCEPT ![r] = FALSE]
  /\ UNCHANGED <<target, step, registryVars, stranded, strategy, candidates,
                 channelVars, attempt>>

(* The superstep of a node may begin. *)
At(r, node) == pc[r] = "scheduled" /\ step[r] < RecursionLimit[r] /\ target[r] = node

(* The supersteps that run no node. *)
NoNodeRuns(r) ==
  /\ pc[r] = "scheduled"
  /\ \/ step[r] >= RecursionLimit[r] /\ Moves(r, "failed")          \* RecursionLimitError
     \/ At(r, END) /\ Moves(r, "ended")
     \/ /\ \E a \in Agents \ Registered : At(r, a)               \* NodeNotFoundError
        /\ Moves(r, "failed")
  /\ UNCHANGED <<registryVars, stranded, strategy, candidates, channelVars, attempt>>

-----------------------------------------------------------------------------
(* The supervisor node. *)
(* Mutant: every round computes a new deadline. *)
OutOfTimeNever(r) == FALSE

OutOfTime(r) == round[r] # 0 /\ deadline[r] = "expired"

SupervisorStops(r) ==
  /\ At(r, Supervisor)
  /\ OutOfTime(r) \/ round[r] >= MaxRounds
  /\ Goto(r, END)
  /\ UNCHANGED <<registryVars, stranded, strategy, candidates, channelVars, attempt>>

SupervisorGoesOn(r) == At(r, Supervisor) /\ ~OutOfTime(r) /\ round[r] < MaxRounds

(* A round goes to agent a; the first one starts the clock. *)
Dispatch(r, a) ==
  /\ Goto(r, a)
  /\ round' = [round EXCEPT ![r] = @ + 1]
  /\ deadline' = [deadline EXCEPT ![r] = IF HasDeadline /\ @ = "unset" THEN "running" ELSE @]

(* Idle agents that share a capability with the one that failed. *)
Stand(r) ==
  IF lastErr[r] \in Registered
  THEN {a \in FindIdle \ {lastErr[r]} : Caps[a] \cap Caps[lastErr[r]] # {}}
  ELSE {}

Recovers(r) == AutoRecover /\ Stand(r) # {}

SupervisorRecovers(r) ==
  /\ SupervisorGoesOn(r) /\ Recovers(r)
  /\ \E a \in Agents : IsFirst(a, Stand(r)) /\ Dispatch(r, a)
  /\ lastErr' = [lastErr EXCEPT ![r] = None]
  /\ UNCHANGED <<registryVars, stranded, strategy, candidates, attempt>>

(* What routing found: an agent that is still registered, or the end. *)
Follow(r, choice) ==
  /\ \/ choice \in Registered /\ Dispatch(r, choice)
     \/ choice \notin Registered /\ Goto(r, END) /\ UNCHANGED <<round, deadline>>
  /\ UNCHANGED <<registryVars, stranded, strategy, lastErr, attempt>>

(* routeRoundRobin: the agent at counter % length, of the idle ones first. *)
RoundRobin(counter) ==
  LET pool == IF FindIdle # {} THEN FindIdle ELSE Registered
  IN  {a \in pool : Cardinality({b \in pool : seat[b] < seat[a]}) = counter % Cardinality(pool)}

Score(a) == Cardinality(Caps[a] \cap Required)

(* routeViaCapability: the first of those that match most; none matches 0. *)
BestMatch ==
  {a \in Registered :
     /\ Score(a) > 0
     /\ \A b \in Registered : Score(b) < Score(a) \/ (Score(b) = Score(a) /\ seat[a] <= seat[b])}

(* The rules and their order are the caller's: any id, or none, may match. *)
Routes(r) ==
  CASE strategy = "rule" -> Agents \cup {None}
    [] strategy = "round-robin" -> IF Registered = {} THEN {None} ELSE RoundRobin(round[r])
    [] strategy = "capability" -> IF BestMatch = {} THEN {None} ELSE BestMatch
    [] OTHER -> {}

SupervisorRoutes(r) ==
  /\ SupervisorGoesOn(r) /\ ~Recovers(r)
  /\ \E choice \in Routes(r) : Follow(r, choice)
  /\ UNCHANGED candidates

(* routeViaLLM: the ids offered are read before the call. *)
SupervisorAsks(r) ==
  /\ SupervisorGoesOn(r) /\ ~Recovers(r) /\ strategy = "llm"
  /\ candidates' = [candidates EXCEPT ![r] = Registered]
  /\ Moves(r, "routing")
  /\ UNCHANGED <<registryVars, stranded, strategy, channelVars, attempt>>

ModelRoutes(r) ==
  /\ pc[r] = "routing"
  /\ \E choice \in candidates[r] \cup {None} : Follow(r, choice)
  /\ candidates' = [candidates EXCEPT ![r] = {}]

ModelFails(r) ==
  /\ pc[r] = "routing"
  /\ Moves(r, "failed")
  /\ candidates' = [candidates EXCEPT ![r] = {}]
  /\ UNCHANGED <<registryVars, stranded, strategy, channelVars, attempt>>

-----------------------------------------------------------------------------
(* The agent node. *)
(* Its loop counter ends with it. *)
Forget(r) == attempt' = [attempt EXCEPT ![r] = 0]

AgentStarts(r) ==
  \E a \in Registered :
    /\ At(r, a)
    /\ MarkBusy(a)
    /\ Moves(r, "starting")
    /\ UNCHANGED <<stranded, strategy, candidates, channelVars, attempt>>

(* await onStart *)
OnStartReturns(r) ==
  /\ pc[r] = "starting"
  /\ Moves(r, "attempting")
  /\ UNCHANGED <<registryVars, stranded, strategy, candidates, channelVars, attempt>>

OnStartThrows(r) ==
  /\ pc[r] = "starting"
  /\ MarkError(target[r])
  /\ Moves(r, "failed")
  /\ UNCHANGED <<stranded, strategy, candidates, channelVars, attempt>>

(* skeleton.invoke is called, if there is time left. *)
AttemptBegins(r) ==
  /\ pc[r] = "attempting" /\ deadline[r] # "expired"
  /\ Moves(r, "invoking")
  /\ UNCHANGED <<registryVars, stranded, strategy, candidates, channelVars, attempt>>

(* The result is in; await onComplete, whose error is only logged. *)
AgentReturns(r) ==
  /\ pc[r] = "invoking"
  /\ Moves(r, "completing")
  /\ UNCHANGED <<registryVars, stranded, strategy, candidates, channelVars, attempt>>

(* state.done decides the return edge; a handoff names another agent. *)
OnCompleteReturns(r) ==
  /\ pc[r] = "completing"
  /\ MarkIdle(target[r])
  /\ \E next \in HandsOffTo[target[r]] \cup {Supervisor, END} : Goto(r, next)
  /\ Forget(r)
  /\ UNCHANGED <<stranded, strategy, candidates, channelVars>>

(* The skeleton throws, times out, hands off to nobody, or is not called    *)
(* because the deadline passed.                                            *)
AttemptFailed(r) ==
  pc[r] = "invoking" \/ (pc[r] = "attempting" /\ deadline[r] = "expired")

(* Mutant: one retry too many. *)
RetriesLeftOff(r) == attempt[r] <= MaxRetries

RetriesLeft(r) == attempt[r] < MaxRetries

RetryAtOnce(r) ==
  /\ AttemptFailed(r) /\ RetriesLeft(r) /\ ~HasRetryDelay[target[r]]
  /\ attempt' = [attempt EXCEPT ![r] = @ + 1]
  /\ Moves(r, "attempting")
  /\ UNCHANGED <<registryVars, stranded, strategy, candidates, channelVars>>

MayDelay(r) ==
  AttemptFailed(r) /\ RetriesLeft(r) /\ HasRetryDelay[target[r]] /\ deadline[r] # "expired"

RetryLater(r) ==
  /\ MayDelay(r) /\ ~aborted[r]
  /\ Moves(r, "sleeping")
  /\ UNCHANGED <<registryVars, stranded, strategy, candidates, channelVars, attempt>>

RetryDelayOver(r) ==
  /\ pc[r] = "sleeping"
  /\ attempt' = [attempt EXCEPT ![r] = @ + 1]
  /\ Moves(r, "attempting")
  /\ UNCHANGED <<registryVars, stranded, strategy, candidates, channelVars>>

(* The promise of the delay rejects inside the catch block: the node throws *)
(* past markError.                                                         *)
Strands(r) ==
  /\ pc' = [pc EXCEPT ![r] = "failed"]
  /\ stranded' = [stranded EXCEPT ![target[r]] = @ + 1]
  /\ Forget(r)

DelayRejected(r) ==
  /\ MayDelay(r) /\ aborted[r]
  /\ Strands(r)
  /\ UNCHANGED <<registryVars, strategy, engineVars, candidates, channelVars>>

Abort(r) ==
  /\ r \in Abortable /\ ~aborted[r]
  /\ pc[r] \notin {"idle"} \cup Settled
  /\ aborted' = [aborted EXCEPT ![r] = TRUE]
  /\ IF pc[r] = "sleeping" THEN Strands(r) ELSE UNCHANGED <<pc, stranded, attempt>>
  /\ UNCHANGED <<registryVars, strategy, target, step, calls, candidates, channelVars>>

(* The retries are used up, or no time is left for one. *)
AgentGivesUp(r) ==
  /\ AttemptFailed(r)
  /\ ~RetriesLeft(r) \/ (HasRetryDelay[target[r]] /\ deadline[r] = "expired")
  /\ MarkError(target[r])
  /\ Moves(r, "failing")
  /\ Forget(r)
  /\ UNCHANGED <<stranded, strategy, candidates, channelVars>>

(* await onError, whose own error is only logged. *)
OnErrorReturns(r) ==
  /\ pc[r] = "failing"
  /\ IF OnErrorThrows
     THEN Moves(r, "failed") /\ UNCHANGED lastErr
     ELSE Goto(r, Supervisor) /\ lastErr' = [lastErr EXCEPT ![r] = target[r]]
  /\ UNCHANGED <<registryVars, stranded, strategy, candidates, round, deadline, attempt>>

DeadlinePasses(r) ==
  /\ deadline[r] = "running"
  /\ deadline' = [deadline EXCEPT ![r] = "expired"]
  /\ UNCHANGED <<registryVars, stranded, strategy, pc, engineVars, candidates, round,
                 lastErr, attempt>>

-----------------------------------------------------------------------------
RunStep(r) ==
  \/ NoNodeRuns(r)
  \/ SupervisorStops(r) \/ SupervisorRecovers(r) \/ SupervisorRoutes(r)
  \/ SupervisorAsks(r) \/ ModelRoutes(r) \/ ModelFails(r)
  \/ AgentStarts(r) \/ OnStartReturns(r) \/ OnStartThrows(r)
  \/ AttemptBegins(r) \/ AgentReturns(r) \/ OnCompleteReturns(r)
  \/ RetryAtOnce(r) \/ RetryLater(r) \/ RetryDelayOver(r) \/ DelayRejected(r)
  \/ AgentGivesUp(r) \/ OnErrorReturns(r)

CallerStep(r) == Invoke(r) \/ Abort(r) \/ DeadlinePasses(r)

Next ==
  \/ \E r \in Runs : RunStep(r) \/ CallerStep(r)
  \/ \E a \in Agents : SpawnAgent(a) \/ (a \in Removable /\ RemoveAgent(a))

(* Hooks, models and agents settle the promises a run awaits; nobody has to *)
(* call, abort, spawn or remove anything.                                  *)
Spec == Init /\ [][Next]_vars /\ \A r \in Runs : WF_vars(RunStep(r))

-----------------------------------------------------------------------------
Holders(a) == {r \in Runs : pc[r] \in Executing /\ target[r] = a}

(* The load of an agent is exactly the runs that execute it now, and the    *)
(* executions aborted in a retry delay, which never leave the registry: no  *)
(* other path through hooks, retries, handoffs and removals loses or frees  *)
(* a task twice.  An agent that is not registered has none. (markBusy in    *)
(* agent-node.ts:37, markIdle and markError at every way out)               *)
SlotsAccounted ==
  \A a \in Agents :
    /\ active[a] = Cardinality(Holders(a)) + stranded[a]
    /\ seat[a] = 0 => active[a] = 0

(* The status tells the truth: "busy" exactly while tasks run, and once the *)
(* last one left, "error" if any of the tasks that overlapped failed and    *)
(* "idle" if none did, whichever order they left in; no error is kept for   *)
(* a later task. (registry.ts:117-151)                                      *)
StatusTruthful ==
  \A a \in Agents :
    /\ status[a] = "busy" <=> active[a] > 0
    /\ active[a] = 0 => (status[a] = "error" <=> burstFailed[a])
    /\ pendingError[a] => active[a] > 0

(* What the registry shows of an agent is true: its load and its status.    *)
RegistryTrue == SlotsAccounted /\ StatusTruthful

(* When the deadline of a thread has passed, no round is begun and no       *)
(* skeleton is called, through retries, recoveries, handoffs and calls      *)
(* repeated after a failure; only a routing model that was asked before may *)
(* still name an agent, which is then not called. (supervisor.ts:60-79,     *)
(* agent-node.ts:74-86, 198-208)                                            *)
NothingNewAfterDeadline ==
  [][\A r \in Runs : deadline[r] = "expired" =>
       /\ pc[r] # "routing" => round'[r] = round[r]
       /\ pc'[r] = "invoking" => pc[r] = "invoking"]_vars

(* Every call settles: handoff cycles, which count no round, and recoveries *)
(* that fail in turn all end at the recursion limit at the latest, whatever *)
(* is spawned or removed meanwhile. (agent-node.ts:112-141, supervisor.ts:81)*)
CallsSettle ==
  <>[](\A r \in Runs : pc[r] \in {"idle"} \cup Settled)
=============================================================================
