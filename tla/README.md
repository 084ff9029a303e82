# oni-core in TLA+

Models of oni-core: its graph engine, agent loops, pools and swarms, the
background session platform, the clients of processes and of remote agents,
the stores, the model adapters, what agents talk through, and what the harness
guards and keeps on disk. TLC checks each model on small instances; TLAPS
proves the properties that matter most for all instances. The code is
TypeScript on one event loop, so concurrency means *interleaving at awaits*:
an action of a model is what the code does between two awaits. Between
processes (files, databases, child processes) it is anything the other side
may do between two steps of ours.

Paths below are relative to the repository's root (`src/...` is `src/src/...`
and `packages/...` is `src/packages/...` in PROJECT.json, which sees the
repository inside a directory `src`).

## 1. Components

What each part keeps, does, and has to get right. The last column names the
module; PROJECT.json "components" says of each part what is left out.

| Component | State | Operations | Hard part | Correct when | Modelled |
|---|---|---|---|---|---|
| Node execution: `pregel/execution.ts`, `circuit-breaker.ts`, `retry.ts` | breaker (state, failure count, probe flag), cache entry of the node | `executeNode` by parallel Sends, threads and batches | a timeout settles the caller while the retry loop runs on; answers arrive after the breaker changed state | breaker state agrees with the failures counted; one owner for the probe flag; no call while cooling; late answers change nothing | NodeExecution |
| Superstep engine: `pregel/streaming.ts`, `checkpointing.ts`, `checkpoint.ts`, `hitl/*`, `graph.ts` (resume, updateState) | checkpoints of a thread, HITL sessions | invoke, resume, updateState, crash and invoke again | a superstep is atomic only through its checkpoint; interrupts in parallel nodes; overlapping calls | updates applied at most once and not lost; an interrupt can be answered, once | PregelThread |
| Agent loop: `harness/loop/*`, `harness/context-compactor.ts`, `harness/background-agent.ts` | conversation, pending skill, message queue, handle | inference with retries, tool batches, compaction, Stop hook, send, cancel | cancel at any await; compaction between a call and its answers; parallel tools beside an unsafe one | calls and answers pair up; unsafe tools run alone; handle and hooks agree on the outcome but for a cancel nobody could see | AgentLoop |
| Agent pool: `swarm/pool.ts` | slots with active counts, priority queue, slots waiting for removal | invoke, addSlots, removeSlots, dispose | a slot that ends hands its task over while others are added, drained, evicted | counts exact; nobody waits beside idle capacity; everyone accepted settles | AgentPool |
| Supervised swarm: `swarm/supervisor.ts`, `agent-node.ts`, `registry.ts`, `compile-ext.ts` | registry of agents (status, load, error latch); round, deadline and last error of a thread | route, recover, run an agent with hooks and retries, hand off, spawn, remove | many ways out of an agent node; overlapping failures; removal between routing and execution | load and status true; nothing new after the deadline; every call settles | SwarmSupervision |
| Background platform: `platform/in-memory.ts` | session records in a store, queue, active set, resources held at providers | submit, dispatch, execute, cancel, review, wait | read-modify-write of the record across awaits; failing providers; cancel and review racing execution | slots exact; statuses move forward; resources released; waiters answered | BackgroundPlatform |
| Swarm templates: `swarm/factories*.ts`, `swarm/graph.ts` (GAN loop) | results, verdicts, loop counters of one template node | fan-out, map-reduce, race, dag, pool, ensemble, speculative; critique, stepwise, debate, mesh, red-team, socratic, research, thought, adversarial, GAN | agents that timed out answer later; two strategies validate at once; judges answer anything | what a template reports was earned; each template ends | SwarmParallel, SwarmLoops |
| Scaling: `swarm/scaling.ts`, `tracer.ts` | decisions, timeline of the tracer | evaluate, record, reactive mode | the timeline forgets executions that still run | bounded, cooled down, no busy agent removed | SwarmScaling |
| External agents: `harness/external-agent.ts` | registry, child process, watchdogs, output buffers | register, run, stream, abort, time out, kill | exit, error, close, timeouts and abort in any order | settles once, status true, no process or timer left, output bounded | ExternalAgent |
| MCP client: `mcp/*` | state, process, request table, tools | connect, disconnect, refresh, call | disconnect between the awaits of connect; end of the server | each request settles once, no server left running | McpClient |
| LSP clients: `lsp/*` | process, documents and versions, waiters; clients, starts and broken servers | start, stop, touch, request, wait; touch, dispose | restart between an update and its diagnostics; dispose during a start | versions are those of this process; each call settles | LspClient |
| Agent-to-agent: `packages/a2a` | response stream, read timer | sendTask, streamTask, handler, listen | the stream breaks off, stalls, ends early | chunks in order, without a hole; complete when `[DONE]` says so | RemoteAgents |
| Session and artifact stores: `platform/*-store.ts`, `filesystem.ts` | rows, one JSON file | create, save, get, list | a file replaced as a whole; two queries of one create | each call is atomic | SessionStores |
| Checkpointers: `checkpointers/*`, `checkpoint.ts` | rows, a sorted set beside entries | put, get, list, delete | reads in several commands; damaged entries | what is read was there at some moment | CheckpointStores |
| Long-term store: `store/index.ts`, `packages/stores` | items, vectors, index | put, get, list, delete, expiry | embeddings that arrive late; clean-ups not awaited | what was deleted stays deleted; capacity kept | KeyValueStores |
| Model adapters: `models/*` | conversation to request, body to chunks | chat, stream | pairing of calls and results; cut events; synthetic tools | a provider accepts the request; the stream says what the provider said | ModelRequests, ModelStreams |
| Coordination, events, dead letters: `coordination/*`, `events/bus.ts`, `dlq.ts` | pending requests, topics, listeners, waiters, letters | request, reply, publish, subscribe, emit, waitFor, dispose, push, replay | handlers run synchronously inside one another | each request settles once; nobody left out or told twice | Coordination |
| Live tools: `registry/*`, `packages/hot-loader` | registered tools, tools of each file | register, unregister, load, change, unlink | a failing reload; two files of one name; calls of replaced tools | what is registered comes from the version loaded last | LiveTools |
| Token streams: `streaming.ts` | tokens, readers, ring buffer | push, end, read; push, shift | a reader resumes after other tokens were pushed | each token reaches one reader, in order; drops are counted | TokenStreams |
| Tool gate: `harness/hooks-engine.ts`, `safety-gate.ts`, `validate-args.ts`, `policy.ts`, `loop/tools.ts` | hooks, grant, batch of calls | fire, check, validate, authorise, run | late, throwing hooks; hooks that come and go during the batch | only calls that passed every check run | ToolGate |
| Agents and guardrails: `agents/*`, `guardrails/*` | transcript, spending, audit log | model calls and tools of agent nodes side by side | nothing is reserved before a model call | a limit is passed by the calls under way at most; records complete; transcripts can be sent again | ReactAgents |
| Shared files of the harness: `FeatureRegistry.ts`, `NegotiatedHandoff.ts`, `utils.ts` | a file and its lock | propose, review, finalize, evaluate, mark | several processes, a stale lock after a crash | no change that was written is lost | HarnessFiles |
| Workspace history: `WorkspaceCheckpointer.ts` | checkpoints with commits | put, rollbackTo | git or the process fails between two writes | after a rollback, thread and workspace agree | SessionContinuity |
| Sessions: `SessionBridge.ts`, `SessionInit.ts`, `ContextReset.ts` | artifacts of ended sessions | open, check, fix, work, close, reset | sessions overlap and close out of order | a session takes up what ended last | SessionContinuity |
| Memory: `harness/memory/*`, `loop/memory.ts` | files, loaders, budgets, archive | scan, load, query, persist, extract, consolidate | several loaders over the same files | what was written is kept; what is recalled fits | HarnessMemory |
| Experiments: `loop/experimental-executor.ts`, `swarm/self-improvement/*` | thread, skill files | try, measure, roll back, commit | an operation that timed out still writes | a rejected experiment leaves nothing | SelfImprovement |
| Mailbox, snapshots, diagrams; event bridge; environments and publishing; platform runners, triggers, redaction; todo list and skill files; tool definitions, content filters; telemetry, inspection; CLI, developer tools, integrations, loaders | -- | copies, conversions, I/O, printing | -- | -- | no protocol of their own; PROJECT.json gives each its reason |

How they interact. A swarm is a graph whose supervisor and agents are nodes of
the superstep engine; each agent is again a compiled graph, and a graph node is
run by `executeNode`. SwarmSupervision therefore uses the engine only as
"supersteps of one node, recursion limit, checkpoint of the superstep that
failed", which is what PregelThread checks in full; PregelThread in turn takes
a node to be something that answers, throws or interrupts, which is what
NodeExecution settles to. AgentPool and the templates call agents the same
way. The background platform runs a session by calling a runner (an agent
loop, a swarm or an external agent) and only sees it return or throw. Messages
into a running loop go through the queue of its handle, cancellation through an
AbortSignal; the models treat both as steps of the environment that may come at
any await. The agent loop sees a tool batch as calls that are refused, fail or
answer: ToolGate says which are refused and why, and McpClient, LspClient and
LiveTools are behind the tools. What PregelThread and BackgroundPlatform take
to be atomic checkpoints and sessions is what CheckpointStores and
SessionStores show of each backend.

## 2. Modules

Every definition that stands for code has an entry in PROJECT.json "map" with
the lines it models. `MC*.tla` hold the constants of TLC's instances,
`*Proofs.tla` the theorems. `(* Mutant ... *)` definitions are plausible bugs
that PROJECT.json substitutes for the operator beside them, to show that the
property reacts.

Components that share no state are checked in one run by a *composition with a
focus*: MCClients, MCServices, MCHarness and MCSwarmTemplates EXTEND their
modules, and a variable `focus`, chosen at first and never changed, says which
of them the behaviour is about. The others keep a fixed initial state and do
nothing, so that the state spaces add up. Each property of such a run is the
conjunction of the properties of its modules, and the fairness is the
conjunction of theirs. MCHarness also holds the tools, hooks, scopes, grants, agents
and prices of the harness run.

**NodeExecution.** A call has two activities, because `Promise.race` settles
the caller (`pc`) without stopping the retry loop (`loop`). The breaker and the
cache are shared. One action for each segment: `Begin*` (cache, input filter,
admission), the attempts of the loop with their backoff, the timeout, and the
settlements that call `onSuccess`/`onFailure`. The clock is a counter.

**PregelThread.** `history` maps supersteps to checkpoints. A run loads, then
repeats: Sends, nodes, apply, save. The contents of the channels are reduced to
*how often each node's update is in* and which `updateState` patches are, which
is exactly what "lost" and "applied twice" need. Interrupt sessions, `resume`,
static interrupts, failures, a crash and a second caller are actions. The
checkpointer is the in-memory one (or any whose writes are atomic).

**AgentLoop.** The conversation is a sequence of messages with the calls they
make or answer; a call is named by turn and position. All messages weigh the
same. The checks of a tool call (hooks, guardrails, permissions, validation)
are one step that may refuse; the tools of a batch run in parallel or, when an
unsafe one is among them, one after the other. `Compaction` has the three
stages, each as the messages at certain positions (`ElementsAt`): cleared,
kept of what is older than the recent tail, and cut at a point.
The handle's `send` and `cancel` come at any await. Hooks cannot make the loop
throw (`fire` fails open), so no step stands for that. `status` is what the
handle says, `reported` what the SessionEnd hook and the memory are told.

**AgentPool.** Requests with priorities over slots; `addSlots` drains the queue
in one segment (`draining`), `removeSlots` defers eviction of busy slots. A slot
that is evicted when its request ends shifts the head off the queue and calls
`invoke()` again, with all its checks (`InvokedAgain`).

**SwarmSupervision.** Threads over a shared registry. `target` and `step` are
the engine's part; the supervisor's guards, recovery and four routing
strategies lead to `Dispatch`; the agent node runs from `markBusy` through
hooks, attempts and delays to one of its ways out. `stranded` and
`burstFailed` are history variables. Agents are spawned and removed at any
time, which includes the documented use between calls.

**BackgroundPlatform.** Each operation works on its private copy of a record
(`snap`, `csnap`) and writes it back whole. Providers and store are their
interfaces: every call answers or throws. `AsyncStore` distinguishes stores
that answer in a later task. `Overwrites` names the one step in which a call
writes back a copy another call's decision has made stale.

**SwarmParallel, SwarmLoops.** A template is one node of a graph, so a
behaviour is one execution of it. SwarmParallel keeps for each task what the
node waits for (`stage`) apart from what the agent does (`call`), because a
timeout ends the first and not the second. SwarmLoops has the ten templates
that go round; an action is the answer of an agent and all the template does
with it before the next call. **SwarmScaling** is the monitor over the events a
tracer kept, with a clock, polled or reactive.

**ExternalAgent** is the CLI driver: one child process for each run as the
environment (lines, exit, close, a kill that may fail), two watchdogs, the
abort listener, and the registry and policies in front of it. **McpClient**
keeps the turns of the event loop: `got` holds outcomes that the awaiting
functions have not looked at, and only continuations run before the next
macrotask; this is where its locks can go wrong. **LspClient** has documents
with versions that must belong to the current process, and beside it the
manager's table of starts that callers share. **RemoteAgents** composes the A2A
client with the listening server over a body that is cut anywhere; the lines of
one read are looked at one by one, and the consumer may leave in between.

**SettleOnce** is the abstract specification of a request table: idle, asked,
settled once, never anything after that, and always in the end. McpClient,
LspClient (client and manager) and the broker of Coordination implement it, each
by its own mapping of tables, timers and waiters to one status for each request
(INSTANCE ... WITH, checked as `ClientsSettle` and `AnswersSettle`).
**AtomicStore** is a store whose calls take effect at one moment between call
and answer; SessionStores implements it for all four backends
(`SessionsAreAtomic`).

**SessionStores, CheckpointStores, KeyValueStores.** One behaviour is about one
backend. Every command to Redis or Postgres, and every read, write and rename
of a file, is a step; what Lua scripts and single statements make atomic is
one. Checkpoint entries may be damaged. In KeyValueStores embeddings, clean-ups
and expiry are steps of their own.

**ModelRequests, ModelStreams.** The first builds a conversation message by
message and converts it for each provider as the adapters do, with held-back
tool results and synthetic tools; a reply or an error comes back. The second
has the wire: payloads are cut into chunks at any symbol, and lines, events and
calls are put together again.

**Coordination** has a stack of handlers for the topics and the event bus,
since handlers may subscribe, unsubscribe, publish, emit, wait or dispose in
the middle of a delivery; a delivery goes through the places of the snapshot it
took. **LiveTools** and **TokenStreams** are the dynamic
registry with the hot loader, and the token writer with the ring buffer.

**HarnessFiles** has a lock file, stale after a crash, and changes that read,
write and release as separate steps of several processes; `robbed` (a history
variable) says that a living process has lost its lock file.
**SessionContinuity** has two parts: the history of a workspace counts
contents, so that each row can remember (`content`, a history variable) what it
was put with; and each session has a moment of opening, check, fix and close.
**HarnessMemory** keeps files as sets of facts with a cost, and a loader for
each session and for the extractor. **SelfImprovement** keeps who wrote each
checkpoint of a thread; `lateWriters` and `storeFailed` (history variables) say
of the last rollback who wrote after the thread had been deleted and whether
the store failed.

**ToolGate** follows a batch from hooks over safety gate, lookup, validation
and runtime policy to the tools and the hooks after them; arguments are values
with types, fields and items that nest to `MaxNesting`, paths and commands are
names in finite orders (`Within`, `StartsWith`, `Real`). **ReactAgents** has
agents of both kinds side by side on one budget tracker, one audit log and
their transcripts.

## 3. What is checked

| Run | Instance | Shows |
|---|---|---|
| `node_execution` | 3 calls, threshold 2, 2 attempts, all features on, clock to 2 | breaker and probe flag consistent (`BreakerSound`), no admission while cooling, late answers ignored, admitted calls settle |
| `agent_pool` | 3 requests of 2 priorities, two slots that come and go, down to none, retry, queue of 2, dispose | counts exact, no idle capacity beside a queue (`CapacityAccounted`), priority order and no accepted request turned away (`QueuedRequestsServedInOrder`), accepted requests settle unless no slot is left |
| `platform` | 2 sessions on 1 slot; a cancel, a review and a waiter of one of them, asynchronous store, any provider call fails, releases too | slots exact and never idle beside a queue, completed sessions hold nothing (`SlotsAccounted`), statuses move forward, but for the cancel and the review overwriting each other (`StatusMovesForward`) |
| `platform_liveness` | the same without failing releases and timeouts, synchronous store | sessions settle and waiters are answered (`NobodyHangs`), a cancel before the runner's return wins |
| `pregel_thread` | graph with fan-out, Sends, a loop, two interrupting nodes; 3 runs, 2 patches, a crash | updates at most once, none lost and history accumulates (`HistorySound`), interrupts resumable, answers accepted once, runs end |
| `agent_loop` | 4 turns, single, parallel and serial batches of 3 tools, 1 retry, budget of 9 messages, one message and a cancel at any time | calls answered and context within budget (`ConversationSound`), unsafe tools alone, cancel within the turn, and outcomes that differ only by a cancel the loop could no longer see (`CancelHonoured`), the loop ends |
| `swarm` | 2 threads (4 and 2 supersteps, 1 and 2 calls), 2 agents of which one is spawned and removed, routing model and round-robin, abort, deadline, recovery | load and status of the registry true, nothing new after the deadline, calls settle |
| `swarm_templates` | 3 tasks, 3 dependency graphs (chain, roots, cycle), pool of 2, each template; 2 rounds, 2 retries, scores 0..2; 2 executions scaled over a clock of 5 | `ResultsAreEarned`, every template ends, scaling bounded, cooled down and never against busy agents |
| `clients` | 2 external agents of different policies, 2 lines and 3 events; 2 connects and 1 call of MCP with a change and a request of the server; 5 operations on 1 language server, 2 files of which 1 is tracked; 2 touches over 2 servers, 3 spawns; 3 chunks of a remote agent | `ClientsSound`: answered runs are over, output bounded, no server left running, chunks without holes. `DocumentsInStep`: versions are those of this process. `ClientsSettle`: the refinements of SettleOnce, and the liveness of the two others |
| `services` | 2 callers, 2 keys, 3 calls in 4 session stores with a restart; 2 puts and a delete of 2 steps in 2 namespaces; 3 writes of 2 items in 3 stores; 4 messages with up to 2 calls, and 4 payloads, of 5 providers; 2 requests, 2 patterns, 2 emissions nested to depth 2; 2 files of tools; 3 tokens with 2 readers | `StoresSound`, `RepliesSound`, `EachOnce`, `SessionsAreAtomic` (refinement of AtomicStore), `AnswersSettle` (refinement of SettleOnce) |
| `harness` | 3 processes of which one may crash; 3 steps of a thread; 2 agents in 5 moments; 3 sessions over 2 days; batches of 1 or 2 calls against 2 lists of hooks, 3 scopes and 3 grants; 3 agents on 2 threads, 3 budgets; 2 experiments | `ChangesAreKept`, `WorkResumes`, `MemorySound`, `OnlyCheckedCallsRun`, `AgentsGuarded` |
| `modified_input` | expected violation | the input that an allowing hook gives is dropped (GUIDE.md:2219, `harness/hooks-engine.ts:271`) |

The conjunctions name what they are made of; the comment before each part says
which lines it is about.

**Why the bounds are enough.** Each run has the smallest population in which
the hazard it is about can happen, and one more of whatever may be reused: two
calls make a stale answer, a third makes it stale across a whole cycle of the
breaker; two requests compete for a slot, a third is queued behind them with
another priority; two threads overlap on one agent, and the overlap with
failures in either order is what the error latch is for; three runs of a thread
are one that interrupts, one that answers and one that overlaps or follows a
crash. Two callers of a store are one whose write is in the way of the other's;
three calls let one of them read afterwards. Three sessions of the memory are
one that archives, one that still has the old key and one that starts later.
Two messages after a call and its result are what a provider's form can
separate; four payloads are the start, two pieces and the end of a call.
Counters that the code leaves unbounded (turns, retries, calls, clock, files,
tokens, the nesting of arguments) have a bound of their own among the
constants, large enough that each branch guarded by them is taken on both
sides. All mutants are found within these bounds.

Two instances are smaller than the code allows, because a larger one meets a
disagreement of section 6: the runs of `pregel_thread` await one another
(`Overlap = FALSE`), and in `platform_liveness` the store is synchronous and
releases succeed. Where the instance reaches a disagreement, the property names
it: an empty pool (`AcceptedRequestsSettle`), a stale lock removed twice
(`ChangesAreKept`), a cancel and a review of one session (`Overwrites`), a
debate's last round (`VerdictsAreEarned`), writes that come after a rollback
(`ExperimentsHonest`).

Symmetry is used in `harness` and `modified_input` only, which check no
liveness: the three sessions are the sessions of the memory and the processes of
the shared files, and nothing else mentions them.

**Fairness.** Weak fairness of the steps of a run, call, session or request,
never of the environment (AgentPool: strong fairness of a request's progress,
which only the synchronous drain loop ever disables).
It stands for: the event loop runs every ready continuation, timers fire, and a
promise handed in by the user (model, tool, hook, provider, node function)
settles. The last is an assumption about the user's code that the code shares:
it has no watchdog beyond its timeouts. Where it has one, the assumption is not
made: the child process of an external agent may write for ever and hang, and
only its death after a kill signal that was delivered is fair; an MCP server, a
language server, a remote caller may never answer, and only the client's timers
are fair; a template's agent need not answer when it runs under a timeout. The
handler of an A2A server is user code again. Cancels, aborts, messages, spawns,
removals, retried calls, exits and crashes may but need not happen.
`CHECK_DEADLOCK FALSE` marks models that stop when all calls have been made.

**History variables** are declared as `history` or `ghost` in their modules.
No guard of an action that stands for code reads one; some record what the
program cannot know (what providers hold, the content a row was put with),
others what it does not keep (who ran what, what was delivered, dropped or put
before a delete).

## 4. What is proved

All theorems are of the form `Spec => []Inv`, `Spec => [][A]_vars` or
`Spec => AbstractSpec`, for every value of the constants that satisfies the
module's `ASSUME`. Each rests on an inductive invariant, stated in the proofs
module before its lemmas. TLC has checked what it can enumerate of them on the
run's instance; the ways on the wire of `StreamInv` quantify over functions to
the numbers and are only proved.

* **ServicesProofs**, node execution: `TypeCorrect`, `BreakerConsistent`,
  `ProbeFlagOwned`, together `BreakerIsSound`; `CoolDownRespected`,
  `LateAnswersIgnored`. Type correctness is inductive alone; the breaker's
  invariant says closed exactly below the threshold, and a set probe flag has a
  waiting probe, which is inductive together with the types. The action
  properties follow from them step by step.
  The stores: `StoresAreAtomic` is the refinement of AtomicStore, the initial
  states mapped to initial states and every step to one of its steps or a
  stutter, with the mapping the run checks. `StoresStaySound` by `StoresInv`: a
  reader that walks the entries of a step holds only what was stored since its
  call began (`CheckpointInv`); every embedding, roll-back and clean-up under
  way is about an item put after the last delete of its key or finds none
  (`ItemsInv`); every name of the registry comes from a file whose version
  loaded last exports it (`ToolsInv`).
  Those who tell others: `EveryoneToldOnce` by `EachOnceInv`. The code's matcher
  of topics finds what the reference finds (at the least pair of segments where
  they could differ they do not). A delivery keeps its places in the snapshot
  of a publication. A once listener is in one place: the live set of its type,
  or the set that only the bottom emission still visits. Dead letters are the
  end of what was pushed; what a token writer has queued is newer than
  all that any reader got; a ring holds what was put but for what it dropped or
  refused. `AnswersComeOnce` is the step simulation of SettleOnce for broker and
  bus, and that whatever is pending keeps the timer that will settle it.
* **PregelThreadProofs**: `UpdatesAppliedAtMostOnce` by `CountInv`: for each
  node, updates in the state of a live run plus those waiting to be applied
  never exceed the executions that returned, and every checkpoint is bounded by
  that count too. `AnswersAcceptedOnce` by `AnswerInv`: a session is pending,
  or in the hands of one run that holds its answer. `ThreadTypeCorrect`.
  `HistoriesSound` and `InterruptsResumable` assume `~Overlap`, as the run does:
  a caller that awaits each call before the next. Without it the two are false
  (overlapping calls overwrite each other's checkpoints, section 6); the two
  theorems before hold with overlap too.
* **AgentLoopProofs**: `UnsafeToolsRunAlone` by `CallsInv` (in a serial batch
  nothing is approved ahead of its turn, so one call runs at most),
  `CancelTakesEffect` by `CancelInv` (an abort of an earlier turn cannot be
  seen beyond the top of the loop), `OutcomesAgree` by `OutcomeInv` (the
  outcome is fixed before the first report); the two are `CancelsHonoured`.
  Outcomes agree without a cancel; with one, a cancelled handle may stand beside
  an error only if the cancel came in the turn that failed, and beside the turn
  limit only if it came in the last turn or the one before (section 6).
  `LoopTypeCorrect` without any hypothesis. `ConversationsSound` by
  `ConversationInv`: between turns a conversation is whole, that is each answer
  stands behind the message of its call, each call is made once and answered
  before the next message of the model, and messages are named by turns in
  order; each stage of the compaction is a choice of positions that keeps a
  conversation whole. It assumes that the summary model answers
  (`~SummaryMayFail`, as in the run): the truncation after a failed summary
  cuts between calls and answers (section 6).
* **SwarmProofs**: `LoadIsExact` and `StatusIsTrue`, together
  `RegistryIsTrue`, by `SwarmInv`:
  a run that executes an agent is counted in its load, and `LatchExact`, the
  strengthening that the status alone is too weak for: while tasks run, the
  latch holds exactly if one of the overlapping tasks failed. The proof sorts
  the steps of a run into quiet ones, the one that begins an execution, those
  that leave by `markIdle` or `markError`, and those that strand.
  `DeadlineIsFinal` by `ClockInv`: the clock starts with the first round, so an
  expired deadline is never mistaken for a first call. `SwarmTypeCorrect`.
  The templates: `TemplateResultsEarned`, one invariant for each. What a race
  settled while it runs is not good, so the first good answer is the winner;
  whatever a dag settled is good and what it awaits is ready, so nothing ran
  before what it depends on; the best of `topK` and the slots of a pool are
  counted by ranks; a claim (verdict, best result, rounds) is made only at the
  end, from the judgements kept until then. A debate's claim at
  its last round is none of these (section 6). That a critique tree is well
  formed is a bijection of parents and ranks. `ScalingStaysPaced` is the half of
  `ScalingIsSteady` about bounds and cooldown, whatever the timeline has lost.
  The other half, `ScalingSparesTheBusy`, is about a timeline that has lost
  nothing (`Untrimmed'`, of the timeline decided upon): matching starts with
  ends first in, first out leaves as many starts of an agent as executions of it
  are under way, and none of these began after the last start left
  (`WellPaired`). The matching is a fold; what it computes follows by induction
  over sets of positions (`FoldExists`, `FoldsAgree`, `FoldAppends`) from what
  it does with one more event (`PairsGrows`). `ScalingStaysSteady` is the whole
  property where the tracer has room for all events but the last
  (`2 * MaxExecutions - 1 <= MaxEvents`); section 6 says what becomes of it
  otherwise.
* **BackgroundPlatformProofs**: `PlatformAccounts`: `active` is the set of
  sessions whose runner is awaited, the queue enumerates the waiting ones and
  none waits beside a free slot, at every step between two awaits.
  `SessionsSettleForGood`: the status a call is about to write is never behind
  the one it replaces until the session settled, and then it stays. The whole
  of `StatusMovesForward` is `StatusForward`, for any calls about any sessions:
  a call that would write a status behind the stored one holds a copy read while
  the session awaited review, and another call has decided and saved since,
  which is `Overwrites`. No step of a session's execution is one.
* **ClientsProofs**, the agent pool first: `PoolBooksAreRight` and
  `QueueServedInOrder` by `PoolInv`: beside the counters, every request in
  flight has a slot, and the queue holds each waiting request once, in the order
  of dispatch and never more than `MaxQueueDepth` of them, so that a queue whose
  head was shifted off has room for it. Then one invariant for each client, since
  they share nothing.
  `DocumentsStayInStep` by `LspInv`: a process that is starting has been told
  of no document, and one that is ready of each tracked one at the tracked
  version. `ClientsAreSound`: `McpInv` says that an attempt to connect always
  starts from a client without a process, `Guarded` that the watchdogs of an
  external agent end with its process or before it and that who is answered has
  none. `RemoteInv` is about the wire: what lies in the buffer and the socket,
  wherever the body is cut, is a sequence of whole events that goes on in the
  queue, first the chunks the caller lacks, in order, and then only what ends
  a stream, where [DONE] comes behind all chunks.
  `ClientsAnswerOnce` is the step simulation of SettleOnce for the MCP client,
  the LSP client and the LSP manager: nobody is settled twice, unasked or with
  an answer that changes, and who is pending always has what will settle him:
  an attempt in flight, an entry of the table, a start that is shared.
* **RepliesProofs**: `RepliesStaySound` of the model adapters by `RepliesInv`.
  What an adapter makes of a conversation, of an answer, of lines and of the
  halves that arrive is a fold; any fold has a value after each element, got from
  the one before by its step (`FoldRuns`). For requests (`RequestInv`): after
  each message the turns say what the messages mean, and the results of each
  turn with calls follow it or, at Anthropic, wait to be told. For streams
  (`StreamInv`): what was told is the tale of the first m payloads (`Tale`: the
  text and ended calls told, and what each open call has); what was read ends at
  a place (so many lines, and halves of the next one), up to which the tale
  is told but for the lines the event keeps; and what is on the wire leads from
  there to the last line sent, unless the rest was lost (`Waiting`). Each
  half or line break that is read is a step on that way (`SymbolReads`), so a
  body that was read to its end has told everything.
* **HarnessProofs**, after sums over finite sets: `ChangesStayKept` by
  `FilesInv`: who writes holds the lock, and what he read is what is there. It
  holds until a process removes the lock file of a living one (`RobberyStep`),
  and then there was a crash and are two others (`RobbedByThree`); the
  invariant is the one or the other (`SharedInv`), for any number of processes
  and crashes. `WorkAlwaysResumes` by `HandoverInv` (sessions end in the order
  of their artifacts), `HistoryInv` (each row remembers the content it was put
  with, and the first mapping of a step is its commit) and `ImprovementInv`
  (who wrote each checkpoint an experiment may have to take back; while the
  snapshot is put back the thread has it or what late operations wrote). It
  does not speak of a rollback that crashed between its puts, nor of an
  experiment's in which the store failed or which found no earlier checkpoint.
  `UncheckedCallsNeverRun` by `GateInv`: the calls of a batch are decided in
  order, so every check a running call passed was about its arguments, paths
  and commands alike. `AgentsStayGuarded` by `LogsInv`, `SpendInv` and
  `TalkInv`: spending is the sum of what the calls cost, one call under way for
  each agent, and a transcript has the results of each turn before the next.
  `MemoryStaysSound` by `MemoryInv`: the files agree with what was noted; the
  extractor's loader lags behind but has no entry in two places; a session
  notes facts on one day.

The proofs about load, slots and queues count with cardinalities
(FiniteSetTheorems) and assume finitely many runs, requests or sessions; no
other assumption of finiteness is used. Where a fact is about sequences of any
length it is proved by positions: what an operator returns at each index, or
the least index that would violate it.

**Only model-checked**: all liveness (fairness is outside the prover's reach),
so that of `ClientsSettle` and `AnswersSettle` the theorems above show every
step and TLC that an answer comes; and `CancelTakesEffect` of
`platform_liveness`. Every other invariant and action property of a run has its
theorem.

## 5. Abstractions and what is left out

* Values, prompts, formatting, logging, spans, events and stream modes are
  left out everywhere, except where a property speaks of them.
* NodeExecution: content filters block or pass; the bound of 256 cache entries
  is left out because all calls share a key.
* PregelThread: no subgraphs and `Command.PARENT`, no `dynamicInterrupts`,
  debug mode or ephemeral channels, no `forkFrom`; the input of a second call
  is not applied again as data.
* AgentLoop: messages of equal weight; the checks of a call are one step (they
  are ToolGate's); tools and models are opaque; memory, todo and skill files
  are one flag each.
* SwarmSupervision: no mailbox; removal does not rewrite conditional edges
  (the supervisor and handoffs route by Command); the timeout of an agent is a
  failed attempt; swarms without a supervisor are not modelled, but for the
  templates.
* BackgroundPlatform: events, spans, audit and artifacts are left out.
* Templates: what agents and judges say is free, prompts are left out;
  pipeline, peer network and compose only add edges.
* Clients: command lines are four facts about the command; JSON is parsed as a
  whole or refused; the bytes of a server are whole messages, of
  which any number may come in one chunk (MCP).
* Stores: `search()`, `listNamespaces()` and what `list()` sorts are left out;
  a restart is one of the process, never of the database.
* Model adapters: texts, arguments, schemas and token counts are left out;
  `embed()` too.
* ToolGate: regular expressions of matchers are the sets of what they match;
  the runtime policy's paths are resolved by a function `Real`.
* Memory: relevance scores choose anything; INDEX files, which nothing reads
  back, are left out.
* The parts without a module keep no state that two steps share. The mailbox
  is a filter over a channel (SwarmSupervision leaves its messages out); the
  event bridge renames events; environments, integrations, loaders and the
  command line are I/O. PROJECT.json says it of each.

## 6. Disagreements met while modelling, without a run

The expected violation above has a run. These were met as well; the models do
what the code does, and the properties are stated so that they are true of it.

**Engine, loop, pool, swarm, platform**

* `circuit-breaker.ts:66`: `onFailure` frees the probe slot whichever call
  failed, so that a stale failure lets a second probe in beside the first
  (GUIDE.md:1454 "one probe request is allowed").
* `retry.ts:40`: an interrupt under a retry policy is retried and wrapped, and
  never passes as one (`pregel/execution.ts:158`).
* `pregel/streaming.ts:352`: the update of a node that completed beside an
  interrupted one is lost (comment at line 202).
* `harness/context-compactor.ts:327`: truncation after a failed summary may
  split a call from its answers (line 226 avoids just that).
* `platform/in-memory.ts:831`: a failing identity provider or grant leaves the
  provisioned environment unreleased (line 832); and a release that throws
  again in the catch clause leaves the session as it was, its waiters hanging.
* `hitl/interrupt.ts:113` says a resume value is never returned twice; a loop
  back to an answered node hands it the old answer (`pregel/streaming.ts:236`).
* `interruptAfter` saves the next nodes before they are deduplicated
  (`pregel/streaming.ts:493`, `:523`): the next run executes a node that two
  nodes lead to twice in one superstep.
* A session resumed by a run that then fails at a *later* interrupt becomes
  pending again beside the new session (`graph.ts:234`).
* A patch by `updateState` during a run is lost with the run's next checkpoint.
* A pause by `interruptBefore` leaves no mark: later runs stop there again.
* `interrupt()` inside a Send cannot be resumed, and failures of Sends reach no
  dead letter queue.
* The recursion limit is compared before the test whether work is left
  (`pregel/streaming.ts:114`).
* A pool can lose its last slot through removals while busy
  (`swarm/pool.ts:196`), against "AgentPool must retain at least one agent"; its
  queue then waits for `addSlots`, which `AcceptedRequestsSettle` excepts.
* A slot evicted at the end of its request sends the head of the queue
  through `invoke()` again, which puts it behind its equals
  (`swarm/pool.ts:312`).
* An abort during an agent's retry delay (`swarm/agent-node.ts:209`) leaves the
  agent busy for ever: it can no longer be deregistered. The comment at line 39
  guards the same outcome for onStart only. `RegistryTrue` counts it apart.
* `swarm/supervisor.ts:132`: the routing model is not bound by the deadline; an
  agent it names late is retried without being called, and is then in error
  although it never ran, which takes it out of `findIdle` for every thread.
* `removeAgent` wraps conditional edges for good, so an agent spawned again
  under the same id is not reached by them (`swarm/compile-ext.ts:117`).
* An `interrupt()` inside a swarm agent is caught and retried like an error
  (`swarm/agent-node.ts:196`).
* Broadcasts are hidden from later agents by the shared ids consumed
  (`swarm/mailbox.ts:37`, `swarm/agent-node.ts:57`); failed and handed-off
  executions record none, so their messages are delivered again.
* A cancel and a review of one session overwrite each other
  (`platform/in-memory.ts:650`, `:667`): of two calls that both read it while it
  awaited review the later write wins, and an approved session may end cancelled
  or the other way round. `StatusMovesForward` allows this and nothing else.
* An abort while the loop awaits an inference that then fails, or in the last
  turn, cancels the handle (`harness/background-agent.ts:83`), but the SessionEnd
  hook and the memory are told of an error or of the turn limit
  (`harness/loop/index.ts:207`).
* With an asynchronous store a waiter may register after the notification; and
  concurrent submits may pass `maxQueuedSessions`.
* A message sent in the last turn of a loop, or in one the Stop hook ends, is
  never delivered; an abort during backoff is followed by one more model call.
* Two agents spawned with one config object share the second one's signal and
  queue (`harness/background-agent.ts:41`).
* A tool that returns `undefined` ends the loop with an error at the next
  compaction check.

**Guardrails and the tool gate**

* "escalate" changes nothing (GUIDE: "flagged for review"); "block" ends the
  hooks of PreToolUse and the tool still runs (`loop/tools.ts:138`).
* A revoked grant is not seen by a running agent: the session's grant is
  replaced, the policy holds the old object (`platform/in-memory.ts:779`).
* A declared property that is null fails validation when nested and is skipped
  at the top; paths the tool's schema does not declare are not checked.
* `onBudgetExceeded: "interrupt"` does what "warn" does; limits "per run" add
  up over the invocations of one compiled graph (`pregel/index.ts:73`); a
  `record()` that throws loses its audit entry; NaN in a usage disables
  `maxTokens` of defineAgent; agents of `agent()` check no permissions and
  record no usage; siblings run on after a ToolPermissionError; the audit log
  drops the thread inserted first although it is active.

**Templates and scaling**

* Fan-out: the next batch starts while agents that timed out still run, so
  that more than `maxConcurrency` do (`factories.ts:112`, `config.ts:88`).
  Race and speculative execution leave timed-out agents running as well;
  `cancelledStrategies` lists those that had finished.
* A rubric critic that scores some dimensions only passes (`graph.ts:264`);
  GAN's `bestIteration` is null when all composites are 0; a criterion without
  a score is no hard fail; "NO CONSENSUS" contains the word that ends a debate;
  and a debate out of rounds says "Consensus" as well (`factories.ts:393`).
* Map-reduce keys results by mapper (`graph.ts:145`); the winner a judge names
  is not looked up; socratic coverage counts keys outside the dimensions.
* A pool of size 0 never returns; `maxConcurrentSearches` 0 loops for ever.
* Mesh and compose spread a team's whole result, so that appending channels
  repeat; handoff histories repeat as well; adversarial development changes
  arrays of the context in place and starts again at sprint 0.
* Reactive scaling never scales down (`scaling.ts:354`); a decision at clock 0
  starts no cooldown; the tracer's eviction hides executions under way.

**Clients**

* MCP: a request of the server is taken for the response of that id
  (`transport.ts:318`); a change announced in the chunk that ends a refresh
  joins the finished refresh (`client.ts:264`); after the server's exit the
  state stays "ready", so `connect()` returns at once; `connect()` resolves
  although `disconnect()` came during the start.
* LSP: a start that `disposeAll()` met registers its client afterwards, and may
  overwrite another that is never stopped (`lsp/index.ts:239`); a client that
  crashed is not marked broken; eviction without didClose leads to a second
  didOpen.
* External agents: after "exit" the watchdogs are cleared while the result
  waits for "close" (against `external-agent.ts:1034`); an abort before the
  spawn is not noticed; a kill that fails settles the run while the process
  lives; SIGTERM is sent once; the ready-made drivers drop `idleTimeoutMs`,
  `maxEvents` and `redactValues`; equal lines of one millisecond are merged;
  agents in parallel overwrite each other's `context.externalAgents`.
* A2A: a stream whose handler throws, whose read times out or that is answered
  by an error ends as if it were complete; `listen()` never cancels the handler
  of a client that left.

**Stores**

* Postgres and Redis clean up expired items without asking again
  (`stores/src/postgres/index.ts:125`): a put in between is lost, or unlisted.
* In memory, a rejected embedding may roll back to a value whose own put was
  rejected, and `get()` of an expired item leaves its vector; ttl 0 expires
  there and never does in Redis.
* Redis checkpoints: a put between the two commands of `delete()` leaves an
  orphan; `get()` may return a newer put of an older step.
* Artifacts in memory repeat where the other backends replace; one corrupt row
  makes `list()` throw; the JSON lock is one per process; namespaces "a" with
  "b:c" and "a:b" with "c" collide.

**Model adapters**

* OpenAI and OpenRouter emit no `tool_call_end` unless the reason is
  "tool_calls"; Google's answers are matched by name and its ids made of the
  clock; Anthropic drops the tools when a response format is set; OpenAI is
  sent `tool_choice` without tools.

**Coordination, tools, tokens**

* PubSub delivers to a handler that unsubscribed during the delivery, the event
  bus visits handlers added during it; nested publishes reach later subscribers
  out of order; listeners are still called after `removeAll()` or `dispose()`
  inside an emission, and a once listener may be called twice then.
* Two files that export one name: when one goes, so does the other's tool,
  although `loaded()` lists it; a reload that fails leaves the old tools
  unregistered.
* A BoundedBuffer of capacity 0 loses its indexes; tokens pushed after every
  reader returned stay unread.

**Harness**

* A stale lock may be removed twice, the second time when another process has
  created it anew, and two processes hold it (`utils.ts:83`, against line 49);
  `ChangesAreKept` holds until then; `initialize()` takes no lock, so two of
  them overwrite each other (`FeatureRegistry.ts:67`); `markResult` never
  throws what its comment says (line 151); `resolve` and `evaluate` accept a
  contract of any status; reviews of one millisecond are not ordered.
* `rollbackTo` takes the first mapping of a step that was put twice
  (`WorkspaceCheckpointer.ts:144`); a crash among its puts loses history; a
  step that changed no file cannot be rolled back to; `isGitAvailable` is true
  without git.
* A fix that failed under "fix" lets the session in; a smoke test that timed
  out runs on; after a reset the summary always says UNHEALTHY.
* Memory: facts are persisted under the name of the day's session log and
  replace it; `getFs` uses `require` in an ESM package; every call has a budget
  of its own; a key whose file another loader archived is found, with the text
  "<!-- Failed to read -->".
* Experiments: an operation that timed out may write after the rollback, and
  what it wrote may be the thread's latest checkpoint (`ExperimentsHonest` allows
  these writes and no others); a
  rollback without an earlier checkpoint does nothing and is reported as done;
  a failing delete or put is swallowed; a rollback deletes all other
  checkpoints of the thread.

## 7. Plan

Done, in this order: NodeExecution, AgentPool, BackgroundPlatform,
PregelThread, AgentLoop, SwarmSupervision with their proofs; then the clients
with SettleOnce, the stores with AtomicStore, models, coordination, templates
and scaling, tool gate and guardrails, the harness's files and memory, and what
loads, streams and experiments. What is left:

1. **The engine**: subgraphs and `Command.PARENT`, `dynamicInterrupts` and
   ephemeral channels in PregelThread; the mailbox in SwarmSupervision.
2. **Refinements**: the life cycle of a session as an abstract specification of
   BackgroundPlatform; the pool as a bounded priority server.
