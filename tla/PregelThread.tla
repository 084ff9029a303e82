---------------------------- MODULE PregelThread ----------------------------
(***************************************************************************)
(* The superstep engine on one thread: streamSupersteps                    *)
(* (src/src/pregel/streaming.ts) with its checkpoints (checkpointing.ts,   *)
(* MemoryCheckpointer in checkpoint.ts), interrupt() sessions              *)
(* (hitl/resume.ts), resume() (graph.ts) and updateState().                *)
(*                                                                         *)
(* A run is one invoke() or resume().  Each superstep first executes the   *)
(* pending Sends in parallel, then the pending nodes in parallel, waits    *)
(* for all of them, applies their updates, and saves a checkpoint.  What   *)
(* the channels hold is abstracted to how often each node's update has     *)
(* been applied and which updateState() patches are in.                    *)
(*                                                                         *)
(* A checkpointer call takes effect when it is issued; the code behind its *)
(* await is a later step whenever that code reads or writes shared state.  *)
(***************************************************************************)
EXTENDS Integers, Sequences, FiniteSets, SequencesExt

CONSTANTS
  Nodes, Start, End,
  Routes,           \* what the outgoing edges of a node, or its Command, may select
  Commands,         \* nodes that return a Command without a goto
  Questions,        \* how many interrupt() calls the function of a node makes
  Fallible,         \* nodes whose function may throw
  InterruptBefore,  \* compile({ interruptBefore })
  InterruptAfter,   \* compile({ interruptAfter })
  MaxRuns,          \* bound: invoke() and resume() calls on the thread
  MaxUpdates,       \* bound: updateState() calls on the thread
  RecursionLimit,   \* config.recursionLimit
  Overlap,          \* callers start a call before the previous one ended
  MayCrash          \* the process may stop once; checkpoints are durable

ASSUME PregelThreadAssumption ==
  /\ Start \notin Nodes /\ End \notin Nodes
  /\ DOMAIN Routes = Nodes \cup {Start}
  /\ \A n \in DOMAIN Routes : \A route \in Routes[n] :
        route \in [nodes : Seq(Nodes \cup {End}), sends : Seq(Nodes)]
  /\ Questions \in [Nodes -> Nat]
  /\ RecursionLimit \in Nat \ {0}
  /\ MaxRuns \in Nat /\ MaxUpdates \in Nat
  /\ Overlap \in BOOLEAN /\ MayCrash \in BOOLEAN

VARIABLES
  history,    \* the thread's checkpoints: superstep -> checkpoint
  session,    \* hitlStore: status of the session of the interrupt of each run
  asker,      \* the node that raised it
  pc,         \* where streamSupersteps is
  step, state,\* its local variables of these names
  work,       \* pendingNodes and pendingSends; where the Sends of the superstep lead
  tasks,      \* the nodes executing in this superstep
  status,     \* of each execution
  fresh,      \* nodeResults, sendResults: how many updates of each node wait
  claimed,    \* pendingInterrupt is set
  answers,    \* the session that a resume() answers
  out,        \* how the run ended
  upc, usnap, \* updateState calls and the checkpoint they read
  ran,        \* history variable: executions of each node that returned
  crashed

superstepVars == <<work, tasks, status, fresh, claimed>>
endVars == <<pc, out, session>>
vars == <<history, asker, step, state, superstepVars, endVars, answers,
          upc, usnap, ran, crashed>>

(* Calls are numbered in the order in which they are made. *)
Runs == 1..MaxRuns
Updates == 1..MaxUpdates
NoRun == 0

Steps == 0..RecursionLimit
Bag == [Nodes -> Nat]
NoResults == [n \in Nodes |-> 0]
State == [done : Bag, patches : SUBSET Updates]
InitialState == [done |-> NoResults, patches |-> {}]

Targets == Seq(Nodes \cup {End})
Checkpoint == [step : Steps, state : State, next : Targets, sends : Seq(Nodes)]
NoCheckpoint == [step |-> -1]

NoRoute == [nodes |-> <<>>, sends |-> <<>>]
NoWork == [next |-> <<>>, sends |-> <<>>, route |-> NoRoute]

TaskStatus == {"running", "ok", "failed", "halted", "saving", "asked"}
SessionStatus == {"none", "pending", "resumed", "expired"}
Ends == {"returned", "limit", "failed", "halted", "interrupted", "paused", "crashed"}

TypeOK ==
  /\ \A k \in Steps : \/ history[k] = NoCheckpoint
                      \/ (history[k] \in Checkpoint /\ history[k].step = k)
  /\ session \in [Runs -> SessionStatus]
  /\ asker \in [Runs -> Nodes \cup {Start}]
  /\ pc \in [Runs -> {"idle", "begin", "sends", "nodes", "done"}]
  /\ step \in [Runs -> Steps]
  /\ state \in [Runs -> State]
  /\ \A r \in Runs :
       work[r] \in [next : Targets, sends : Seq(Nodes),
                    route : [nodes : Targets, sends : Seq(Nodes)]]
  /\ \A r \in Runs : tasks[r] \in Seq(Nodes)
  /\ \A r \in Runs : status[r] \in [DOMAIN tasks[r] -> TaskStatus]
  /\ fresh \in [Runs -> Bag]
  /\ claimed \in [Runs -> BOOLEAN]
  /\ answers \in [Runs -> Runs \cup {NoRun}]
  /\ out \in [Runs -> Ends \cup {"none"}]
  /\ upc \in [Updates -> {"idle", "reading", "written", "skipped"}]
  /\ \A u \in Updates : usnap[u] \in Checkpoint \cup {NoCheckpoint}
  /\ ran \in Bag
  /\ crashed \in BOOLEAN

Init ==
  /\ history = [k \in Steps |-> NoCheckpoint]
  /\ session = [r \in Runs |-> "none"]
  /\ asker = [r \in Runs |-> Start]
  /\ pc = [r \in Runs |-> "idle"]
  /\ step = [r \in Runs |-> 0]
  /\ state = [r \in Runs |-> InitialState]
  /\ work = [r \in Runs |-> NoWork]
  /\ tasks = [r \in Runs |-> <<>>]
  /\ status = [r \in Runs |-> <<>>]
  /\ fresh = [r \in Runs |-> NoResults]
  /\ claimed = [r \in Runs |-> FALSE]
  /\ answers = [r \in Runs |-> NoRun]
  /\ out = [r \in Runs |-> "none"]
  /\ upc = [u \in Updates |-> "idle"]
  /\ usnap = [u \in Updates |-> NoCheckpoint]
  /\ ran = NoResults
  /\ crashed = FALSE

-----------------------------------------------------------------------------
(* Checkpoints *)

Saved == {k \in Steps : history[k] # NoCheckpoint}

(* MemoryCheckpointer.get: the history is kept sorted by step. *)
Latest ==
  IF Saved = {} THEN NoCheckpoint
  ELSE history[CHOOSE k \in Saved : \A j \in Saved : j <= k]

(* MemoryCheckpointer.put replaces the checkpoint of the same step. *)
Put(k, st, next, sends) ==
  history' = [history EXCEPT ![k] =
                [step |-> k, state |-> st, next |-> next, sends |-> sends]]

-----------------------------------------------------------------------------
(* Runs *)

Live(r) == pc[r] \in {"begin", "sends", "nodes"}

(* Callers that do not overlap their calls await each before the next. *)
Undisturbed == \/ Overlap
               \/ /\ \A r \in Runs : ~Live(r)
                  /\ \A u \in Updates : upc[u] # "reading"

IsNext(r) == pc[r] = "idle" /\ \A q \in Runs : q < r => pc[q] # "idle"

(* streamSupersteps up to its first superstep: the latest checkpoint, or    *)
(* the targets of the edges from START.                                     *)
Load(r) ==
  /\ pc' = [pc EXCEPT ![r] = "begin"]
  /\ IF Latest = NoCheckpoint
       THEN /\ \E route \in Routes[Start] :
                 work' = [work EXCEPT ![r] = [next |-> route.nodes, sends |-> route.sends,
                                              route |-> NoRoute]]
            /\ UNCHANGED <<step, state>>
       ELSE /\ work' = [work EXCEPT ![r] = [next |-> Latest.next, sends |-> Latest.sends,
                                            route |-> NoRoute]]
            /\ step' = [step EXCEPT ![r] = Latest.step]
            /\ state' = [state EXCEPT ![r] = Latest.state]
  /\ UNCHANGED <<history, asker, tasks, status, fresh, claimed, out,
                 upc, usnap, ran, crashed>>

Invoke(r) ==
  /\ IsNext(r) /\ Undisturbed
  /\ Load(r)
  /\ UNCHANGED <<session, answers>>

(* Mutant: the status of the session is not looked at. *)
ResumeAnySession(r, s) ==
  /\ IsNext(r) /\ Undisturbed
  /\ session[s] \in {"pending", "resumed"}
  /\ session' = [session EXCEPT ![s] = "resumed"]
  /\ answers' = [answers EXCEPT ![r] = s]
  /\ Load(r)

(* resume() refuses a session that is not pending and marks it before it    *)
(* invokes the runner.                                                      *)
Resume(r, s) ==
  /\ IsNext(r) /\ Undisturbed
  /\ session[s] = "pending"
  /\ session' = [session EXCEPT ![s] = "resumed"]
  /\ answers' = [answers EXCEPT ![r] = s]
  /\ Load(r)

(* resume() makes its session pending again when the run threw. *)
Finish(r, how) ==
  /\ pc' = [pc EXCEPT ![r] = "done"]
  /\ out' = [out EXCEPT ![r] = how]
  /\ session' = [s \in Runs |->
       IF s = answers[r] /\ session[s] = "resumed" /\ how # "returned"
         THEN "pending" ELSE session[s]]

FinishOnly(r, how) ==
  /\ Finish(r, how)
  /\ UNCHANGED <<history, asker, step, state, superstepVars, answers,
                 upc, usnap, ran, crashed>>

-----------------------------------------------------------------------------
(* The start of a superstep *)

Within(r) == pc[r] = "begin" /\ step[r] < RecursionLimit

(* The elements of s at the positions in P, in their order. *)
ElementsAt(s, P) ==
  [i \in 1..Cardinality(P) |-> s[CHOOSE k \in P : Cardinality({j \in P : j <= k}) = i]]

(* Nodes that also are the target of a Send are not run a second time. *)
Executable(r) ==
  LET next == work[r].next
  IN  ElementsAt(next, {i \in DOMAIN next : next[i] # End /\ ~Contains(work[r].sends, next[i])})

(* A node named in interruptBefore throws ONIInterrupt instead of running. *)
StartNodes(r) ==
  /\ pc' = [pc EXCEPT ![r] = "nodes"]
  /\ tasks' = [tasks EXCEPT ![r] = Executable(r)]
  /\ status' = [status EXCEPT ![r] =
       [i \in DOMAIN Executable(r) |->
          IF Executable(r)[i] \in InterruptBefore THEN "halted" ELSE "running"]]

LimitReached(r) == pc[r] = "begin" /\ step[r] >= RecursionLimit /\ FinishOnly(r, "limit")

Returns(r) ==
  /\ Within(r) /\ work[r].sends = <<>> /\ Executable(r) = <<>>
  /\ FinishOnly(r, "returned")

SendsStart(r) ==
  /\ Within(r) /\ work[r].sends # <<>>
  /\ pc' = [pc EXCEPT ![r] = "sends"]
  /\ tasks' = [tasks EXCEPT ![r] = work[r].sends]
  /\ status' = [status EXCEPT ![r] = [i \in DOMAIN work[r].sends |-> "running"]]
  /\ UNCHANGED <<history, session, asker, step, state, work, fresh, claimed, answers,
                 out, upc, usnap, ran, crashed>>

NodesStart(r) ==
  /\ Within(r) /\ work[r].sends = <<>> /\ Executable(r) # <<>>
  /\ StartNodes(r)
  /\ UNCHANGED <<history, session, asker, step, state, work, fresh, claimed, answers,
                 out, upc, usnap, ran, crashed>>

-----------------------------------------------------------------------------
(* Executions *)

Is(r, i, s) == i \in DOMAIN status[r] /\ status[r][i] = s
NodeOf(r, i) == tasks[r][i]

SetStatus(r, i, s) == status' = [status EXCEPT ![r][i] = s]

(* The resume value is handed to every execution of the node in the run,    *)
(* never to a Send.                                                         *)
Answered(r, i) ==
  pc[r] = "nodes" /\ answers[r] # NoRun /\ asker[answers[r]] = NodeOf(r, i)

Unanswered(r, i) == Questions[NodeOf(r, i)] > IF Answered(r, i) THEN 1 ELSE 0

TaskReturns(r, i) ==
  /\ Is(r, i, "running") /\ ~Unanswered(r, i)
  /\ SetStatus(r, i, "ok")
  /\ fresh' = [fresh EXCEPT ![r][NodeOf(r, i)] = @ + 1]
  /\ ran' = [ran EXCEPT ![NodeOf(r, i)] = @ + 1]
  /\ UNCHANGED <<history, asker, step, state, work, tasks, claimed, endVars, answers,
                 upc, usnap, crashed>>

(* An interrupt() in a Send is not caught: to the engine it is an error. *)
TaskThrows(r, i) ==
  /\ Is(r, i, "running")
  /\ NodeOf(r, i) \in Fallible \/ (pc[r] = "sends" /\ Unanswered(r, i))
  /\ SetStatus(r, i, "failed")
  /\ UNCHANGED <<history, asker, step, state, work, tasks, fresh, claimed, endVars,
                 answers, upc, usnap, ran, crashed>>

(* Mutant: every interrupting node saves its checkpoint. *)
FirstClaimOfAll(r) == TRUE

FirstClaim(r) == ~claimed[r]

(* The first interrupt() of the superstep claims the run, saves a           *)
(* checkpoint that names its node alone, and has a session recorded once    *)
(* that checkpoint has been read back; later ones only settle.              *)
NodeAsks(r, i) ==
  /\ pc[r] = "nodes" /\ Is(r, i, "running") /\ Unanswered(r, i)
  /\ IF FirstClaim(r)
       THEN /\ SetStatus(r, i, "saving")
            /\ claimed' = [claimed EXCEPT ![r] = TRUE]
            /\ Put(step[r], state[r], <<NodeOf(r, i)>>, <<>>)
       ELSE /\ SetStatus(r, i, "asked")
            /\ UNCHANGED <<claimed, history>>
  /\ UNCHANGED <<asker, step, state, work, tasks, fresh, endVars, answers,
                 upc, usnap, ran, crashed>>

NodeRecorded(r, i) ==
  /\ Live(r) /\ Is(r, i, "saving")
  /\ SetStatus(r, i, "asked")
  /\ session' = [session EXCEPT ![r] = "pending"]
  /\ asker' = [asker EXCEPT ![r] = NodeOf(r, i)]
  /\ UNCHANGED <<history, pc, step, state, work, tasks, fresh, claimed, answers, out,
                 upc, usnap, ran, crashed>>

-----------------------------------------------------------------------------
(* Results *)

SomeTask(r, s) == \E i \in DOMAIN status[r] : status[r][i] = s

(* Mutant: an interrupted node does not count as settled. *)
SettledWithoutInterrupts(r) ==
  \A i \in DOMAIN status[r] : status[r][i] \notin {"running", "saving", "asked"}

Settled(r) == \A i \in DOMAIN status[r] : status[r][i] \notin {"running", "saving"}

(* A Command without goto takes the nodes its edges select and no Sends. *)
Outgoing(n) == IF n \in Commands
                 THEN {[route EXCEPT !.sends = <<>>] : route \in Routes[n]}
                 ELSE Routes[n]

(* The routes that the results of a run's tasks may select, in order. *)
Selections(r) ==
  {pick \in [DOMAIN tasks[r] -> UNION {Outgoing(n) : n \in Nodes}] :
     \A i \in DOMAIN tasks[r] : pick[i] \in Outgoing(NodeOf(r, i))}

Extend(route, pick) ==
  [nodes |-> route.nodes \o FlattenSeq([i \in DOMAIN pick |-> pick[i].nodes]),
   sends |-> route.sends \o FlattenSeq([i \in DOMAIN pick |-> pick[i].sends])]

(* Mutant: at an interruptAfter node the results of the others are dropped. *)
AppliedUntilInterrupt(r) ==
  [state[r] EXCEPT !.done =
     [n \in Nodes |->
        @[n] + IF n \notin InterruptAfter /\ \E m \in InterruptAfter : fresh[r][m] > 0
                 THEN 0 ELSE fresh[r][n]]]

Applied(r) == [state[r] EXCEPT !.done = [n \in Nodes |-> @[n] + fresh[r][n]]]

(* Mutant: the updates that a superstep has applied are applied again. *)
ResultsTakenNever(r) == UNCHANGED fresh

ResultsTaken(r) == fresh' = [fresh EXCEPT ![r] = NoResults]

Dedup(nodes) ==
  ElementsAt(nodes, {i \in DOMAIN nodes : \A j \in 1..(i - 1) : nodes[j] # nodes[i]})

(* A failed Send ends the run before any result is applied. *)
SendsFailed(r) ==
  /\ pc[r] = "sends" /\ Settled(r) /\ SomeTask(r, "failed")
  /\ FinishOnly(r, "failed")

(* All Sends returned: apply, route, and go on with the nodes. *)
SendsSettled(r) ==
  /\ pc[r] = "sends" /\ Settled(r) /\ ~SomeTask(r, "failed")
  /\ StartNodes(r)
  /\ state' = [state EXCEPT ![r] = Applied(r)]
  /\ ResultsTaken(r)
  /\ \E pick \in Selections(r) :
       work' = [work EXCEPT ![r] = [next |-> @.next, sends |-> <<>>,
                                    route |-> Extend(NoRoute, pick)]]
  /\ UNCHANGED <<history, session, asker, step, claimed, answers, out,
                 upc, usnap, ran, crashed>>

(* The first error in node order is thrown, then the first interrupt. *)
NodesFailed(r) ==
  /\ pc[r] = "nodes" /\ Settled(r)
  /\ \/ SomeTask(r, "failed") /\ FinishOnly(r, "failed")
     \/ SomeTask(r, "halted") /\ FinishOnly(r, "halted")
     \/ /\ ~SomeTask(r, "failed") /\ ~SomeTask(r, "halted") /\ claimed[r]
        /\ FinishOnly(r, "interrupted")

(* interruptAfter: saved under the superstep's own number, routes as found. *)
Pauses(r, route) ==
  /\ \E i \in DOMAIN tasks[r] : NodeOf(r, i) \in InterruptAfter
  /\ Put(step[r], Applied(r), route.nodes, route.sends)
  /\ Finish(r, "paused")
  /\ UNCHANGED <<step, state, work, tasks, status>>

GoesOn(r, route) ==
  /\ ~\E i \in DOMAIN tasks[r] : NodeOf(r, i) \in InterruptAfter
  /\ Put(step[r] + 1, Applied(r), Dedup(route.nodes), route.sends)
  /\ step' = [step EXCEPT ![r] = @ + 1]
  /\ state' = [state EXCEPT ![r] = Applied(r)]
  /\ work' = [work EXCEPT ![r] = [next |-> Dedup(route.nodes), sends |-> route.sends,
                                  route |-> NoRoute]]
  /\ tasks' = [tasks EXCEPT ![r] = <<>>]
  /\ status' = [status EXCEPT ![r] = <<>>]
  /\ pc' = [pc EXCEPT ![r] = "begin"]
  /\ UNCHANGED <<session, out>>

(* All nodes returned: apply their updates, route, and pause or go on. *)
NodesSettled(r) ==
  /\ pc[r] = "nodes" /\ \A i \in DOMAIN status[r] : status[r][i] = "ok"
  /\ \E pick \in Selections(r) :
       LET route == Extend(work[r].route, pick) IN Pauses(r, route) \/ GoesOn(r, route)
  /\ ResultsTaken(r)
  /\ UNCHANGED <<asker, claimed, answers, upc, usnap, ran, crashed>>

-----------------------------------------------------------------------------
(* updateState(), session expiry, crash *)

(* withThreadLock admits one call at a time. *)
Unlocked == \A u \in Updates : upc[u] # "reading"

UpdateReads(u) ==
  /\ upc[u] = "idle" /\ \A v \in Updates : v < u => upc[v] # "idle"
  /\ Unlocked
  /\ Overlap \/ \A r \in Runs : ~Live(r)
  /\ upc' = [upc EXCEPT ![u] = IF Latest = NoCheckpoint THEN "skipped" ELSE "reading"]
  /\ usnap' = [usnap EXCEPT ![u] = Latest]
  /\ UNCHANGED <<history, asker, step, state, superstepVars, endVars, answers, ran, crashed>>

UpdateWrites(u) ==
  /\ upc[u] = "reading"
  /\ upc' = [upc EXCEPT ![u] = "written"]
  /\ LET cp == usnap[u]
     IN  Put(cp.step, [cp.state EXCEPT !.patches = @ \cup {u}], cp.next, cp.sends)
  /\ UNCHANGED <<asker, step, state, superstepVars, endVars, answers, usnap, ran, crashed>>

(* evict(): a session older than the TTL leaves the store. *)
Expire(s) ==
  /\ session[s] \in {"pending", "resumed"}
  /\ session' = [session EXCEPT ![s] = "expired"]
  /\ UNCHANGED <<history, asker, step, state, superstepVars, pc, out, answers,
                 upc, usnap, ran, crashed>>

(* The process stops: its runs, its calls and its session store are gone. *)
Crash ==
  /\ MayCrash /\ ~crashed
  /\ crashed' = TRUE
  /\ pc' = [r \in Runs |-> IF Live(r) THEN "done" ELSE pc[r]]
  /\ out' = [r \in Runs |-> IF Live(r) THEN "crashed" ELSE out[r]]
  /\ session' = [r \in Runs |-> IF session[r] = "none" THEN "none" ELSE "expired"]
  /\ upc' = [u \in Updates |-> IF upc[u] = "reading" THEN "skipped" ELSE upc[u]]
  /\ UNCHANGED <<history, asker, step, state, superstepVars, answers, usnap, ran>>

Engine(r) ==
  \/ LimitReached(r) \/ Returns(r) \/ SendsStart(r) \/ NodesStart(r)
  \/ SendsFailed(r) \/ SendsSettled(r) \/ NodesFailed(r) \/ NodesSettled(r)
  \/ Live(r) /\ \E i \in DOMAIN status[r] :
       TaskReturns(r, i) \/ TaskThrows(r, i) \/ NodeAsks(r, i) \/ NodeRecorded(r, i)

Next ==
  \/ \E r \in Runs : Invoke(r) \/ Engine(r) \/ \E s \in Runs : Resume(r, s)
  \/ \E u \in Updates : UpdateReads(u) \/ UpdateWrites(u)
  \/ \E s \in Runs : Expire(s)
  \/ Crash

(* Node functions settle and the engine's awaits are answered. *)
Fairness == \A r \in Runs : WF_vars(Engine(r))

Spec == Init /\ [][Next]_vars /\ Fairness

-----------------------------------------------------------------------------
(* Properties *)

CommittedState == IF Latest = NoCheckpoint THEN InitialState ELSE Latest.state

(* No update is ever in a checkpoint more often than its node returned,     *)
(* whatever fails, is retried, interrupted, overlapped or crashes.          *)
AppliedAtMostOnce ==
  \A k \in Saved, n \in Nodes : history[k].state.done[n] <= ran[n]

(* While no superstep was cut short, between supersteps no result is        *)
(* missing either: interruptAfter and re-entering a thread drop nothing.    *)
NothingLost ==
  (\A r \in Runs : /\ pc[r] \notin {"sends", "nodes"}
                   /\ out[r] \in {"none", "returned", "paused", "limit"})
  => CommittedState.done = ran

(* Time travel: a checkpoint contains every effect of the ones before it,   *)
(* also when supersteps are saved again under the same number.              *)
HistoryAccumulates ==
  \A j, k \in Saved : j < k =>
    /\ \A n \in Nodes : history[j].state.done[n] <= history[k].state.done[n]
    /\ history[j].state.patches \subseteq history[k].state.patches

(* A patch that updateState() has written while no run was active is still  *)
(* there after any later run, interrupt or update.                          *)
UpdatesKept == \A u \in Updates : upc[u] = "written" => u \in CommittedState.patches

(* The thread's checkpoints are a sound history: they grow, and neither an  *)
(* update of an uninterrupted superstep nor a written patch is lost.        *)
HistorySound == TypeOK /\ NothingLost /\ HistoryAccumulates /\ UpdatesKept

(* An answer is accepted once: at most one run that resumed a session is    *)
(* active or has returned.                                                  *)
AnswerAcceptedOnce ==
  \A r, q \in Runs :
    (/\ r # q /\ answers[r] = answers[q] /\ answers[r] # NoRun
     /\ (Live(r) \/ out[r] = "returned"))
    => ~Live(q) /\ out[q] # "returned"

(* When a run surfaces an interrupt(), the stored checkpoint names exactly  *)
(* the node of the one session recorded for it, so that resume() re-enters  *)
(* that node, however many nodes of the superstep interrupted.              *)
InterruptIsResumable ==
  [][\A r \in Runs :
       out[r] = "none" /\ out'[r] = "interrupted" =>
         /\ session[r] # "none"
         /\ Latest.step = step[r]
         /\ Latest.next = <<asker[r]>>]_vars

(* Every run ends, by the recursion limit if by nothing else. *)
RunsEnd == \A r \in Runs : Live(r) ~> ~Live(r)
=============================================================================
