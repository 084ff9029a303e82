----------------------------- MODULE SwarmProofs -----------------------------
(***************************************************************************)
(* Proofs about swarms.                                                    *)
(*                                                                         *)
(* SwarmSupervision: the load and the status that the registry records of  *)
(* each agent are true, for every set of agents and threads, every graph   *)
(* of handoffs and every number of retries and calls.                      *)
(*                                                                         *)
(* The templates: what they report was earned, for every number of tasks,  *)
(* graph of dependencies, size of a pool, rubric, team and tree; and the   *)
(* scaling monitor keeps its bounds and its cooldown, and spares the busy. *)
(***************************************************************************)
EXTENDS SwarmSupervision, MCSwarmTemplates, FiniteSetTheorems, WellFoundedInduction, TLAPS

PCs == {"idle", "scheduled", "routing", "failing"} \cup Executing \cup Settled

Typed ==
  /\ seat \in [Agents -> Nat]
  /\ status \in [Agents -> {"idle", "busy", "error"}]
  /\ active \in [Agents -> Nat]
  /\ pendingError \in [Agents -> BOOLEAN]
  /\ burstFailed \in [Agents -> BOOLEAN]
  /\ stranded \in [Agents -> Nat]
  /\ pc \in [Runs -> PCs]
  /\ target \in [Runs -> Agents \cup {Supervisor, END}]
  /\ \A r \in Runs : pc[r] \in Executing => target[r] \in Agents

(* The latch of an agent remembers exactly the failures of the tasks that   *)
(* overlap with those that still run.                                       *)
LatchOf(a) ==
  /\ status[a] = "busy" <=> active[a] > 0
  /\ active[a] = 0 => (status[a] = "error" <=> burstFailed[a])
  /\ pendingError[a] <=> active[a] > 0 /\ burstFailed[a]

LatchExact == \A a \in Agents : LatchOf(a)

SwarmInv == Typed /\ SlotsAccounted /\ LatchExact

-----------------------------------------------------------------------------
(* The runs that execute an agent are finitely many.                        *)
LEMMA HoldersFinite ==
  ASSUME NEW a
  PROVE  IsFiniteSet(Holders(a)) /\ Cardinality(Holders(a)) \in Nat
<1>1. Holders(a) \in SUBSET Runs
  BY DEF Holders
<1>2. IsFiniteSet(Holders(a))
  BY <1>1, SwarmAssumption, FS_Subset
<1> QED
  BY <1>2, FS_CardinalityType

(* A run that holds an agent is counted in its load.                        *)
LEMMA HolderCounts ==
  ASSUME SwarmInv, NEW r \in Runs, pc[r] \in Executing
  PROVE  target[r] \in Agents /\ active[target[r]] > 0
<1>1. target[r] \in Agents
  BY DEF SwarmInv, Typed
<1>2. r \in Holders(target[r])
  BY DEF Holders
<1>3. Cardinality(Holders(target[r])) > 0
  BY <1>2, HoldersFinite, FS_EmptySet
<1> QED
  BY <1>1, <1>3, HoldersFinite DEF SwarmInv, SlotsAccounted, Typed

(* What a step of the engine or of a node between markBusy and its release  *)
(* leaves alone.                                                            *)
Quiet(r) ==
  /\ UNCHANGED <<registryVars, stranded>>
  /\ pc' \in [Runs -> PCs] /\ target' \in [Runs -> Agents \cup {Supervisor, END}]
  /\ \A s \in Runs \ {r} : pc'[s] = pc[s] /\ target'[s] = target[s]
  /\ pc'[r] \in Executing <=> pc[r] \in Executing
  /\ pc[r] \in Executing => target'[r] = target[r]

LEMMA QuietKeeps ==
  ASSUME SwarmInv, NEW r \in Runs, Quiet(r)
  PROVE  SwarmInv'
<1>1. \A a : Holders(a)' = Holders(a)
  BY DEF Holders, Quiet
<1>2. Typed'
  BY DEF SwarmInv, Typed, Quiet, registryVars
<1>3. SlotsAccounted'
  BY <1>1 DEF SwarmInv, SlotsAccounted, Quiet, registryVars
<1>4. LatchExact'
  BY DEF SwarmInv, LatchExact, LatchOf, Quiet, registryVars
<1> QED
  BY <1>2, <1>3, <1>4 DEF SwarmInv

(* markBusy on behalf of a run that begins to hold the agent.               *)
LEMMA BeginKeeps ==
  ASSUME SwarmInv, NEW r \in Runs, NEW a \in Agents, seat[a] # 0,
         pc[r] = "scheduled", target[r] = a, target' = target,
         pc' = [pc EXCEPT ![r] = "starting"],
         MarkBusy(a), UNCHANGED stranded
  PROVE  SwarmInv'
<1>1. Holders(a)' = Holders(a) \cup {r} /\ r \notin Holders(a)
  BY DEF Holders, Executing, SwarmInv, Typed
<1>2. \A b \in Agents \ {a} : Holders(b)' = Holders(b)
  BY DEF Holders, Executing, SwarmInv, Typed
<1>3. Cardinality(Holders(a)') = Cardinality(Holders(a)) + 1
  BY <1>1, HoldersFinite, FS_AddElement
<1>4. Typed'
  BY DEF SwarmInv, Typed, MarkBusy, PCs, Executing
<1>5. SlotsAccounted'
  <2>1. active'[a] = Cardinality(Holders(a)') + stranded'[a]
    BY <1>3, HoldersFinite DEF SwarmInv, SlotsAccounted, MarkBusy, Typed
  <2>2. \A b \in Agents \ {a} : active'[b] = Cardinality(Holders(b)') + stranded'[b]
    BY <1>2 DEF SwarmInv, SlotsAccounted, MarkBusy, Typed
  <2>3. \A b \in Agents : seat'[b] = 0 => active'[b] = 0
    BY DEF SwarmInv, SlotsAccounted, MarkBusy, Typed
  <2> QED
    BY <2>1, <2>2, <2>3 DEF SlotsAccounted
<1>6. LatchExact'
  BY DEF SwarmInv, LatchExact, LatchOf, MarkBusy, Typed
<1> QED
  BY <1>4, <1>5, <1>6 DEF SwarmInv

(* A run stops holding its agent: what that does to the sets of holders.    *)
Leaves(r) ==
  /\ pc[r] \in Executing
  /\ pc' \in [Runs -> PCs] /\ target' \in [Runs -> Agents \cup {Supervisor, END}]
  /\ pc'[r] \notin Executing
  /\ \A s \in Runs \ {r} : pc'[s] = pc[s] /\ target'[s] = target[s]

LEMMA LeavesHolders ==
  ASSUME SwarmInv, NEW r \in Runs, Leaves(r), NEW a \in Agents, target[r] = a
  PROVE  /\ Cardinality(Holders(a)') = Cardinality(Holders(a)) - 1
         /\ \A b \in Agents \ {a} : Holders(b)' = Holders(b)
<1>1. Holders(a)' = Holders(a) \ {r} /\ r \in Holders(a)
  BY DEF Holders, Leaves
<1>2. \A b \in Agents \ {a} : Holders(b)' = Holders(b)
  BY DEF Holders, Leaves
<1>3. Cardinality(Holders(a)') = Cardinality(Holders(a)) - 1
  BY <1>1, HoldersFinite, FS_RemoveElement
<1> QED
  BY <1>2, <1>3

(* Leaving by way of markIdle or markError.                                 *)
LEMMA ReleaseKeeps ==
  ASSUME SwarmInv, NEW r \in Runs, Leaves(r), UNCHANGED stranded,
         MarkIdle(target[r]) \/ MarkError(target[r])
  PROVE  SwarmInv'
<1>0. PICK a \in Agents : target[r] = a
  BY HolderCounts DEF Leaves
<1>1. active[a] > 0
  BY <1>0, HolderCounts DEF Leaves
<1>2. active' = [active EXCEPT ![a] = active[a] - 1] /\ seat' = seat
  BY <1>0, <1>1 DEF MarkIdle, MarkError, Release, SwarmInv, Typed
<1>3. Typed'
  <2>1. Drained(a) \in BOOLEAN
    BY DEF Drained
  <2>2. /\ status' \in [Agents -> {"idle", "busy", "error"}]
        /\ pendingError' \in [Agents -> BOOLEAN]
        /\ burstFailed' \in [Agents -> BOOLEAN]
    <3>1. CASE MarkIdle(a)
      BY <2>1, <3>1 DEF SwarmInv, Typed, MarkIdle
    <3>2. CASE MarkError(a)
      BY <2>1, <3>2 DEF SwarmInv, Typed, MarkError
    <3> QED
      BY <1>0, <3>1, <3>2
  <2>3. seat' \in [Agents -> Nat] /\ active' \in [Agents -> Nat] /\ stranded' \in [Agents -> Nat]
    BY <1>1, <1>2 DEF SwarmInv, Typed
  <2>4. \A s \in Runs : pc'[s] \in Executing => target'[s] \in Agents
    BY DEF SwarmInv, Typed, Leaves
  <2> QED
    BY <2>2, <2>3, <2>4 DEF Typed, Leaves
<1>4. SlotsAccounted'
  <2>1. active'[a] = Cardinality(Holders(a)') + stranded'[a]
    BY <1>0, <1>1, <1>2, LeavesHolders, HoldersFinite DEF SwarmInv, SlotsAccounted, Typed
  <2>2. \A b \in Agents \ {a} : active'[b] = Cardinality(Holders(b)') + stranded'[b]
    BY <1>0, <1>1, <1>2, LeavesHolders DEF SwarmInv, SlotsAccounted, Typed
  <2>3. \A b \in Agents : seat'[b] = 0 => active'[b] = 0
    BY <1>1, <1>2 DEF SwarmInv, SlotsAccounted, Typed
  <2> QED
    BY <2>1, <2>2, <2>3 DEF SlotsAccounted
<1>5. LatchExact'
  <2>1. Drained(a) <=> active'[a] = 0
    BY <1>1, <1>2 DEF Drained, SwarmInv, Typed
  <2>2. \A b \in Agents \ {a} :
          /\ status'[b] = status[b] /\ active'[b] = active[b]
          /\ pendingError'[b] = pendingError[b] /\ burstFailed'[b] = burstFailed[b]
    BY <1>0, <1>2 DEF SwarmInv, Typed, MarkIdle, MarkError
  <2>3. \A b \in Agents \ {a} : LatchOf(b)'
    BY <2>2 DEF SwarmInv, LatchExact, LatchOf
  <2>4. status'[a] \in {"idle", "busy", "error"} /\ burstFailed'[a] \in BOOLEAN
    BY <1>3 DEF Typed
  <2>5. ASSUME Drained(a) PROVE LatchOf(a)'
    <3>1. active'[a] = 0 /\ pendingError'[a] = FALSE
      BY <1>0, <2>1, <2>5 DEF MarkIdle, MarkError, SwarmInv, Typed
    <3>2. CASE MarkIdle(a)
      <4>1. status'[a] = (IF pendingError[a] THEN "error" ELSE "idle") /\ burstFailed'[a] = burstFailed[a]
        BY <2>5, <3>2 DEF MarkIdle, SwarmInv, Typed
      <4>2. pendingError[a] <=> burstFailed[a]
        BY <1>1 DEF SwarmInv, LatchExact, LatchOf
      <4> QED
        BY <3>1, <4>1, <4>2 DEF LatchOf
    <3>3. CASE MarkError(a)
      <4>1. status'[a] = "error" /\ burstFailed'[a] = TRUE
        BY <2>5, <3>3 DEF MarkError, SwarmInv, Typed
      <4> QED
        BY <3>1, <4>1 DEF LatchOf
    <3> QED
      BY <1>0, <3>2, <3>3
  <2>6. ASSUME ~Drained(a) PROVE LatchOf(a)'
    <3>1. active'[a] > 0 /\ status'[a] = status[a] /\ status[a] = "busy"
      BY <1>0, <1>1, <1>2, <2>1, <2>6 DEF MarkIdle, MarkError, SwarmInv, Typed, LatchExact, LatchOf
    <3>2. pendingError'[a] <=> burstFailed'[a]
      BY <1>0, <1>1, <2>6 DEF MarkIdle, MarkError, SwarmInv, Typed, LatchExact, LatchOf
    <3> QED
      BY <3>1, <3>2 DEF LatchOf
  <2> QED
    BY <2>3, <2>5, <2>6 DEF LatchExact, LatchOf
<1> QED
  BY <1>3, <1>4, <1>5 DEF SwarmInv

(* Leaving without either.                                                  *)
LEMMA StrandKeeps ==
  ASSUME SwarmInv, NEW r \in Runs, pc[r] \in Executing, Strands(r),
         target' = target, UNCHANGED registryVars
  PROVE  SwarmInv'
<1>1. PICK a \in Agents : target[r] = a
  BY HolderCounts
<1>2. Leaves(r)
  BY DEF Leaves, Strands, SwarmInv, Typed, PCs, Settled, Executing
<1>3. Typed'
  BY <1>1 DEF SwarmInv, Typed, Strands, registryVars, PCs, Settled, Executing
<1>4. SlotsAccounted'
  <2>1. active'[a] = Cardinality(Holders(a)') + stranded'[a]
    BY <1>1, <1>2, LeavesHolders, HoldersFinite
    DEF SwarmInv, SlotsAccounted, Typed, Strands, registryVars
  <2>2. \A b \in Agents \ {a} : active'[b] = Cardinality(Holders(b)') + stranded'[b]
    BY <1>1, <1>2, LeavesHolders DEF SwarmInv, SlotsAccounted, Typed, Strands, registryVars
  <2>3. \A b \in Agents : seat'[b] = 0 => active'[b] = 0
    BY DEF SwarmInv, SlotsAccounted, registryVars
  <2> QED
    BY <2>1, <2>2, <2>3 DEF SlotsAccounted
<1>5. LatchExact'
  BY DEF SwarmInv, LatchExact, LatchOf, registryVars
<1> QED
  BY <1>3, <1>4, <1>5 DEF SwarmInv

-----------------------------------------------------------------------------
(* The registry's own operations.                                           *)
LEMMA SpawnKeeps ==
  ASSUME SwarmInv, NEW a \in Agents, SpawnAgent(a)
  PROVE  SwarmInv'
<1>1. \A b : Holders(b)' = Holders(b)
  BY DEF Holders, SpawnAgent, engineVars
<1>2. Cardinality(Registered) + 1 \in Nat /\ Cardinality(Registered) + 1 # 0
  <2>1. Registered \in SUBSET Agents
    BY DEF Registered
  <2>2. IsFiniteSet(Registered)
    BY <2>1, SwarmAssumption, FS_Subset
  <2>3. Cardinality(Registered) \in Nat
    BY <2>2, FS_CardinalityType
  <2> QED
    BY <2>3
<1>3. Typed'
  BY <1>2 DEF SwarmInv, Typed, SpawnAgent, engineVars
<1>4. active' = active
  BY DEF SwarmInv, SlotsAccounted, SpawnAgent, Typed
<1>5. SlotsAccounted'
  <2>1. \A b \in Agents : active'[b] = Cardinality(Holders(b)') + stranded'[b]
    BY <1>1, <1>4 DEF SwarmInv, SlotsAccounted, SpawnAgent
  <2>2. \A b \in Agents : seat'[b] = 0 => active'[b] = 0
    BY <1>2, <1>4 DEF SwarmInv, SlotsAccounted, SpawnAgent, Typed
  <2> QED
    BY <2>1, <2>2 DEF SlotsAccounted
<1>6. LatchExact'
  BY <1>4 DEF SwarmInv, LatchExact, LatchOf, SlotsAccounted, SpawnAgent, Typed
<1> QED
  BY <1>3, <1>5, <1>6 DEF SwarmInv

LEMMA RemoveKeeps ==
  ASSUME SwarmInv, NEW a \in Agents, RemoveAgent(a)
  PROVE  SwarmInv'
<1>1. \A b : Holders(b)' = Holders(b)
  BY DEF Holders, RemoveAgent, engineVars
<1>2. \A b \in Agents : seat'[b] \in Nat /\ (seat'[b] = 0 => b = a \/ seat[b] = 0)
  BY DEF SwarmInv, Typed, RemoveAgent, MayDeregister
<1>3. Typed'
  BY <1>2 DEF SwarmInv, Typed, RemoveAgent, engineVars
<1>4. SlotsAccounted'
  BY <1>1, <1>2 DEF SwarmInv, SlotsAccounted, RemoveAgent, MayDeregister
<1>5. LatchExact'
  BY DEF SwarmInv, LatchExact, LatchOf, RemoveAgent
<1> QED
  BY <1>3, <1>4, <1>5 DEF SwarmInv

-----------------------------------------------------------------------------
(* Steps of a run. *)
LEMMA GotoQuiet ==
  ASSUME SwarmInv, NEW r \in Runs, NEW n \in Agents \cup {Supervisor, END}, Goto(r, n),
         pc[r] \notin Executing, UNCHANGED <<registryVars, stranded>>
  PROVE  Quiet(r)
BY DEF Goto, Quiet, SwarmInv, Typed, PCs, Executing

LEMMA MovesQuiet ==
  ASSUME SwarmInv, NEW r \in Runs, NEW w \in PCs, Moves(r, w),
         w \in Executing <=> pc[r] \in Executing, UNCHANGED <<registryVars, stranded>>
  PROVE  Quiet(r)
BY DEF Moves, Quiet, SwarmInv, Typed, engineVars

LEMMA MovesLeaves ==
  ASSUME SwarmInv, NEW r \in Runs, NEW w \in PCs \ Executing, Moves(r, w),
         pc[r] \in Executing
  PROVE  Leaves(r)
BY DEF Moves, Leaves, SwarmInv, Typed, engineVars

LEMMA SupervisorKeeps ==
  ASSUME SwarmInv, NEW r \in Runs,
         \/ SupervisorStops(r) \/ SupervisorRecovers(r) \/ SupervisorRoutes(r)
         \/ SupervisorAsks(r) \/ ModelRoutes(r) \/ ModelFails(r)
  PROVE  SwarmInv'
<1> USE DEF PCs, Executing, Settled
<1>1. ASSUME NEW choice, Follow(r, choice), pc[r] \notin Executing
      PROVE  Quiet(r)
  BY <1>1, GotoQuiet DEF Follow, Dispatch, Registered
<1>2. CASE SupervisorStops(r)
  BY <1>2, GotoQuiet, QuietKeeps DEF SupervisorStops, At
<1>3. CASE SupervisorRecovers(r)
  BY <1>3, GotoQuiet, QuietKeeps DEF SupervisorRecovers, SupervisorGoesOn, At, Dispatch
<1>4. CASE SupervisorRoutes(r)
  BY <1>1, <1>4, QuietKeeps DEF SupervisorRoutes, SupervisorGoesOn, At
<1>5. CASE SupervisorAsks(r)
  BY <1>5, MovesQuiet, QuietKeeps DEF SupervisorAsks, SupervisorGoesOn, At
<1>6. CASE ModelRoutes(r)
  BY <1>1, <1>6, QuietKeeps DEF ModelRoutes
<1>7. CASE ModelFails(r)
  BY <1>7, MovesQuiet, QuietKeeps DEF ModelFails
<1> QED
  BY <1>2, <1>3, <1>4, <1>5, <1>6, <1>7

LEMMA AgentKeeps ==
  ASSUME SwarmInv, NEW r \in Runs,
         \/ AgentStarts(r) \/ OnStartReturns(r) \/ OnStartThrows(r)
         \/ AttemptBegins(r) \/ AgentReturns(r) \/ OnCompleteReturns(r)
         \/ RetryAtOnce(r) \/ RetryLater(r) \/ RetryDelayOver(r) \/ DelayRejected(r)
         \/ AgentGivesUp(r) \/ OnErrorReturns(r)
  PROVE  SwarmInv'
<1> USE DEF PCs, Executing, Settled
<1>1. CASE AgentStarts(r)
  <2>1. PICK a \in Registered : At(r, a) /\ MarkBusy(a) /\ Moves(r, "starting") /\ UNCHANGED stranded
    BY <1>1 DEF AgentStarts
  <2> QED
    BY <2>1, BeginKeeps DEF At, Registered, Moves, engineVars
<1>2. CASE OnStartReturns(r)
  BY <1>2, MovesQuiet, QuietKeeps DEF OnStartReturns
<1>3. CASE OnStartThrows(r)
  BY <1>3, MovesLeaves, ReleaseKeeps DEF OnStartThrows
<1>4. CASE AttemptBegins(r)
  BY <1>4, MovesQuiet, QuietKeeps DEF AttemptBegins
<1>5. CASE AgentReturns(r)
  BY <1>5, MovesQuiet, QuietKeeps DEF AgentReturns
<1>6. CASE OnCompleteReturns(r)
  <2>1. PICK n \in HandsOffTo[target[r]] \cup {Supervisor, END} : Goto(r, n)
    BY <1>6 DEF OnCompleteReturns
  <2>2. target[r] \in Agents
    BY <1>6, HolderCounts DEF OnCompleteReturns
  <2>3. n \in Agents \cup {Supervisor, END}
    BY <2>1, <2>2, SwarmAssumption
  <2>4. Leaves(r)
    BY <1>6, <2>1, <2>3 DEF OnCompleteReturns, Goto, Leaves, SwarmInv, Typed
  <2> QED
    BY <1>6, <2>4, ReleaseKeeps DEF OnCompleteReturns
<1>7. CASE RetryAtOnce(r)
  BY <1>7, MovesQuiet, QuietKeeps DEF RetryAtOnce, AttemptFailed
<1>8. CASE RetryLater(r)
  BY <1>8, MovesQuiet, QuietKeeps DEF RetryLater, MayDelay, AttemptFailed
<1>9. CASE RetryDelayOver(r)
  BY <1>9, MovesQuiet, QuietKeeps DEF RetryDelayOver
<1>10. CASE DelayRejected(r)
  BY <1>10, StrandKeeps DEF DelayRejected, MayDelay, AttemptFailed, engineVars
<1>11. CASE AgentGivesUp(r)
  BY <1>11, MovesLeaves, ReleaseKeeps DEF AgentGivesUp, AttemptFailed
<1>12. CASE OnErrorReturns(r)
  <2>1. CASE OnErrorThrows
    BY <1>12, <2>1, MovesQuiet, QuietKeeps DEF OnErrorReturns
  <2>2. CASE ~OnErrorThrows
    BY <1>12, <2>2, GotoQuiet, QuietKeeps DEF OnErrorReturns
  <2> QED
    BY <2>1, <2>2
<1> QED
  BY <1>1, <1>2, <1>3, <1>4, <1>5, <1>6, <1>7, <1>8, <1>9, <1>10, <1>11, <1>12

LEMMA CallerKeeps ==
  ASSUME SwarmInv, NEW r \in Runs, NoNodeRuns(r) \/ CallerStep(r)
  PROVE  SwarmInv'
<1> USE DEF PCs, Executing, Settled
<1>1. CASE NoNodeRuns(r)
  <2>1. \E w \in {"failed", "ended"} : Moves(r, w)
    BY <1>1 DEF NoNodeRuns
  <2> QED
    BY <1>1, <2>1, MovesQuiet, QuietKeeps DEF NoNodeRuns
<1>2. CASE Invoke(r)
  <2>1. Quiet(r)
    BY <1>2 DEF Invoke, Quiet, SwarmInv, Typed
  <2> QED
    BY <2>1, QuietKeeps
<1>3. CASE Abort(r)
  <2>1. CASE pc[r] = "sleeping"
    BY <1>3, <2>1, StrandKeeps DEF Abort
  <2>2. CASE pc[r] # "sleeping"
    <3>1. Quiet(r)
      BY <1>3, <2>2 DEF Abort, Quiet, SwarmInv, Typed
    <3> QED
      BY <3>1, QuietKeeps
  <2> QED
    BY <2>1, <2>2
<1>4. CASE DeadlinePasses(r)
  <2>1. Quiet(r)
    BY <1>4 DEF DeadlinePasses, Quiet, SwarmInv, Typed, engineVars
  <2> QED
    BY <2>1, QuietKeeps
<1> QED
  BY <1>1, <1>2, <1>3, <1>4 DEF CallerStep

-----------------------------------------------------------------------------
LEMMA SwarmInitially == Init => SwarmInv
<1> SUFFICES ASSUME Init PROVE SwarmInv
  OBVIOUS
<1>1. Cardinality(InitialAgents) \in Nat
  BY SwarmAssumption, FS_Subset, FS_CardinalityType
<1>2. Typed
  BY <1>1 DEF Init, Typed, PCs, Executing
<1>3. \A a : Holders(a) = {}
  BY DEF Holders, Init, Executing
<1>4. SlotsAccounted
  <2>1. \A a \in Agents : active[a] = 0 /\ stranded[a] = 0
    BY DEF Init
  <2>2. Cardinality({}) = 0
    BY FS_EmptySet
  <2> QED
    BY <1>3, <2>1, <2>2 DEF SlotsAccounted
<1>5. LatchExact
  BY DEF LatchExact, LatchOf, Init
<1> QED
  BY <1>2, <1>4, <1>5 DEF SwarmInv

LEMMA SwarmStep == SwarmInv /\ [Next]_vars => SwarmInv'
<1> SUFFICES ASSUME SwarmInv, [Next]_vars PROVE SwarmInv'
  OBVIOUS
<1>1. ASSUME NEW r \in Runs, RunStep(r) PROVE SwarmInv'
  BY <1>1, CallerKeeps, SupervisorKeeps, AgentKeeps DEF RunStep
<1>2. ASSUME NEW r \in Runs, CallerStep(r) PROVE SwarmInv'
  BY <1>2, CallerKeeps
<1>3. ASSUME NEW a \in Agents, SpawnAgent(a) \/ RemoveAgent(a) PROVE SwarmInv'
  BY <1>3, SpawnKeeps, RemoveKeeps
<1>4. CASE UNCHANGED vars
  <2>1. \A a : Holders(a)' = Holders(a)
    BY <1>4 DEF Holders, vars, engineVars
  <2> QED
    BY <1>4, <2>1 DEF SwarmInv, Typed, SlotsAccounted, LatchExact, LatchOf, vars, registryVars, engineVars
<1> QED
  BY <1>1, <1>2, <1>3, <1>4 DEF Next

(* Whatever hooks, agents, models and callers do, the load of an agent is   *)
(* the number of runs that execute it and of those aborted in a retry       *)
(* delay, and only agents without load leave the registry.                  *)
THEOREM LoadIsExact == Spec => []SlotsAccounted
<1>1. SwarmInv => SlotsAccounted
  BY DEF SwarmInv
<1> QED
  BY <1>1, SwarmInitially, SwarmStep, PTL DEF Spec

(* The status of an agent is true of its load and of the failures of its    *)
(* last burst of overlapping tasks.                                         *)
THEOREM StatusIsTrue == Spec => []StatusTruthful
<1>1. SwarmInv => StatusTruthful
  BY DEF SwarmInv, LatchExact, LatchOf, StatusTruthful
<1> QED
  BY <1>1, SwarmInitially, SwarmStep, PTL DEF Spec

(* Load and status of every agent are true in every reachable state.        *)
THEOREM RegistryIsTrue == Spec => []RegistryTrue
<1>1. SlotsAccounted /\ StatusTruthful => RegistryTrue
  BY DEF RegistryTrue
<1> QED
  BY <1>1, LoadIsExact, StatusIsTrue, PTL

-----------------------------------------------------------------------------
(* The clock of a thread starts with its first round.                       *)
ClockInv ==
  /\ pc \in [Runs -> PCs]
  /\ round \in [Runs -> Nat]
  /\ deadline \in [Runs -> {"unset", "running", "expired"}]
  /\ \A r \in Runs : deadline[r] # "unset" => round[r] > 0

(* What NothingNewAfterDeadline says of the step of one run.                *)
Final(r) ==
  deadline[r] = "expired" =>
    /\ pc[r] # "routing" => round'[r] = round[r]
    /\ pc'[r] = "invoking" => pc[r] = "invoking"

(* Steps that neither begin a round nor call a skeleton.                    *)
LEMMA KeepsRound ==
  ASSUME ClockInv, NEW r \in Runs, NEW w \in PCs \ {"invoking"}, pc' = [pc EXCEPT ![r] = w],
         UNCHANGED <<round, deadline>>
  PROVE  ClockInv' /\ \A s \in Runs : Final(s)
BY DEF ClockInv, Final

LEMMA BeginsRound ==
  ASSUME ClockInv, NEW r \in Runs, NEW a, Dispatch(r, a),
         deadline[r] = "expired" => pc[r] = "routing"
  PROVE  ClockInv' /\ \A s \in Runs : Final(s)
<1> USE DEF PCs, Executing, Settled
<1>1. /\ pc' = [pc EXCEPT ![r] = "scheduled"] /\ round' = [round EXCEPT ![r] = @ + 1]
      /\ deadline' = [deadline EXCEPT ![r] = IF HasDeadline /\ @ = "unset" THEN "running" ELSE @]
  BY DEF Dispatch, Goto
<1>2. ClockInv'
  BY <1>1 DEF ClockInv
<1> QED
  BY <1>1, <1>2 DEF ClockInv, Final

LEMMA SupervisorKeepsClock ==
  ASSUME ClockInv, NEW r \in Runs,
         \/ SupervisorStops(r) \/ SupervisorRecovers(r) \/ SupervisorRoutes(r)
         \/ SupervisorAsks(r) \/ ModelRoutes(r) \/ ModelFails(r)
  PROVE  ClockInv' /\ \A s \in Runs : Final(s)
<1> USE DEF PCs, Executing, Settled
<1>1. SupervisorGoesOn(r) => deadline[r] # "expired"
  BY DEF SupervisorGoesOn, OutOfTime, ClockInv
<1>2. ASSUME NEW choice, Follow(r, choice), deadline[r] = "expired" => pc[r] = "routing"
      PROVE  ClockInv' /\ \A s \in Runs : Final(s)
  BY <1>2, BeginsRound, KeepsRound DEF Follow, Goto
<1>3. CASE SupervisorStops(r)
  BY <1>3, KeepsRound DEF SupervisorStops, Goto, channelVars
<1>4. CASE SupervisorRecovers(r)
  BY <1>1, <1>4, BeginsRound DEF SupervisorRecovers
<1>5. CASE SupervisorRoutes(r)
  BY <1>1, <1>2, <1>5 DEF SupervisorRoutes
<1>6. CASE SupervisorAsks(r)
  BY <1>6, KeepsRound DEF SupervisorAsks, Moves, channelVars
<1>7. CASE ModelRoutes(r)
  BY <1>2, <1>7 DEF ModelRoutes
<1>8. CASE ModelFails(r)
  BY <1>8, KeepsRound DEF ModelFails, Moves, channelVars
<1> QED
  BY <1>3, <1>4, <1>5, <1>6, <1>7, <1>8

LEMMA AgentKeepsClock ==
  ASSUME ClockInv, NEW r \in Runs,
         \/ AgentStarts(r) \/ OnStartReturns(r) \/ OnStartThrows(r)
         \/ AttemptBegins(r) \/ AgentReturns(r) \/ OnCompleteReturns(r)
         \/ RetryAtOnce(r) \/ RetryLater(r) \/ RetryDelayOver(r) \/ DelayRejected(r)
         \/ AgentGivesUp(r) \/ OnErrorReturns(r) \/ NoNodeRuns(r) \/ CallerStep(r)
  PROVE  ClockInv' /\ \A s \in Runs : Final(s)
<1> USE DEF PCs, Executing, Settled, channelVars
<1>1. CASE AttemptBegins(r)
  BY <1>1 DEF AttemptBegins, Moves, ClockInv, Final
<1>2. CASE OnCompleteReturns(r) \/ OnErrorReturns(r)
  BY <1>2, KeepsRound DEF OnCompleteReturns, OnErrorReturns, Goto, Moves
<1>3. CASE AgentStarts(r) \/ OnStartReturns(r) \/ OnStartThrows(r) \/ AgentReturns(r)
  BY <1>3, KeepsRound DEF AgentStarts, OnStartReturns, OnStartThrows, AgentReturns, Moves
<1>4. CASE RetryAtOnce(r) \/ RetryLater(r) \/ RetryDelayOver(r) \/ DelayRejected(r) \/ AgentGivesUp(r)
  BY <1>4, KeepsRound DEF RetryAtOnce, RetryLater, RetryDelayOver, DelayRejected, AgentGivesUp,
                          Moves, Strands
<1>5. CASE NoNodeRuns(r)
  BY <1>5, KeepsRound DEF NoNodeRuns, Moves
<1>6. CASE Invoke(r)
  BY <1>6, KeepsRound DEF Invoke
<1>7. CASE Abort(r)
  BY <1>7 DEF Abort, Strands, ClockInv, Final
<1>8. CASE DeadlinePasses(r)
  BY <1>8 DEF DeadlinePasses, ClockInv, Final
<1> QED
  BY <1>1, <1>2, <1>3, <1>4, <1>5, <1>6, <1>7, <1>8 DEF CallerStep

LEMMA ClockStep ==
  ASSUME ClockInv, Next
  PROVE  ClockInv' /\ \A s \in Runs : Final(s)
<1>1. ASSUME NEW r \in Runs, RunStep(r) \/ CallerStep(r)
      PROVE  ClockInv' /\ \A s \in Runs : Final(s)
  BY <1>1, SupervisorKeepsClock, AgentKeepsClock DEF RunStep
<1>2. ASSUME NEW a \in Agents, SpawnAgent(a) \/ RemoveAgent(a)
      PROVE  ClockInv' /\ \A s \in Runs : Final(s)
  BY <1>2 DEF SpawnAgent, RemoveAgent, ClockInv, Final, channelVars
<1> QED
  BY <1>1, <1>2 DEF Next

(* No step begins a round or calls a skeleton once the deadline has passed, *)
(* except the answer of a routing model asked before.                       *)
THEOREM DeadlineIsFinal == Spec => NothingNewAfterDeadline
<1>1. Init => ClockInv
  BY DEF Init, ClockInv, PCs
<1>2. ClockInv /\ [Next]_vars => ClockInv'
  BY ClockStep DEF ClockInv, vars, channelVars
<1>3. ClockInv /\ [Next]_vars =>
        [\A r \in Runs : deadline[r] = "expired" =>
           /\ pc[r] # "routing" => round'[r] = round[r]
           /\ pc'[r] = "invoking" => pc[r] = "invoking"]_vars
  BY ClockStep DEF Final
<1> QED
  BY <1>1, <1>2, <1>3, PTL DEF Spec, NothingNewAfterDeadline

-----------------------------------------------------------------------------
(* The counters of a thread stay within their limits: a node only runs in a *)
(* superstep below the recursion limit, a model is only asked below         *)
(* maxRounds, and a retry delay only runs before the last attempt.          *)
WithinLimits(r) ==
  /\ step[r] <= RecursionLimit[r] /\ calls[r] <= MaxCalls[r]
  /\ pc[r] \in {"routing", "failing"} \cup Executing => step[r] < RecursionLimit[r]
  /\ pc[r] = "routing" => round[r] < MaxRounds
  /\ pc[r] = "sleeping" => attempt[r] < MaxRetries
  /\ pc[r] = "failing" => target[r] \in Agents

Counters ==
  /\ step \in [Runs -> Nat] /\ calls \in [Runs -> Nat]
  /\ aborted \in [Runs -> BOOLEAN]
  /\ candidates \in [Runs -> SUBSET Agents]
  /\ round \in [Runs -> 0..MaxRounds]
  /\ deadline \in [Runs -> {"unset", "running", "expired"}]
  /\ lastErr \in [Runs -> Agents \cup {None}]
  /\ attempt \in [Runs -> 0..MaxRetries]

ThreadInv == Counters /\ (\A r \in Runs : WithinLimits(r)) /\ strategy \in Strategies

LEMMA Limits ==
  /\ MaxRounds \in Nat /\ MaxRetries \in Nat
  /\ RecursionLimit \in [Runs -> Nat] /\ MaxCalls \in [Runs -> Nat]
BY SwarmAssumption

LEMMA SupervisorKeepsLimits ==
  ASSUME SwarmInv, ThreadInv, NEW r \in Runs,
         \/ SupervisorStops(r) \/ SupervisorRecovers(r) \/ SupervisorRoutes(r)
         \/ SupervisorAsks(r) \/ ModelRoutes(r) \/ ModelFails(r)
  PROVE  ThreadInv'
<1> USE Limits DEF ThreadInv, Counters, WithinLimits, SwarmInv, Typed, PCs, Executing, Settled
<1>1. ASSUME NEW a, Dispatch(r, a), step[r] < RecursionLimit[r], round[r] < MaxRounds,
             UNCHANGED <<strategy, attempt>>, lastErr' \in [Runs -> Agents \cup {None}],
             candidates' \in [Runs -> SUBSET Agents]
      PROVE  ThreadInv'
  BY <1>1 DEF Dispatch, Goto
<1>2. ASSUME NEW choice, Follow(r, choice), step[r] < RecursionLimit[r], round[r] < MaxRounds,
             candidates' \in [Runs -> SUBSET Agents]
      PROVE  ThreadInv'
  <2>1. CASE Dispatch(r, choice)
    BY <1>1, <1>2, <2>1 DEF Follow
  <2>2. CASE Goto(r, END) /\ UNCHANGED <<round, deadline>>
    BY <1>2, <2>2 DEF Follow, Goto
  <2> QED
    BY <1>2, <2>1, <2>2 DEF Follow
<1>3. CASE SupervisorStops(r)
  BY <1>3 DEF SupervisorStops, At, Goto, channelVars
<1>4. CASE SupervisorRecovers(r)
  BY <1>1, <1>4 DEF SupervisorRecovers, SupervisorGoesOn, At
<1>5. CASE SupervisorRoutes(r)
  BY <1>2, <1>5 DEF SupervisorRoutes, SupervisorGoesOn, At
<1>6. CASE SupervisorAsks(r)
  BY <1>6 DEF SupervisorAsks, SupervisorGoesOn, At, Moves, engineVars, channelVars, Registered
<1>7. CASE ModelRoutes(r)
  BY <1>2, <1>7 DEF ModelRoutes
<1>8. CASE ModelFails(r)
  BY <1>8 DEF ModelFails, Moves, engineVars, channelVars
<1> QED
  BY <1>3, <1>4, <1>5, <1>6, <1>7, <1>8

LEMMA AgentKeepsLimits ==
  ASSUME SwarmInv, ThreadInv, NEW r \in Runs,
         \/ AgentStarts(r) \/ OnStartReturns(r) \/ OnStartThrows(r)
         \/ AttemptBegins(r) \/ AgentReturns(r) \/ OnCompleteReturns(r)
         \/ RetryAtOnce(r) \/ RetryLater(r) \/ RetryDelayOver(r) \/ DelayRejected(r)
         \/ AgentGivesUp(r) \/ OnErrorReturns(r) \/ NoNodeRuns(r) \/ CallerStep(r)
  PROVE  ThreadInv'
<1> USE Limits DEF ThreadInv, Counters, WithinLimits, SwarmInv, Typed, PCs, Executing, Settled
<1>1. ASSUME NEW w \in PCs \ {"routing"}, Moves(r, w), pc[r] # "failed" \/ w = "failed",
             w \in Executing \cup {"failing"} => step[r] < RecursionLimit[r],
             w = "sleeping" => attempt'[r] < MaxRetries,
             w = "failing" => target[r] \in Agents,
             attempt' \in [Runs -> 0..MaxRetries],
             \A s \in Runs \ {r} : attempt'[s] = attempt[s],
             UNCHANGED <<strategy, candidates, channelVars>>
      PROVE  ThreadInv'
  BY <1>1 DEF Moves, engineVars, channelVars
<1>2. CASE AgentStarts(r)
  BY <1>1, <1>2 DEF AgentStarts, At
<1>3. CASE OnStartReturns(r) \/ OnStartThrows(r) \/ AttemptBegins(r) \/ AgentReturns(r)
  BY <1>1, <1>3 DEF OnStartReturns, OnStartThrows, AttemptBegins, AgentReturns
<1>4. CASE OnCompleteReturns(r)
  BY <1>4 DEF OnCompleteReturns, Goto, Forget, channelVars
<1>5. CASE RetryAtOnce(r) \/ RetryDelayOver(r)
  BY <1>1, <1>5 DEF RetryAtOnce, RetryDelayOver, AttemptFailed, RetriesLeft
<1>6. CASE RetryLater(r)
  BY <1>1, <1>6 DEF RetryLater, MayDelay, AttemptFailed, RetriesLeft
<1>7. CASE DelayRejected(r)
  BY <1>7 DEF DelayRejected, Strands, Forget, engineVars, channelVars
<1>8. CASE AgentGivesUp(r)
  BY <1>1, <1>8 DEF AgentGivesUp, AttemptFailed, Forget
<1>9. CASE OnErrorReturns(r)
  BY <1>9 DEF OnErrorReturns, Moves, Goto, engineVars
<1>10. CASE NoNodeRuns(r)
  BY <1>1, <1>10 DEF NoNodeRuns
<1>11. CASE Invoke(r)
  BY <1>11 DEF Invoke, channelVars
<1>12. CASE Abort(r)
  BY <1>12 DEF Abort, Strands, Forget, channelVars
<1>13. CASE DeadlinePasses(r)
  BY <1>13 DEF DeadlinePasses, engineVars
<1> QED
  BY <1>2, <1>3, <1>4, <1>5, <1>6, <1>7, <1>8, <1>9, <1>10, <1>11, <1>12, <1>13 DEF CallerStep

LEMMA LimitsInitially == Init => ThreadInv
<1> SUFFICES ASSUME Init PROVE ThreadInv
  OBVIOUS
<1>1. Counters
  BY Limits DEF Init, Counters
<1>2. \A r \in Runs : WithinLimits(r)
  BY Limits DEF Init, WithinLimits, Executing
<1> QED
  BY <1>1, <1>2 DEF ThreadInv, Init

LEMMA LimitsStep == SwarmInv /\ ThreadInv /\ [Next]_vars => ThreadInv'
<1> SUFFICES ASSUME SwarmInv, ThreadInv, [Next]_vars PROVE ThreadInv'
  OBVIOUS
<1>1. ASSUME NEW r \in Runs, RunStep(r) \/ CallerStep(r) PROVE ThreadInv'
  BY <1>1, SupervisorKeepsLimits, AgentKeepsLimits DEF RunStep
<1>2. ASSUME UNCHANGED <<strategy, pc, engineVars, candidates, channelVars, attempt>>
      PROVE  ThreadInv'
  BY <1>2 DEF ThreadInv, Counters, WithinLimits, engineVars, channelVars
<1>3. ASSUME NEW a \in Agents, SpawnAgent(a) \/ RemoveAgent(a) PROVE ThreadInv'
  BY <1>2, <1>3 DEF SpawnAgent, RemoveAgent
<1> QED
  BY <1>1, <1>2, <1>3 DEF Next, vars

(* No thread exceeds its recursion limit, its rounds or its retries, and    *)
(* every record stays of its type.                                          *)
THEOREM SwarmTypeCorrect == Spec => []TypeOK
<1>1. SwarmInv /\ ThreadInv => TypeOK
  BY DEF SwarmInv, Typed, PCs, ThreadInv, Counters, WithinLimits, TypeOK
<1> QED
  BY <1>1, SwarmInitially, SwarmStep, LimitsInitially, LimitsStep, PTL DEF Spec

-----------------------------------------------------------------------------
(***************************************************************************)
(* The templates that call agents at once.  Ranks come first: what comes   *)
(* before what in a finite set is counted by a different number for each   *)
(* member, so that the first k members are k at most.                      *)
(***************************************************************************)
LEMMA RanksAreFew ==
  ASSUME NEW S, IsFiniteSet(S), NEW k \in Nat, NEW F \in SUBSET S, NEW rank \in [F -> 0..(k - 1)],
         \A x, y \in F : rank[x] = rank[y] => x = y
  PROVE  Cardinality(F) <= k
<1>1. rank \in Injection(F, 0..(k - 1))
  BY DEF Injection, IsInjective
<1>2. IsFiniteSet(0..(k - 1)) /\ Cardinality(0..(k - 1)) = k
  BY FS_Interval
<1> QED
  BY <1>1, <1>2, FS_Injection

LEMMA LargestOf ==
  ASSUME NEW n \in Nat, NEW T, T \subseteq 0..n, T # {}
  PROVE  \E k \in T : \A j \in T : j <= k
<1> DEFINE Above(k) == k..n
           Family == {Above(k) : k \in T}
<1>1. Family \subseteq SUBSET (0..n) /\ Family # {}
  <2>1. ASSUME NEW k \in T PROVE Above(k) \subseteq 0..n
    OBVIOUS
  <2> QED BY <2>1
<1>2. IsWellFoundedOn(StrictSubsetOrdering(0..n), SUBSET (0..n))
  <2>1. IsFiniteSet(0..n)
    BY FS_Interval
  <2>2. FiniteSubsetsOf(0..n) = SUBSET (0..n)
    BY <2>1, FS_FiniteSubsetsOfFinite
  <2> QED BY <2>2, FS_StrictSubsetOrderingWellFounded
<1>3. PICK F \in Family : \A E \in Family : ~(<<E, F>> \in StrictSubsetOrdering(0..n))
  <2> HIDE DEF Family
  <2> QED BY <1>1, <1>2, WFMin
<1>4. PICK k \in T : F = Above(k)
  BY <1>3
<1>5. ASSUME NEW j \in T, k < j PROVE FALSE
  <2>1. Above(j) \in Family
    OBVIOUS
  <2>2. Above(j) \subseteq Above(k) /\ k \in Above(k) /\ k \notin Above(j)
    BY <1>5
  <2> QED
    BY <1>1, <1>3, <1>4, <2>1, <2>2 DEF StrictSubsetOrdering
<1> QED BY <1>5

LEMMA LeastOf ==
  ASSUME NEW S, S \subseteq Nat, S # {}
  PROVE  \E k \in S : \A j \in S : k <= j
<1>1. PICK n \in S : TRUE
  OBVIOUS
<1> DEFINE T == {i \in 0..n : n - i \in S}
<1>2. n \in Nat /\ T \subseteq 0..n /\ 0 \in T
  OBVIOUS
<1>3. PICK i \in T : \A j \in T : j <= i
  <2> HIDE DEF T
  <2> QED BY <1>2, LargestOf
<1>4. ASSUME NEW j \in S, j < n - i PROVE FALSE
  <2>1. n - j \in 0..n /\ n - (n - j) = j
    BY <1>3, <1>4
  <2> QED
    BY <1>3, <1>4, <2>1
<1> QED
  BY <1>3, <1>4

LEMMA TasksFinite == IsFiniteSet(Tasks) /\ Tasks \subseteq Nat
<1>1. TaskCount \in Int /\ 1 \in Int
  BY ParallelAssumption
<1>2. IsFiniteSet(1..TaskCount)
  BY <1>1, FS_Interval
<1> QED
  BY <1>1, <1>2 DEF Tasks

LEMMA TaskSetsFinite ==
  ASSUME NEW S \in SUBSET Tasks
  PROVE  IsFiniteSet(S) /\ Cardinality(S) \in Nat
BY TasksFinite, FS_Subset, FS_CardinalityType

LEMMA FirstOfBounded ==
  ASSUME NEW S \in SUBSET Tasks, NEW k \in Nat
  PROVE  FirstOf(k, S) \subseteq S /\ Cardinality(FirstOf(k, S)) <= k
<1> DEFINE Below(t) == {u \in S : u < t}
           rank == [t \in FirstOf(k, S) |-> Cardinality(Below(t))]
<1>1. FirstOf(k, S) \subseteq S
  BY DEF FirstOf
<1>2. \A t \in Tasks : Below(t) \in SUBSET Tasks
  OBVIOUS
<1>3. \A t \in Tasks : IsFiniteSet(Below(t)) /\ Cardinality(Below(t)) \in Nat
  BY <1>2, TaskSetsFinite
<1>4. ASSUME NEW t \in S, NEW u \in S, t < u
      PROVE  Cardinality(Below(t)) < Cardinality(Below(u))
  <2>0. S \subseteq Nat
    BY TasksFinite
  <2>a. t \in Below(u) /\ t \notin Below(t)
    BY <1>4, <2>0
  <2>b. ASSUME NEW v \in Below(t) PROVE v \in Below(u)
    <3>1. v \in S /\ v < t /\ v \in Nat /\ t \in Nat /\ u \in Nat
      BY <2>0
    <3>2. v < u
      BY <1>4, <3>1
    <3> QED
      BY <3>1, <3>2
  <2>1. Below(t) \in SUBSET Below(u) /\ t \in Below(u) /\ t \notin Below(t)
    BY <2>a, <2>b
  <2>2. Cardinality(Below(t)) <= Cardinality(Below(u)) /\ Cardinality(Below(t)) # Cardinality(Below(u))
    BY <1>3, <2>1, FS_Subset
  <2> QED
    BY <1>3, <2>2
<1>5. rank \in [FirstOf(k, S) -> 0..(k - 1)]
  <2>1. \A t \in FirstOf(k, S) : Cardinality(Below(t)) < k
    BY DEF FirstOf
  <2> QED
    BY <1>1, <1>3, <2>1
<1>6. \A t, u \in FirstOf(k, S) : rank[t] = rank[u] => t = u
  <2> SUFFICES ASSUME NEW t \in FirstOf(k, S), NEW u \in FirstOf(k, S), t # u PROVE rank[t] # rank[u]
    OBVIOUS
  <2>0. t \in S /\ u \in S /\ t \in Nat /\ u \in Nat
    BY <1>1, TasksFinite
  <2>1. t \in S /\ u \in S /\ (t < u \/ u < t)
    BY <2>0
  <2>2. rank[t] = Cardinality(Below(t)) /\ rank[u] = Cardinality(Below(u))
    OBVIOUS
  <2>3. Cardinality(Below(t)) \in Nat /\ Cardinality(Below(u)) \in Nat
    BY <1>3, <2>1
  <2> HIDE DEF Below, rank
  <2> QED
    BY <1>4, <2>1, <2>2, <2>3
<1> HIDE DEF rank
<1> QED
  BY <1>1, <1>5, <1>6, TaskSetsFinite, RanksAreFew

-----------------------------------------------------------------------------
(***************************************************************************)
(* The invariant.  Which stages and which states of the node belong to     *)
(* which template; while a race runs, nothing that settled was good; while *)
(* a dag runs, everything that settled was; and what is awaited fits.      *)
(***************************************************************************)
ParallelTyped ==
  /\ node \in {"running", "aggregating", "deciding", "returned", "threw"}
  /\ stage \in [Tasks -> {"waiting", "onStart", "open", "closing", "checking", "settled"}]
  /\ outcome \in [Tasks -> {"none", "good", "refused", "failed"}]
  /\ call \in [Tasks -> {"none", "running", "over"}]
  /\ winner \in Tasks \cup {0}
  /\ signalled \in BOOLEAN
  /\ DOMAIN recorded = Tasks

StagesFit ==
  /\ \A t \in Tasks : stage[t] \in {"onStart", "closing"} => template = "fanOut"
  /\ \A t \in Tasks : stage[t] = "checking" => template = "speculative"
  /\ node = "deciding" => Racing
  /\ node = "aggregating" => template = "ensemble"

WinnerInv ==
  Racing =>
    /\ node = "running" =>
         winner = 0 /\ \A t \in Tasks : stage[t] = "settled" => outcome[t] # "good"
    /\ winner # 0 => outcome[winner] = "good" /\ stage[winner] = "settled" /\ signalled
    /\ node \in {"deciding", "returned"} /\ winner = 0 =>
         \A t \in Tasks : stage[t] = "settled" /\ outcome[t] # "good"
    /\ node = "returned" /\ winner # 0 => recorded[winner] = "result"

GatheredInv ==
  /\ node \in {"aggregating", "returned"} /\ template \in {"fanOut", "ensemble", "dag", "pool"} =>
       \A t \in Tasks : stage[t] = "settled" /\ recorded[t] = Answered(t)
  /\ template = "pool" /\ node # "running" => AllSettled
  /\ template = "pool" => Cardinality(Awaited) <= PoolSize
  /\ template = "fanOut" /\ FanOutLimit > 0 => Cardinality(Awaited) <= FanOutLimit

DagInv ==
  template = "dag" =>
    /\ deps \in [Tasks -> SUBSET Tasks] /\ DagBuilds(deps)
    /\ \A t \in Tasks : call[t] # "none" =>
         \A u \in deps[t] : stage[u] = "settled" /\ outcome[u] = "good"
    /\ node = "running" => \A t \in Tasks : stage[t] = "settled" => outcome[t] = "good"
    /\ node = "threw" => \E t \in Tasks : stage[t] = "settled" /\ outcome[t] = "failed"

ParallelInv == ParallelTyped /\ StagesFit /\ WinnerInv /\ GatheredInv /\ DagInv

LEMMA ParallelEarned ==
  ParallelInv => AcceptedResultWins /\ EveryTaskAnsweredOnce /\ DependenciesFirst
<1> SUFFICES ASSUME ParallelInv PROVE AcceptedResultWins /\ EveryTaskAnsweredOnce /\ DependenciesFirst
  OBVIOUS
<1> USE DEF ParallelInv
<1>1. AcceptedResultWins
  BY DEF WinnerInv, AcceptedResultWins, Racing
<1>2. EveryTaskAnsweredOnce
  BY DEF GatheredInv, EveryTaskAnsweredOnce, Answered
<1>3. DependenciesFirst
  BY DEF DagInv, DependenciesFirst
<1> QED
  BY <1>1, <1>2, <1>3

LEMMA NothingAwaited == Cardinality({}) = 0
BY FS_EmptySet

LEMMA ParallelInitially ==
  ASSUME ParallelInit \/ ParallelRests
  PROVE  ParallelInv
<1> USE ParallelAssumption
<1>1. Awaited = {}
  BY DEF Awaited, Pending, ParallelInit, ParallelRests
<1>2. Cardinality(Awaited) = 0
  BY <1>1, NothingAwaited
<1>3. ParallelTyped /\ StagesFit
  BY DEF ParallelInit, ParallelRests, ParallelTyped, StagesFit
<1>4. WinnerInv
  BY DEF ParallelInit, ParallelRests, WinnerInv, Racing
<1>5. GatheredInv
  BY <1>2 DEF ParallelInit, ParallelRests, GatheredInv
<1>6. DagInv
  BY DEF ParallelInit, ParallelRests, DagInv
<1> QED
  BY <1>3, <1>4, <1>5, <1>6 DEF ParallelInv
-----------------------------------------------------------------------------
(* What is awaited is no more than before, when nothing is opened.          *)
LEMMA AwaitedShrinks ==
  ASSUME ParallelInv, Awaited' \subseteq Awaited, template' = template
  PROVE  /\ template' = "pool" => Cardinality(Awaited') <= PoolSize
         /\ template' = "fanOut" /\ FanOutLimit > 0 => Cardinality(Awaited') <= FanOutLimit
<1>1. Awaited \in SUBSET Tasks /\ Awaited' \in SUBSET Awaited
  BY DEF Awaited
<1>2. IsFiniteSet(Awaited) /\ Cardinality(Awaited) \in Nat
  BY <1>1, TaskSetsFinite
<1>3. Cardinality(Awaited') <= Cardinality(Awaited) /\ Cardinality(Awaited') \in Nat
  BY <1>1, <1>2, FS_Subset, FS_CardinalityType
<1> QED
  BY <1>2, <1>3, ParallelAssumption DEF ParallelInv, GatheredInv

(* The steps that move one task a stage on, before it settles.              *)
LEMMA BatchStarts ==
  ASSUME ParallelInv, FanOutBatch
  PROVE  ParallelInv'
<1> USE DEF ParallelInv
<1>1. ParallelTyped' /\ StagesFit'
  BY DEF FanOutBatch, configVars, ParallelTyped, StagesFit, Racing
<1>2. WinnerInv' /\ DagInv'
  BY DEF FanOutBatch, configVars, WinnerInv, DagInv, Racing
<1>3. Batch \subseteq Waiting /\ Waiting \in SUBSET Tasks
  BY FirstOfBounded, ParallelAssumption DEF Batch, Waiting, InStage
<1>4. FanOutLimit > 0 => Awaited = {} /\ Cardinality(Batch) <= FanOutLimit
  BY <1>3, FirstOfBounded, ParallelAssumption DEF FanOutBatch, Batch
<1>5. Awaited' \subseteq Awaited \cup Batch /\ (FanOutLimit > 0 => Awaited' = Batch)
  BY <1>3, <1>4 DEF Awaited, FanOutBatch, Pending, ParallelTyped
<1>6. GatheredInv'
  BY <1>4, <1>5 DEF FanOutBatch, configVars, GatheredInv
<1> QED
  BY <1>1, <1>2, <1>6

LEMMA HooksReturn ==
  ASSUME ParallelInv, NEW t \in Tasks, StartHookReturns(t) \/ StartHookThrows(t) \/ HookReturns(t)
  PROVE  ParallelInv'
<1> USE DEF ParallelInv, StartHookReturns, StartHookThrows, HookReturns, Open, configVars
<1>0. template = "fanOut" /\ UNCHANGED <<template, node, recorded>> /\ stage[t] # "settled"
  BY DEF StagesFit
<1>1. ParallelTyped' /\ StagesFit'
  BY DEF ParallelTyped, StagesFit, Racing
<1>2. WinnerInv' /\ DagInv'
  BY <1>0 DEF WinnerInv, DagInv, Racing
<1>3. Awaited' \subseteq Awaited
  BY DEF Awaited, Pending, ParallelTyped
<1>4. GatheredInv'
  BY <1>0, <1>3, AwaitedShrinks DEF GatheredInv
<1> QED
  BY <1>1, <1>2, <1>4

LEMMA AllStart ==
  ASSUME ParallelInv, StartAll
  PROVE  ParallelInv'
<1> USE DEF ParallelInv, StartAll, Open, configVars
<1>1. ParallelTyped' /\ StagesFit'
  BY DEF ParallelTyped, StagesFit, Racing
<1>2. WinnerInv' /\ DagInv' /\ GatheredInv'
  BY DEF WinnerInv, DagInv, GatheredInv, Racing
<1> QED
  BY <1>1, <1>2

(* Of what waits in a graph without cycle, the agent of the least rank      *)
(* depends on nothing that waits.                                           *)
LEMMA SomeoneIsReady ==
  ASSUME ParallelInv, template = "dag", Awaited = {}, Waiting # {}
  PROVE  Ready # {}
<1>1. PICK rank \in [Tasks -> Tasks] : \A t \in Tasks : \A u \in deps[t] : rank[u] < rank[t]
  BY DEF ParallelInv, DagInv, DagBuilds
<1> DEFINE R == {rank[t] : t \in Waiting}
<1>2. R \subseteq Nat /\ R # {}
  BY TasksFinite DEF Waiting, InStage
<1>3. PICK k \in R : \A j \in R : k <= j
  <2> HIDE DEF R
  <2> QED BY <1>2, LeastOf
<1>4. PICK t \in Waiting : rank[t] = k
  BY <1>3
<1>5. t \in Tasks /\ deps[t] \subseteq Tasks
  BY <1>4 DEF Waiting, InStage, ParallelInv, DagInv
<1>6. ASSUME NEW u \in deps[t] PROVE stage[u] = "settled"
  <2>1. u \in Tasks /\ rank[u] < rank[t] /\ rank[u] \in Nat /\ rank[t] \in Nat
    BY <1>1, <1>5, TasksFinite
  <2>2. u \notin Waiting
    <3>1. SUFFICES ASSUME u \in Waiting PROVE FALSE
      OBVIOUS
    <3>2. rank[u] \in R
      BY <3>1
    <3>3. k <= rank[u]
      BY <1>3, <3>2
    <3> QED BY <1>4, <2>1, <3>3
  <2>3. u \notin Awaited
    OBVIOUS
  <2> QED
    BY <2>1, <2>2, <2>3 DEF Waiting, Awaited, InStage, Pending, ParallelInv, ParallelTyped
<1>7. t \in Ready
  BY <1>4, <1>5, <1>6 DEF Ready, InStage
<1> QED
  BY <1>7

LEMMA DagStarts ==
  ASSUME ParallelInv, DagBatch
  PROVE  ParallelInv'
<1> USE DEF ParallelInv, DagBatch, Open, configVars
<1>1. Ready # {}
  BY SomeoneIsReady
<1>2. node' = "running" /\ Ready \subseteq Waiting /\ Waiting \subseteq Tasks
  BY <1>1 DEF Ready, Waiting, InStage
<1>3. ParallelTyped' /\ StagesFit'
  BY <1>2 DEF ParallelTyped, StagesFit, Racing
<1>4. WinnerInv' /\ GatheredInv'
  BY <1>2 DEF WinnerInv, GatheredInv, Racing
<1>5. DagInv'
  <2>1. \A u \in Tasks : stage'[u] = "settled" <=> stage[u] = "settled"
    BY <1>2 DEF Waiting, InStage, ParallelTyped
  <2>2. ASSUME NEW t \in Tasks, call'[t] # "none", NEW u \in deps[t]
        PROVE  stage[u] = "settled" /\ outcome[u] = "good"
    <3>1. CASE t \in Ready
      <4>1. stage[u] = "settled" /\ u \in Tasks
        BY <2>2, <3>1 DEF Ready, InStage
      <4> QED
        BY <4>1 DEF DagInv
    <3>2. CASE t \notin Ready
      BY <2>2, <3>2 DEF DagInv, ParallelTyped
    <3> QED
      BY <3>1, <3>2
  <2>3. \A t \in Tasks : deps[t] \subseteq Tasks
    BY DEF DagInv
  <2> QED
    BY <1>2, <2>1, <2>2, <2>3 DEF DagInv
<1> QED
  BY <1>3, <1>4, <1>5

(* A promise of a template other than the pool settles.                     *)
LEMMA SettlingKeeps ==
  ASSUME ParallelInv, NEW t \in Tasks, NEW o \in {"good", "refused", "failed"},
         stage[t] = "open", template # "pool", o = "refused" => Racing,
         Settles(t, o), Reacts(t, o), UNCHANGED <<configVars, recorded>>,
         call' = call \/ (call[t] = "running" /\ call' = [call EXCEPT ![t] = "over"])
  PROVE  ParallelInv'
<1> USE DEF ParallelInv, configVars
<1> DEFINE left == Tasks \ (InStage("settled") \cup {t})
<1>1. /\ stage'[t] \in {"closing", "checking", "settled"} /\ outcome'[t] = o
      /\ stage'[t] = "closing" <=> template = "fanOut"
      /\ stage'[t] = "checking" <=> template = "speculative" /\ winner = 0 /\ o # "failed"
      /\ \A u \in Tasks \ {t} : stage'[u] = stage[u] /\ outcome'[u] = outcome[u]
      /\ DOMAIN stage' = Tasks /\ outcome' \in [Tasks -> {"none", "good", "refused", "failed"}]
      /\ stage' \in [Tasks -> {"waiting", "onStart", "open", "closing", "checking", "settled"}]
  BY DEF Settles, ParallelTyped
<1>2. CASE Racing
  <2>1. CASE node = "running" /\ (template = "race" \/ o = "failed")
    <3>1. Decide(t, o = "good", left)
      BY <1>2, <2>1 DEF Reacts, Racing
    <3>2. winner = 0 /\ stage'[t] = "settled" /\ template # "ensemble"
      BY <1>1, <1>2, <2>1 DEF WinnerInv, Racing
    <3>3. CASE o = "good"
      <4>1. winner' = t /\ signalled' = TRUE /\ node' = "deciding"
        BY <3>1, <3>3 DEF Decide
      <4>2. ParallelTyped' /\ StagesFit'
        BY <1>1, <1>2, <4>1 DEF ParallelTyped, StagesFit, Racing
      <4>3. WinnerInv'
        BY <1>1, <3>2, <3>3, <4>1, ParallelAssumption DEF WinnerInv, Tasks
      <4> QED
        BY <1>2, <4>2, <4>3 DEF GatheredInv, DagInv, Racing
    <3>4. CASE o # "good"
      <4>1. UNCHANGED <<winner, signalled>> /\ node' = (IF left = {} THEN "deciding" ELSE node)
        BY <3>1, <3>4 DEF Decide
      <4>2. ParallelTyped' /\ StagesFit'
        BY <1>1, <1>2, <2>1, <4>1 DEF ParallelTyped, StagesFit, Racing
      <4>3. WinnerInv'
        BY <1>1, <1>2, <2>1, <3>2, <3>4, <4>1 DEF WinnerInv, InStage, Racing
      <4> QED
        BY <1>2, <4>2, <4>3 DEF GatheredInv, DagInv, Racing
    <3> QED
      BY <3>3, <3>4
  <2>2. CASE ~(node = "running" /\ (template = "race" \/ o = "failed"))
    <3>1. UNCHANGED <<node, winner, signalled>>
      BY <1>2, <2>2 DEF Reacts, Racing
    <3>2. ParallelTyped' /\ StagesFit'
      BY <1>1, <1>2, <3>1 DEF ParallelTyped, StagesFit, Racing
    <3>3. WinnerInv'
      BY <1>1, <1>2, <2>2, <3>1 DEF WinnerInv, Racing, ParallelTyped
    <3> QED
      BY <1>2, <3>2, <3>3 DEF GatheredInv, DagInv, Racing
  <2> QED
    BY <2>1, <2>2
<1>3. CASE ~Racing
  <2>1. UNCHANGED <<winner, signalled>> /\ node' \in {node, "threw"} /\ o \in {"good", "failed"}
    BY <1>3 DEF Reacts, Racing
  <2>2. ParallelTyped' /\ StagesFit'
    BY <1>1, <1>3, <2>1 DEF ParallelTyped, StagesFit, Racing
  <2>3. WinnerInv'
    BY <1>3 DEF WinnerInv, Racing
  <2>4. Awaited' \subseteq Awaited
    BY <1>1 DEF Awaited, Pending
  <2>5. GatheredInv'
    BY <1>1, <2>1, <2>4, AwaitedShrinks DEF GatheredInv
  <2>6. DagInv'
    <3>1. SUFFICES ASSUME template = "dag" PROVE DagInv'
      BY DEF DagInv
    <3>2. \A v \in Tasks : call'[v] # "none" => call[v] # "none"
      BY DEF ParallelTyped
    <3>3. stage'[t] = "settled" /\ (o = "failed" /\ node = "running" <=> node # "threw" /\ node' = "threw")
      BY <1>1, <3>1, <1>3 DEF Reacts, Racing, StagesFit, GatheredInv, ParallelTyped
    <3>4. \A v \in Tasks : \A u \in deps[v] : u \in Tasks
      BY <3>1 DEF DagInv
    <3>5. \A v \in Tasks : call'[v] # "none" =>
            \A u \in deps[v] : stage'[u] = "settled" /\ outcome'[u] = "good"
      BY <1>1, <3>1, <3>2, <3>4 DEF DagInv
    <3>6. node' = "running" => \A v \in Tasks : stage'[v] = "settled" => outcome'[v] = "good"
      BY <1>1, <2>1, <3>1, <3>3 DEF DagInv
    <3>7. node' = "threw" => \E v \in Tasks : stage'[v] = "settled" /\ outcome'[v] = "failed"
      BY <1>1, <2>1, <3>1, <3>3 DEF DagInv
    <3> QED
      BY <3>1, <3>5, <3>6, <3>7 DEF DagInv
  <2> QED
    BY <2>2, <2>3, <2>5, <2>6
<1> QED
  BY <1>2, <1>3

(* An agent nobody waits for any more answers.                              *)
LEMMA LateAnswer ==
  ASSUME ParallelInv, NEW t \in Tasks, call[t] = "running", call' = [call EXCEPT ![t] = "over"],
         UNCHANGED <<configVars, node, stage, outcome, winner, signalled, recorded>>
  PROVE  ParallelInv'
<1> USE DEF ParallelInv, configVars
<1>1. ParallelTyped' /\ StagesFit'
  BY DEF ParallelTyped, StagesFit, Racing
<1>2. WinnerInv' /\ GatheredInv'
  BY DEF WinnerInv, GatheredInv, Racing, Answered, Awaited, AllSettled, InStage
<1>3. \A v \in Tasks : call'[v] # "none" => call[v] # "none"
  BY DEF ParallelTyped
<1>4. DagInv'
  BY <1>3 DEF DagInv
<1> QED
  BY <1>1, <1>2, <1>4

(* The pool hands out as many items as have a place.                        *)
LEMMA PoolGoesOn ==
  ASSUME ParallelInv, template = "pool", node = "running", UNCHANGED <<configVars, node, winner, signalled, recorded>>,
         NEW free \in Nat, NEW stages, NEW ended, NEW outcomes, NEW held \in SUBSET Tasks,
         stages \in [Tasks -> {"waiting", "open", "settled"}],
         ended \in [Tasks -> {"none", "running", "over"}],
         outcomes \in [Tasks -> {"none", "good", "refused", "failed"}],
         held = {t \in Tasks : stages[t] = "open"}, Cardinality(held) + free <= PoolSize,
         ProcessNext(free, stages, ended, outcomes)
  PROVE  ParallelInv'
<1> USE DEF ParallelInv, configVars
<1>1. ParallelTyped' /\ StagesFit'
  BY DEF ProcessNext, ParallelTyped, StagesFit, Racing
<1>2. WinnerInv' /\ DagInv'
  BY DEF WinnerInv, DagInv, Racing
<1>3. Waiting \in SUBSET Tasks
  BY DEF Waiting, InStage
<1> DEFINE next == FirstOf(free, Waiting)
<1>4. Cardinality(next) <= free /\ next \in SUBSET Tasks
  BY <1>3, FirstOfBounded
<1>5. Awaited' \subseteq held \cup next
  BY DEF ProcessNext, Awaited, Pending
<1>6. Cardinality(Awaited') <= PoolSize
  <2> HIDE DEF next
  <2>1. /\ IsFiniteSet(held) /\ Cardinality(held) \in Nat
        /\ IsFiniteSet(next) /\ Cardinality(next) \in Nat
        /\ Cardinality(held \cap next) \in Nat
    BY <1>4, TaskSetsFinite
  <2>2. /\ IsFiniteSet(held \cup next)
        /\ Cardinality(held \cup next) = Cardinality(held) + Cardinality(next) - Cardinality(held \cap next)
    BY <2>1, FS_Union
  <2>3. Cardinality(Awaited') <= Cardinality(held \cup next) /\ Cardinality(Awaited') \in Nat
    BY <1>5, <2>2, FS_Subset, FS_CardinalityType
  <2> QED
    BY <1>4, <2>1, <2>2, <2>3, ParallelAssumption
<1>7. GatheredInv'
  BY <1>6 DEF GatheredInv
<1> QED
  BY <1>1, <1>2, <1>7

LEMMA PoolBegins ==
  ASSUME ParallelInv, PoolStarts
  PROVE  ParallelInv'
<1>1. template = "pool" /\ node = "running" /\ ProcessNext(PoolSize, stage, call, outcome)
  BY DEF PoolStarts
<1>2. UNCHANGED <<configVars, node, winner, signalled, recorded>>
  BY DEF PoolStarts
<1>3. /\ stage \in [Tasks -> {"waiting", "open", "settled"}]
      /\ {} = {t \in Tasks : stage[t] = "open"}
  BY DEF PoolStarts, Waiting, InStage, ParallelInv, ParallelTyped
<1>4. Cardinality({}) + PoolSize <= PoolSize /\ PoolSize \in Nat
  BY NothingAwaited, ParallelAssumption
<1> QED
  BY <1>1, <1>2, <1>3, <1>4, PoolGoesOn DEF ParallelInv, ParallelTyped

LEMMA AnswersKeep ==
  ASSUME ParallelInv, NEW t \in Tasks, AgentAnswers(t)
  PROVE  ParallelInv'
<1>1. PICK o \in {"good", "refused", "failed"} :
       /\ o = "refused" => Racing
       /\ LET ended == [call EXCEPT ![t] = "over"] IN
          IF stage[t] # "open"
          THEN call' = ended /\ UNCHANGED <<slotOf, node, stage, outcome, winner, signalled>>
          ELSE IF template = "pool"
          THEN /\ ProcessNext(PoolSize - Cardinality(Awaited \ {t}),
                              [stage EXCEPT ![t] = "settled"], ended, [outcome EXCEPT ![t] = o])
               /\ UNCHANGED <<node, winner, signalled>>
          ELSE /\ call' = ended
               /\ Settles(t, o) /\ Reacts(t, o)
               /\ UNCHANGED slotOf
  BY DEF AgentAnswers
<1>2. call[t] = "running" /\ UNCHANGED <<configVars, present, recorded>>
  BY DEF AgentAnswers
<1>3. CASE stage[t] # "open"
  BY <1>1, <1>2, <1>3, LateAnswer
<1>4. CASE stage[t] = "open" /\ template # "pool"
  BY <1>1, <1>2, <1>4, SettlingKeeps
<1>5. CASE stage[t] = "open" /\ template = "pool"
  <2> DEFINE held == Awaited \ {t}
             stages == [stage EXCEPT ![t] = "settled"]
             ended == [call EXCEPT ![t] = "over"]
             outcomes == [outcome EXCEPT ![t] = o]
             free == PoolSize - Cardinality(held)
  <2>1. stage \in [Tasks -> {"waiting", "open", "settled"}]
    BY <1>5 DEF ParallelInv, ParallelTyped, StagesFit
  <2>2. t \in Awaited /\ Awaited \in SUBSET Tasks /\ Awaited = {u \in Tasks : stage[u] = "open"}
    BY <1>5, <2>1 DEF Awaited, Pending
  <2>3. IsFiniteSet(Awaited) /\ Cardinality(Awaited) \in Nat /\ Cardinality(Awaited) <= PoolSize
    BY <1>5, <2>2, TaskSetsFinite DEF ParallelInv, GatheredInv
  <2>4. Cardinality(held) = Cardinality(Awaited) - 1 /\ Cardinality(held) \in Nat
    BY <2>2, <2>3, FS_RemoveElement, TaskSetsFinite
  <2>5. free \in Nat /\ Cardinality(held) + free <= PoolSize
    BY <2>3, <2>4, ParallelAssumption
  <2>6. /\ stages \in [Tasks -> {"waiting", "open", "settled"}]
        /\ ended \in [Tasks -> {"none", "running", "over"}]
        /\ outcomes \in [Tasks -> {"none", "good", "refused", "failed"}]
    BY <2>1 DEF ParallelInv, ParallelTyped
  <2>7. held = {u \in Tasks : stages[u] = "open"} /\ held \in SUBSET Tasks
    BY <2>1, <2>2
  <2>8. node = "running"
    BY <1>5 DEF ParallelInv, GatheredInv, AllSettled, InStage
  <2>9. ProcessNext(free, stages, ended, outcomes) /\ UNCHANGED <<configVars, node, winner, signalled, recorded>>
    BY <1>1, <1>2, <1>5
  <2> HIDE DEF held, stages, ended, outcomes, free
  <2> QED
    BY <1>5, <2>5, <2>6, <2>7, <2>8, <2>9, PoolGoesOn
<1> QED
  BY <1>3, <1>4, <1>5

LEMMA TimeoutKeeps ==
  ASSUME ParallelInv, NEW t \in Tasks, TimesOut(t)
  PROVE  ParallelInv'
BY SettlingKeeps DEF TimesOut

LEMMA ValidatorKeeps ==
  ASSUME ParallelInv, NEW t \in Tasks, ValidatorAnswers(t)
  PROVE  ParallelInv'
<1> USE DEF ParallelInv, ValidatorAnswers, configVars
<1> DEFINE left == Tasks \ (InStage("settled") \cup {t})
<1>1. template = "speculative" /\ Racing
  BY DEF StagesFit, Racing
<1>2. stage' \in [Tasks -> {"waiting", "onStart", "open", "closing", "checking", "settled"}]
      /\ stage'[t] = "settled" /\ \A u \in Tasks \ {t} : stage'[u] = stage[u]
  BY DEF ParallelTyped
<1>3. CASE node = "running"
  <2>1. Decide(t, outcome[t] = "good", left) /\ winner = 0
    BY <1>1, <1>3 DEF WinnerInv
  <2>2. CASE outcome[t] = "good"
    <3>1. winner' = t /\ signalled' = TRUE /\ node' = "deciding"
      BY <2>1, <2>2 DEF Decide
    <3>2. ParallelTyped' /\ StagesFit'
      BY <1>1, <1>2, <3>1 DEF ParallelTyped, StagesFit, Racing
    <3>3. WinnerInv'
      BY <1>1, <1>2, <2>2, <3>1, ParallelAssumption DEF WinnerInv, Tasks
    <3> QED
      BY <1>1, <3>2, <3>3 DEF GatheredInv, DagInv
  <2>3. CASE outcome[t] # "good"
    <3>1. UNCHANGED <<winner, signalled>> /\ node' = (IF left = {} THEN "deciding" ELSE node)
      BY <2>1, <2>3 DEF Decide
    <3>2. ParallelTyped' /\ StagesFit'
      BY <1>1, <1>2, <3>1 DEF ParallelTyped, StagesFit, Racing
    <3>3. WinnerInv'
      BY <1>1, <1>2, <1>3, <2>1, <2>3, <3>1 DEF WinnerInv, InStage
    <3> QED
      BY <1>1, <3>2, <3>3 DEF GatheredInv, DagInv
  <2> QED
    BY <2>2, <2>3
<1>4. CASE node # "running"
  <2>1. UNCHANGED <<node, winner, outcome, recorded>> /\ signalled' = (signalled \/ outcome[t] = "good")
    BY <1>4
  <2>2. ParallelTyped' /\ StagesFit'
    BY <1>1, <1>2, <2>1 DEF ParallelTyped, StagesFit, Racing
  <2>3. WinnerInv'
    BY <1>1, <1>2, <1>4, <2>1 DEF WinnerInv, Racing, ParallelTyped
  <2> QED
    BY <1>1, <2>2, <2>3 DEF GatheredInv, DagInv
<1> QED
  BY <1>3, <1>4

(* The ways in which the node ends, and what touches neither node nor tasks. *)
LEMMA GatherKeeps ==
  ASSUME ParallelInv, Gathers
  PROVE  ParallelInv'
<1> USE DEF ParallelInv, Gathers, configVars
<1>1. ~Racing /\ \A t \in Tasks : stage[t] = "settled"
  BY DEF Racing, AllSettled, InStage
<1>2. /\ node' \in {"returned", "threw", "aggregating"}
      /\ node' = "aggregating" => template = "ensemble"
      /\ template = "dag" => node' = "returned"
  OBVIOUS
<1>3. ParallelTyped' /\ StagesFit'
  BY <1>1, <1>2 DEF ParallelTyped, StagesFit, Racing
<1>4. WinnerInv'
  BY <1>1 DEF WinnerInv, Racing
<1>5. Awaited' = Awaited /\ AllSettled' /\ \A t \in Tasks : Answered(t)' = Answered(t)
  BY DEF Awaited, AllSettled, InStage, Answered
<1>6. template # "mapReduce" => \A t \in Tasks : recorded'[t] = Answered(t)
  OBVIOUS
<1>7. GatheredInv'
  BY <1>1, <1>5, <1>6 DEF GatheredInv
<1>8. DagInv'
  BY <1>2 DEF DagInv
<1> QED
  BY <1>3, <1>4, <1>7, <1>8

LEMMA EndKeeps ==
  ASSUME ParallelInv, Aggregates \/ ReturnsWinner
  PROVE  ParallelInv'
<1> USE DEF ParallelInv, configVars
<1>1. CASE Aggregates
  <2>1. template = "ensemble" /\ ~Racing
    BY <1>1 DEF StagesFit, Aggregates, Racing
  <2>2. ParallelTyped' /\ StagesFit'
    BY <1>1, <2>1 DEF Aggregates, ParallelTyped, StagesFit, Racing
  <2>3. WinnerInv' /\ GatheredInv' /\ DagInv'
    BY <1>1, <2>1 DEF Aggregates, WinnerInv, GatheredInv, DagInv, Racing, Answered
  <2> QED
    BY <2>2, <2>3
<1>2. CASE ReturnsWinner
  <2>1. Racing
    BY <1>2 DEF StagesFit, ReturnsWinner
  <2>2. ParallelTyped' /\ StagesFit'
    BY <1>2, <2>1 DEF ReturnsWinner, ParallelTyped, StagesFit, Racing
  <2>3. WinnerInv'
    BY <1>2, <2>1 DEF ReturnsWinner, WinnerInv, Racing, Answered, ParallelTyped
  <2>4. GatheredInv' /\ DagInv'
    BY <1>2, <2>1 DEF ReturnsWinner, GatheredInv, DagInv, Racing
  <2> QED
    BY <2>2, <2>3, <2>4
<1> QED
  BY <1>1, <1>2

LEMMA NothingMoves ==
  ASSUME ParallelInv, UNCHANGED <<configVars, node, stage, outcome, call, winner, recorded>>,
         signalled' \in {signalled, TRUE}
  PROVE  ParallelInv'
<1> USE DEF ParallelInv, configVars
<1>1. ParallelTyped' /\ StagesFit'
  BY DEF ParallelTyped, StagesFit, Racing
<1>2. WinnerInv' /\ GatheredInv' /\ DagInv'
  BY DEF WinnerInv, GatheredInv, DagInv, Racing, Answered, Awaited, AllSettled, InStage
<1> QED
  BY <1>1, <1>2

LEMMA ParallelStep ==
  ASSUME ParallelInv, ParallelNext \/ UNCHANGED parallelVars
  PROVE  ParallelInv'
<1>1. CASE UNCHANGED parallelVars
  BY <1>1, NothingMoves DEF parallelVars, configVars
<1>2. CASE NodeSteps
  BY <1>2, BatchStarts, AllStart, DagStarts, PoolBegins, GatherKeeps, EndKeeps, HooksReturn,
     ValidatorKeeps DEF NodeSteps
<1>3. CASE \E t \in Tasks : AgentAnswers(t) \/ TimesOut(t)
  BY <1>3, AnswersKeep, TimeoutKeeps
<1>4. CASE \E s \in Slots : RemoveSlot(s)
  BY <1>4, NothingMoves DEF RemoveSlot
<1>5. CASE GlobalTimeoutFires
  BY <1>5, NothingMoves DEF GlobalTimeoutFires
<1> QED
  BY <1>1, <1>2, <1>3, <1>4, <1>5 DEF ParallelNext

-----------------------------------------------------------------------------
(***************************************************************************)
(* The templates that go round.  A claim is made at the end and nowhere    *)
(* else; each template that retries or collects has its own counters.      *)
(***************************************************************************)
ClaimInv ==
  /\ at # "ended" => claim = "none"
  /\ rounds \in Nat /\ tries \in Nat
  /\ claim = "passed" /\ loop \in {"critique", "stepwise", "redTeam", "gan", "research"} =>
       verdicts # <<>> /\ Last(verdicts)
  /\ claim = "passed" /\ loop = "debate" =>
       verdicts # <<>> /\ (Last(verdicts) \/ rounds > RoundLimit)

StepwiseInv ==
  loop = "stepwise" =>
    /\ at \in {"worker", "verifier", "ended", "threw"}
    /\ rounds > 0 /\ work \subseteq 1..(rounds - 1)
    /\ at = "worker" => tries <= RetryLimit
    /\ at = "verifier" => tries <= RetryLimit + 1
    /\ at = "ended" /\ claim = "failed" => tries = RetryLimit + 1

AdversarialInv ==
  loop = "adversarial" =>
    /\ at = "builder" => tries <= RetryLimit
    /\ at = "evaluator" => tries <= RetryLimit + 1
    /\ at \notin {"worker", "verifier"}
    /\ at = "planner" /\ rounds > 1 /\ rounds - 1 \notin work => tries = RetryLimit + 1

RedTeamInv ==
  loop = "redTeam" => work \in SUBSET [id : Significant, round : Nat, patched : BOOLEAN]

MeshInv ==
  loop = "mesh" =>
    /\ work \in [strategy : Coordinators, visited : SUBSET Nat]
    /\ work.strategy = "round-robin" => work.visited = 1..rounds /\ rounds <= Teams
    /\ work.strategy = "round-robin" /\ claim = "passed" =>
         work.visited = 1..Teams \/ (verdicts # <<>> /\ Last(verdicts))

VerdictInv == ClaimInv /\ StepwiseInv /\ AdversarialInv /\ RedTeamInv /\ MeshInv

LEMMA VerdictsEarned == VerdictInv => VerdictsAreEarned
BY DEF VerdictInv, ClaimInv, StepwiseInv, AdversarialInv, RedTeamInv, MeshInv, VerdictsAreEarned, Await

LEMMA LastSaid == \A v : Last(<<v>>) = v /\ <<v>> # <<>>
BY DEF Last

LEMMA LoopInitially ==
  ASSUME LoopInit \/ LoopRests
  PROVE  VerdictInv
<1> USE LoopAssumption
<1>1. CASE LoopRests
  BY <1>1 DEF LoopRests, VerdictInv, ClaimInv, StepwiseInv, AdversarialInv, RedTeamInv, MeshInv
<1>2. CASE LoopInit
  <2> USE DEF LoopInit
  <2>1. ClaimInv
    BY <1>2 DEF ClaimInv
  <2>2. StepwiseInv
    BY <1>2 DEF StepwiseInv, FirstAgent, NoWork
  <2>3. AdversarialInv
    BY <1>2 DEF AdversarialInv, FirstAgent
  <2>4. RedTeamInv
    BY <1>2 DEF RedTeamInv, NoWork
  <2>5. MeshInv
    BY <1>2 DEF MeshInv, NoWork
  <2> QED
    BY <2>1, <2>2, <2>3, <2>4, <2>5 DEF VerdictInv
<1> QED
  BY <1>1, <1>2

LEMMA ScoredLoops ==
  ASSUME VerdictInv,
         \/ Generate \/ Critique
         \/ \E D \in SUBSET Dims, stop \in BOOLEAN : \E scores \in [D -> Scores] : ScoreRound(scores, stop)
  PROVE  VerdictInv'
<1> USE DEF VerdictInv, GoesOn, Ends, Said, Await
<1>1. loop \in {"critique", "gan"} /\ loop' = loop /\ at # "ended"
  BY DEF Generate, Critique, ScoreRound
<1>2. CASE Generate
  BY <1>1, <1>2 DEF Generate, ClaimInv, StepwiseInv, AdversarialInv, RedTeamInv, MeshInv
<1>3. CASE Critique
  <2>1. PICK D \in SUBSET Dims : \E scores \in [D -> Scores] :
          /\ Said(RubricPasses(scores))
          /\ IF RubricPasses(scores) \/ rounds >= RoundLimit
             THEN Ends(IF RubricPasses(scores) THEN "passed" ELSE "capped")
             ELSE GoesOn("generator")
    BY <1>3 DEF Critique
  <2>2. PICK v \in BOOLEAN :
          /\ verdicts' = <<v>>
          /\ IF v \/ rounds >= RoundLimit THEN Ends(IF v THEN "passed" ELSE "capped")
                                          ELSE GoesOn("generator")
    BY <2>1 DEF RubricPasses
  <2>3. Last(verdicts') = v /\ verdicts' # <<>>
    BY <2>2, LastSaid
  <2>4. rounds' = rounds /\ tries' = tries
    BY <1>3 DEF Critique
  <2>5. ClaimInv'
    BY <1>1, <2>2, <2>3, <2>4 DEF ClaimInv
  <2> QED
    BY <1>1, <2>5 DEF StepwiseInv, AdversarialInv, RedTeamInv, MeshInv
<1>4. ASSUME NEW scores, NEW stop \in BOOLEAN, ScoreRound(scores, stop) PROVE VerdictInv'
  <2> DEFINE hard == \E d \in DOMAIN scores : scores[d] < HardBelow
             decision == Decision(SumOf(scores), hard)
  <2>1. /\ verdicts' = <<~hard>> /\ rounds' = rounds /\ tries' = tries
        /\ IF decision = "accept" THEN Ends("passed")
           ELSE IF rounds >= RoundLimit \/ stop THEN Ends("capped") ELSE GoesOn("generator")
    BY <1>4 DEF ScoreRound
  <2>2. decision = "accept" => ~hard
    BY DEF Decision
  <2>3. Last(verdicts') = ~hard /\ verdicts' # <<>>
    BY <2>1, LastSaid
  <2> HIDE DEF hard, decision
  <2>4. ClaimInv'
    BY <1>1, <2>1, <2>2, <2>3 DEF ClaimInv
  <2> QED
    BY <1>1, <2>4 DEF StepwiseInv, AdversarialInv, RedTeamInv, MeshInv
<1> QED
  BY <1>2, <1>3, <1>4

LEMMA StepwiseLoop ==
  ASSUME VerdictInv, Work \/ \E b \in BOOLEAN : Verify(b)
  PROVE  VerdictInv'
<1> USE LoopAssumption DEF VerdictInv, GoesOn, Ends, Said, Await
<1>1. loop = "stepwise" /\ loop' = loop /\ at \in {"worker", "verifier"} /\ claim = "none"
  BY DEF Work, Verify, ClaimInv
<1>2. CASE Work
  <2>1. ClaimInv' /\ StepwiseInv'
    BY <1>1, <1>2 DEF Work, ClaimInv, StepwiseInv
  <2> QED
    BY <1>1, <2>1 DEF AdversarialInv, RedTeamInv, MeshInv
<1>3. ASSUME NEW b \in BOOLEAN, Verify(b) PROVE VerdictInv'
  <2> USE DEF Verify
  <2>1. verdicts' = <<b>> /\ Last(verdicts') = b /\ verdicts' # <<>>
    BY <1>3, LastSaid
  <2>2. work \subseteq 1..(rounds - 1) /\ work' = (IF b THEN work \cup {rounds} ELSE work) /\ rounds \in Nat
    BY <1>1, <1>3 DEF StepwiseInv, ClaimInv
  <2>3. ASSUME ~b, rounds = RoundLimit PROVE work' # 1..RoundLimit
    BY <2>2, <2>3
  <2>4. claim' = "passed" => b
    BY <1>1, <1>3, <2>3
  <2>5. at' # "ended" => claim' = "none"
    BY <1>1, <1>3
  <2>6. rounds' \in Nat /\ tries' \in Nat
    BY <1>3 DEF ClaimInv
  <2>7. ClaimInv'
    BY <2>1, <2>4, <2>5, <2>6 DEF ClaimInv
  <2>8. work' \subseteq 1..(rounds' - 1)
    <3>1. CASE b
      <4>1. rounds' = rounds + 1
        BY <1>3, <3>1
      <4>2. rounds \in 1..rounds
        BY <1>1, <2>2 DEF StepwiseInv
      <4> QED
        BY <2>2, <3>1, <4>1, <4>2
    <3>2. CASE ~b
      BY <1>3, <2>2, <3>2
    <3> QED
      BY <3>1, <3>2
  <2>9. StepwiseInv'
    <3>1. at' \in {"worker", "verifier", "ended", "threw"} /\ at' # "verifier"
      BY <1>3
    <3>2. at' = "worker" => tries' <= RetryLimit
      BY <1>3 DEF TriesLeft, ClaimInv
    <3>3. at' = "ended" /\ claim' = "failed" => tries' = RetryLimit + 1
      BY <1>1, <1>3 DEF TriesLeft, ClaimInv, StepwiseInv
    <3>4. rounds' > 0
      BY <1>1, <1>3, <2>2 DEF StepwiseInv
    <3> QED
      BY <2>8, <3>1, <3>2, <3>3, <3>4 DEF StepwiseInv
  <2> QED
    BY <1>1, <2>7, <2>9 DEF AdversarialInv, RedTeamInv, MeshInv
<1> QED
  BY <1>2, <1>3

LEMMA DebateLoop ==
  ASSUME VerdictInv, KickOff \/ Debate \/ \E b \in BOOLEAN : Judge(b)
  PROVE  VerdictInv'
<1> USE DEF VerdictInv, GoesOn, Ends, Said, Await
<1>1. loop = "debate" /\ loop' = loop /\ at # "ended"
  BY DEF KickOff, Debate, Judge
<1>2. CASE KickOff \/ Debate
  BY <1>1, <1>2 DEF KickOff, Debate, ClaimInv, StepwiseInv, AdversarialInv, RedTeamInv, MeshInv
<1>3. ASSUME NEW b \in BOOLEAN, Judge(b) PROVE VerdictInv'
  <2>1. verdicts' = <<b>> /\ Last(verdicts') = b /\ verdicts' # <<>>
    BY <1>3, LastSaid DEF Judge
  <2>2. ClaimInv'
    BY <1>1, <1>3, <2>1 DEF Judge, LastRound, ClaimInv
  <2> QED
    BY <1>1, <2>2 DEF StepwiseInv, AdversarialInv, RedTeamInv, MeshInv
<1> QED
  BY <1>2, <1>3

LEMMA MeshLoop ==
  ASSUME VerdictInv, Coordinate \/ \E b \in BOOLEAN : TeamReturns(b)
  PROVE  VerdictInv'
<1> USE LoopAssumption DEF VerdictInv, GoesOn, Ends, Said, Await
<1>1. loop = "mesh" /\ loop' = loop /\ at # "ended" /\ claim = "none"
  BY DEF Coordinate, TeamReturns, ClaimInv
<1>2. work \in [strategy : Coordinators, visited : SUBSET Nat] /\ rounds \in Nat
  BY <1>1 DEF MeshInv, ClaimInv
<1>3. CASE Coordinate
  <2>1. UNCHANGED <<tries, verdicts>>
    BY <1>3 DEF Coordinate
  <2>2. CASE rounds >= RoundLimit /\ Ends("capped") /\ UNCHANGED <<rounds, work>>
    BY <1>1, <2>1, <2>2 DEF ClaimInv, StepwiseInv, AdversarialInv, RedTeamInv, MeshInv
  <2>3. CASE work.strategy = "round-robin" /\ VisitedAll /\ Ends("passed") /\ UNCHANGED <<rounds, work>>
    <3>1. work.visited = 1..Teams
      <4>1. rounds = Teams
        BY <1>1, <1>2, <2>3 DEF MeshInv, VisitedAll
      <4> QED
        BY <1>1, <2>3, <4>1 DEF MeshInv
    <3> QED
      BY <1>1, <2>1, <2>3, <3>1 DEF ClaimInv, StepwiseInv, AdversarialInv, RedTeamInv, MeshInv
  <2>4. CASE work.strategy = "round-robin" /\ ~VisitedAll /\ Sends(rounds + 1)
    <3>1. work' = [work EXCEPT !.visited = work.visited \cup {rounds + 1}] /\ rounds' = rounds + 1
      BY <2>4 DEF Sends
    <3>2. /\ work' \in [strategy : Coordinators, visited : SUBSET Nat]
          /\ work'.strategy = "round-robin" /\ work'.visited = work.visited \cup {rounds + 1}
      BY <1>2, <2>4, <3>1
    <3>3. work.visited = 1..rounds /\ rounds < Teams
      BY <1>1, <1>2, <2>4 DEF MeshInv, VisitedAll
    <3>4. work'.visited = 1..rounds' /\ rounds' <= Teams
      BY <1>2, <3>1, <3>2, <3>3
    <3>5. claim' = "none" /\ at' = "team"
      BY <1>1, <2>4 DEF Sends
    <3>6. rounds' \in Nat
      BY <1>2, <3>1
    <3> QED
      BY <1>1, <2>1, <3>2, <3>4, <3>5, <3>6 DEF ClaimInv, StepwiseInv, AdversarialInv, RedTeamInv, MeshInv
  <2>5. CASE work.strategy \in {"llm", "rule"} /\ Ends("passed") /\ rounds' = rounds + 1 /\ UNCHANGED work
    BY <1>1, <1>2, <2>1, <2>5 DEF ClaimInv, StepwiseInv, AdversarialInv, RedTeamInv, MeshInv
  <2>6. CASE work.strategy \in {"llm", "rule"} /\ \E team \in 1..Teams : Sends(team)
    <3>1. PICK team \in 1..Teams : Sends(team)
      BY <2>6
    <3>2. work' = [work EXCEPT !.visited = work.visited \cup {team}]
      BY <3>1 DEF Sends
    <3>3. work' \in [strategy : Coordinators, visited : SUBSET Nat] /\ work'.strategy = work.strategy
      BY <1>2, <3>2
    <3>4. claim' = "none" /\ at' = "team" /\ rounds' \in Nat
      BY <1>1, <1>2, <3>1 DEF Sends
    <3> QED
      BY <1>1, <2>1, <2>6, <3>3, <3>4 DEF ClaimInv, StepwiseInv, AdversarialInv, RedTeamInv, MeshInv
  <2> QED
    BY <1>3, <2>2, <2>3, <2>4, <2>5, <2>6 DEF Coordinate
<1>4. ASSUME NEW b \in BOOLEAN, TeamReturns(b) PROVE VerdictInv'
  <2>1. verdicts' = <<b>> /\ Last(verdicts') = b /\ verdicts' # <<>>
    BY <1>4, LastSaid DEF TeamReturns
  <2> QED
    BY <1>1, <1>4, <2>1 DEF TeamReturns, ClaimInv, StepwiseInv, AdversarialInv, RedTeamInv, MeshInv
<1> QED
  BY <1>3, <1>4

LEMMA RedTeamLoop ==
  ASSUME VerdictInv, NEW found \in SUBSET Vulnerabilities, Attack(found) \/ Patch(found)
  PROVE  VerdictInv'
<1> USE LoopAssumption DEF VerdictInv, GoesOn, Ends, Said, Await
<1> DEFINE Finding == [id : Significant, round : Nat, patched : BOOLEAN]
<1>1. loop = "redTeam" /\ loop' = loop /\ at # "ended" /\ claim = "none" /\ work \in SUBSET Finding
  BY DEF Attack, Patch, ClaimInv, RedTeamInv
<1>2. CASE Attack(found)
  <2> DEFINE new == SignificantOf(found)
  <2>1. verdicts' = <<new = {}>> /\ Last(verdicts') = (new = {}) /\ verdicts' # <<>>
    BY <1>2, LastSaid DEF Attack
  <2>2. ClaimInv'
    BY <1>1, <1>2, <2>1 DEF Attack, ClaimInv
  <2>3. work' \in SUBSET Finding
    <3>1. work' = work \cup {[id |-> v, round |-> rounds, patched |-> FALSE] : v \in new}
      BY <1>2 DEF Attack
    <3>2. \A v \in new : [id |-> v, round |-> rounds, patched |-> FALSE] \in Finding
      BY DEF SignificantOf, ClaimInv
    <3> HIDE DEF new
    <3> QED
      BY <1>1, <3>1, <3>2
  <2> QED
    BY <1>1, <2>2, <2>3 DEF StepwiseInv, AdversarialInv, RedTeamInv, MeshInv
<1>3. CASE Patch(found)
  <2>1. work' = {[f EXCEPT !.patched = f.patched \/ f.id \in found] : f \in work}
    BY <1>3 DEF Patch
  <2>2. ASSUME NEW f \in Finding PROVE [f EXCEPT !.patched = f.patched \/ f.id \in found] \in Finding
    OBVIOUS
  <2>3. work' \in SUBSET Finding
    BY <1>1, <2>1, <2>2
  <2>4. ClaimInv'
    BY <1>1, <1>3 DEF Patch, ClaimInv
  <2> QED
    BY <1>1, <2>3, <2>4 DEF StepwiseInv, AdversarialInv, RedTeamInv, MeshInv
<1> QED
  BY <1>2, <1>3

LEMMA QuestionLoops ==
  ASSUME VerdictInv,
         \/ \E C, U \in SUBSET CoverageKeys : Ask(C, U)
         \/ Respond \/ Synthesize \/ StartBatch \/ ResearcherAnswers
         \/ \E n \in 0..MaxQuestions : Decompose(n)
         \/ \E confident, gaps \in BOOLEAN : Conclude(confident, gaps)
  PROVE  VerdictInv'
<1> USE DEF VerdictInv, GoesOn, Ends, Said, Await
<1>1. loop \in {"socratic", "research"} /\ loop' = loop /\ at # "ended" /\ claim = "none"
  BY DEF Ask, Respond, Synthesize, StartBatch, ResearcherAnswers, Decompose, Conclude, ClaimInv
<1>2. ClaimInv'
  <2>1. CASE \E C, U \in SUBSET CoverageKeys : Ask(C, U)
    BY <1>1, <2>1 DEF Ask, ClaimInv
  <2>2. CASE Respond
    BY <1>1, <2>2 DEF Respond, ClaimInv
  <2>3. CASE Synthesize
    BY <1>1, <2>3 DEF Synthesize, ClaimInv
  <2>4. CASE StartBatch \/ ResearcherAnswers
    BY <1>1, <2>4 DEF StartBatch, ResearcherAnswers, ClaimInv
  <2>5. ASSUME NEW n \in 0..MaxQuestions, Decompose(n) PROVE ClaimInv'
    BY <1>1, <2>5 DEF Decompose, ClaimInv
  <2>6. ASSUME NEW confident \in BOOLEAN, NEW gaps \in BOOLEAN, Conclude(confident, gaps)
        PROVE ClaimInv'
    <3> DEFINE enough == confident \/ ~gaps
    <3>1. verdicts' = <<enough>> /\ Last(verdicts') = enough /\ verdicts' # <<>>
      BY <2>6, LastSaid DEF Conclude
    <3>2. /\ claim' = "passed" => enough
          /\ at' # "ended" => claim' = "none"
          /\ rounds' \in {rounds, rounds + 1} /\ tries' = tries
      BY <1>1, <2>6 DEF Conclude
    <3> HIDE DEF enough
    <3> QED
      BY <1>1, <3>1, <3>2 DEF ClaimInv
  <2> QED
    BY <2>1, <2>2, <2>3, <2>4, <2>5, <2>6
<1> QED
  BY <1>1, <1>2 DEF StepwiseInv, AdversarialInv, RedTeamInv, MeshInv

LEMMA AdversarialLoop ==
  ASSUME VerdictInv,
         \/ \E b \in BOOLEAN : Plan(b)
         \/ Negotiate \/ Build \/ \E s \in Scores : Evaluate(s)
  PROVE  VerdictInv'
<1> USE LoopAssumption DEF VerdictInv, GoesOn, Ends, Said, Await
<1>1. /\ loop = "adversarial" /\ loop' = loop /\ at # "ended" /\ claim = "none"
      /\ rounds \in Nat /\ tries \in Nat
  BY DEF Plan, Negotiate, Build, Evaluate, ClaimInv
<1>2. CASE \E b \in BOOLEAN : Plan(b)
  BY <1>1, <1>2 DEF Plan, ClaimInv, StepwiseInv, AdversarialInv, RedTeamInv, MeshInv
<1>3. CASE Negotiate
  BY <1>1, <1>3 DEF Negotiate, ClaimInv, StepwiseInv, AdversarialInv, RedTeamInv, MeshInv
<1>4. CASE Build
  BY <1>1, <1>4 DEF Build, ClaimInv, StepwiseInv, AdversarialInv, RedTeamInv, MeshInv
<1>5. ASSUME NEW s \in Scores, Evaluate(s) PROVE VerdictInv'
  <2> DEFINE passed == s >= Threshold
  <2>1. /\ at = "evaluator" /\ tries' = tries /\ tries <= RetryLimit + 1
        /\ work' = IF passed THEN work \cup {rounds} ELSE work
        /\ IF ~passed /\ TriesLeft THEN GoesOn("builder") /\ UNCHANGED rounds
           ELSE IF rounds = RoundLimit THEN Ends("capped") /\ UNCHANGED rounds
           ELSE GoesOn("planner") /\ rounds' = rounds + 1
    BY <1>1, <1>5 DEF Evaluate, AdversarialInv
  <2> HIDE DEF passed
  <2>2. ClaimInv'
    BY <1>1, <2>1 DEF ClaimInv
  <2>3. AdversarialInv'
    BY <1>1, <2>1 DEF AdversarialInv, TriesLeft
  <2> QED
    BY <1>1, <2>2, <2>3 DEF StepwiseInv, RedTeamInv, MeshInv
<1> QED
  BY <1>2, <1>3, <1>4, <1>5

LEMMA ThoughtLoop ==
  ASSUME VerdictInv, Think
  PROVE  VerdictInv'
<1> USE DEF VerdictInv, GoesOn, Ends, Await
<1>1. loop = "thought" /\ loop' = loop /\ at # "ended" /\ claim = "none" /\ rounds \in Nat
  BY DEF Think, ClaimInv
<1>2. /\ UNCHANGED <<tries, verdicts>> /\ rounds' \in {rounds, rounds + 1}
      /\ at' = "ended" \/ claim' = claim
  BY DEF Think
<1> QED
  BY <1>1, <1>2 DEF ClaimInv, StepwiseInv, AdversarialInv, RedTeamInv, MeshInv

LEMMA LoopsStayEarned ==
  ASSUME VerdictInv, LoopNext \/ UNCHANGED loopVars
  PROVE  VerdictInv'
<1>1. CASE UNCHANGED loopVars
  BY <1>1 DEF loopVars, VerdictInv, ClaimInv, StepwiseInv, AdversarialInv, RedTeamInv, MeshInv
<1>2. CASE AgentThrows
  BY <1>2 DEF AgentThrows, VerdictInv, ClaimInv, StepwiseInv, AdversarialInv, RedTeamInv, MeshInv
<1>3. CASE AgentStep
  BY <1>3, ScoredLoops, StepwiseLoop, DebateLoop, MeshLoop, RedTeamLoop, QuestionLoops,
     AdversarialLoop, ThoughtLoop DEF AgentStep
<1> QED
  BY <1>1, <1>2, <1>3 DEF LoopNext

-----------------------------------------------------------------------------
(***************************************************************************)
(* Tree of thought.  Branches with different ids are ranked without ties,  *)
(* so that the ranks of n of them are 0..n-1: each expansion has the       *)
(* parent it was made for, and topK keeps topK at most.                    *)
(***************************************************************************)
BranchRecord == [id : Nat, depth : Int, parent : Int, score : Nat]
Distinct(S) ==
  S \subseteq BranchRecord /\ IsFiniteSet(S) /\ \A b, c \in S : b.id = c.id => b = c

LEMMA Ordered ==
  ASSUME NEW S, Distinct(S), NEW b \in S, NEW c \in S
  PROVE  /\ b # c => Before(b, c) \/ Before(c, b)
         /\ ~(Before(b, c) /\ Before(c, b)) /\ ~Before(b, b)
         /\ \A d \in S : Before(b, c) /\ Before(c, d) => Before(b, d)
<1>1. \A x \in S : x.id \in Nat /\ x.score \in Nat
  BY DEF Distinct, BranchRecord
<1>2. b # c => b.id # c.id
  BY DEF Distinct
<1> QED
  BY <1>1, <1>2 DEF Before

LEMMA RankGrows ==
  ASSUME NEW S, Distinct(S), NEW b \in S, NEW c \in S
  PROVE  /\ RankIn(b, S) \in 0..(Cardinality(S) - 1)
         /\ Before(b, c) => RankIn(b, S) < RankIn(c, S)
<1> DEFINE Ahead(x) == {d \in S : Before(d, x)}
<1>1. \A x \in S : Ahead(x) \in SUBSET S /\ x \notin Ahead(x)
  BY Ordered
<1>2. IsFiniteSet(S) /\ Cardinality(S) \in Nat
  BY FS_CardinalityType DEF Distinct
<1>3. \A x \in S : IsFiniteSet(Ahead(x)) /\ Cardinality(Ahead(x)) \in Nat /\ Cardinality(Ahead(x)) < Cardinality(S)
  <2> SUFFICES ASSUME NEW x \in S
               PROVE  IsFiniteSet(Ahead(x)) /\ Cardinality(Ahead(x)) \in Nat /\ Cardinality(Ahead(x)) < Cardinality(S)
    OBVIOUS
  <2>1. Ahead(x) \in SUBSET S /\ Ahead(x) # S
    BY <1>1
  <2> HIDE DEF Ahead
  <2>2. IsFiniteSet(Ahead(x)) /\ Cardinality(Ahead(x)) <= Cardinality(S) /\ Cardinality(Ahead(x)) # Cardinality(S)
    BY <1>2, <2>1, FS_Subset
  <2>3. Cardinality(Ahead(x)) \in Nat
    BY <2>2, FS_CardinalityType
  <2> QED
    BY <1>2, <2>2, <2>3
<1>4. ASSUME Before(b, c) PROVE Cardinality(Ahead(b)) < Cardinality(Ahead(c))
  <2>1. Ahead(b) \in SUBSET Ahead(c) /\ b \in Ahead(c) /\ b \notin Ahead(b)
    <3>1. \A d \in S : Before(d, b) => Before(d, c)
      BY <1>4, Ordered
    <3> QED
      BY <1>4, <1>1, <3>1
  <2>2. IsFiniteSet(Ahead(c)) /\ Cardinality(Ahead(c)) \in Nat /\ Cardinality(Ahead(b)) \in Nat
    BY <1>3
  <2> HIDE DEF Ahead
  <2>3. Cardinality(Ahead(b)) <= Cardinality(Ahead(c)) /\ Cardinality(Ahead(b)) # Cardinality(Ahead(c))
    BY <2>1, <2>2, FS_Subset
  <2> QED
    BY <2>2, <2>3
<1>5. RankIn(b, S) = Cardinality(Ahead(b)) /\ RankIn(c, S) = Cardinality(Ahead(c))
  BY DEF RankIn
<1> HIDE DEF Ahead
<1> QED
  BY <1>2, <1>3, <1>4, <1>5

LEMMA RanksDiffer ==
  ASSUME NEW S, Distinct(S), NEW b \in S, NEW c \in S, RankIn(b, S) = RankIn(c, S)
  PROVE  b = c
<1> SUFFICES ASSUME b # c PROVE FALSE
  OBVIOUS
<1>1. RankIn(b, S) < RankIn(c, S) \/ RankIn(c, S) < RankIn(b, S)
  BY Ordered, RankGrows
<1>2. RankIn(b, S) \in Int
  BY RankGrows
<1> QED
  BY <1>1, <1>2

LEMMA RanksAreAll ==
  ASSUME NEW S, Distinct(S), NEW k \in 0..(Cardinality(S) - 1)
  PROVE  \E b \in S : RankIn(b, S) = k
<1> DEFINE n == Cardinality(S)
           rank == [b \in S |-> RankIn(b, S)]
<1>1. n \in Nat /\ IsFiniteSet(S)
  BY FS_CardinalityType DEF Distinct
<1>2. rank \in [S -> 0..(n - 1)]
  BY RankGrows
<1>3. \A b, c \in S : rank[b] = rank[c] => b = c
  BY RanksDiffer
<1>4. IsFiniteSet(0..(n - 1)) /\ Cardinality(0..(n - 1)) = n
  BY <1>1, FS_Interval
<1> HIDE DEF rank
<1>5. rank \in Injection(S, 0..(n - 1))
  BY <1>2, <1>3 DEF Injection, IsInjective
<1>6. rank \in Surjection(S, 0..(n - 1))
  BY <1>4, <1>5, FS_Injection
<1>7. \E b \in S : rank[b] = k
  BY <1>6 DEF Surjection
<1> QED
  BY <1>7 DEF rank

LEMMA FirstBranch ==
  ASSUME NEW S, Distinct(S), S # {}
  PROVE  \E b \in S : \A c \in S : b = c \/ Before(b, c)
<1>1. Cardinality(S) \in Nat \ {0}
  BY FS_CardinalityType, FS_EmptySet DEF Distinct
<1>2. PICK b \in S : RankIn(b, S) = 0
  BY <1>1, RanksAreAll
<1>3. ASSUME NEW c \in S, b # c PROVE Before(b, c)
  <2>1. RankIn(c, S) \in Nat
    BY RankGrows
  <2> QED
    BY <1>2, <1>3, <2>1, RankGrows, Ordered
<1> QED
  BY <1>3

LEMMA KeptAreFew ==
  ASSUME NEW S, Distinct(S)
  PROVE  KeptOf(S) \subseteq S /\ Cardinality(KeptOf(S)) <= TopK
<1> DEFINE rank == [b \in KeptOf(S) |-> RankIn(b, S)]
<1>1. KeptOf(S) \in SUBSET S /\ IsFiniteSet(S)
  BY DEF KeptOf, Distinct
<1>2. rank \in [KeptOf(S) -> 0..(TopK - 1)]
  <2>1. \A b \in KeptOf(S) : RankIn(b, S) \in Nat /\ RankIn(b, S) < TopK
    BY <1>1, RankGrows DEF KeptOf
  <2> QED
    BY <2>1, LoopAssumption
<1>3. \A b, c \in KeptOf(S) : rank[b] = rank[c] => b = c
  BY <1>1, RanksDiffer
<1> HIDE DEF rank
<1> QED
  BY <1>1, <1>2, <1>3, RanksAreFew, LoopAssumption

LEMMA PlacesDivide ==
  ASSUME NEW f \in Nat \ {0}, NEW n \in Nat
  PROVE  /\ f * n \in Nat
         /\ \A i \in 0..(f * n - 1) : i \div f \in 0..(n - 1)
         /\ \A r \in 0..(n - 1) : f * r \in 0..(f * n - 1) /\ (f * r) \div f = r
<1>1. f * n \in Nat
  OBVIOUS
<1>2. ASSUME NEW i \in 0..(f * n - 1) PROVE i \div f \in 0..(n - 1)
  OBVIOUS
<1>3. ASSUME NEW r \in 0..(n - 1) PROVE f * r \in 0..(f * n - 1) /\ (f * r) \div f = r
  OBVIOUS
<1> QED
  BY <1>1, <1>2, <1>3

BranchTyped ==
  work \in [all : SUBSET BranchRecord, pruned : SUBSET BranchRecord,
            surviving : SUBSET BranchRecord, next : Nat \ {0}]

BranchesKept ==
  /\ Distinct(work.all) /\ Cardinality(work.all) = work.next - 1
  /\ \A b \in work.all : b.id > 0 /\ b.id < work.next /\ b.parent < work.next
  /\ work.pruned \subseteq work.all /\ work.surviving \cap work.pruned = {}
  /\ \/ work.surviving = {Root} /\ work.all = {}
     \/ work.surviving \subseteq work.all /\ Cardinality(work.surviving) <= TopK
  /\ \A b \in work.surviving \cup work.pruned : \A c \in work.all : c.parent # b.id
  /\ \A b \in work.all : b \in work.pruned \/ b \in work.surviving \/ \E c \in work.all : c.parent = b.id
  /\ BranchFactor = 0 => work.all = {}

BranchInv == loop = "thought" => BranchTyped /\ BranchesKept

LEMMA RootIsBranch == Root \in BranchRecord /\ Root.id = 0 /\ Distinct({Root}) /\ Cardinality({Root}) = 1
<1>1. Root \in BranchRecord /\ Root.id = 0
  BY DEF Root, Branch, BranchRecord
<1>2. IsFiniteSet({Root}) /\ Cardinality({Root}) = 1
  BY FS_Singleton
<1> QED
  BY <1>1, <1>2 DEF Distinct

LEMMA SurvivorsDistinct ==
  ASSUME BranchTyped, BranchesKept
  PROVE  /\ Distinct(work.surviving) /\ Cardinality(work.surviving) \in Nat
         /\ \A b \in work.surviving : b.id < work.next
<1>1. CASE work.surviving = {Root}
  BY <1>1, RootIsBranch DEF BranchTyped
<1>2. CASE work.surviving \subseteq work.all
  <2>1. IsFiniteSet(work.surviving)
    BY <1>2, FS_Subset DEF BranchesKept, Distinct
  <2> QED
    BY <1>2, <2>1, FS_CardinalityType DEF BranchesKept, Distinct
<1> QED
  BY <1>1, <1>2 DEF BranchesKept

LEMMA BranchesEarned == BranchInv => BranchesAccounted
<1> SUFFICES ASSUME BranchInv, loop = "thought" PROVE BranchesAccounted
  BY DEF BranchesAccounted
<1>1. BranchTyped /\ BranchesKept
  BY DEF BranchInv
<1>2. work.surviving # {Root} => Cardinality(work.surviving) <= TopK
  BY <1>1 DEF BranchesKept
<1>3. Selected \subseteq work.surviving /\ (Selected = {} <=> work.surviving = {})
  <2>1. CASE work.surviving = {}
    BY <2>1 DEF Selected
  <2>2. CASE work.surviving # {}
    <3>1. \E b \in work.surviving : \A c \in work.surviving : b = c \/ Before(b, c)
      BY <1>1, <2>2, SurvivorsDistinct, FirstBranch
    <3> DEFINE first == CHOOSE b \in work.surviving : \A c \in work.surviving : b = c \/ Before(b, c)
    <3>2. first \in work.surviving
      BY <3>1
    <3>3. Selected = {first}
      BY <2>2 DEF Selected
    <3> HIDE DEF first
    <3> QED
      BY <2>2, <3>2, <3>3
  <2> QED
    BY <2>1, <2>2
<1>4. \A b \in work.pruned : ~\E c \in work.all : c.parent = b.id
  BY <1>1 DEF BranchesKept
<1>5. \A b \in work.all : b \notin work.pruned =>
         b \in work.surviving \/ \E c \in work.all : c.parent = b.id
  BY <1>1 DEF BranchesKept
<1> QED
  BY <1>1, <1>2, <1>3, <1>4, <1>5 DEF BranchesAccounted, BranchesKept

LEMMA BranchesInitially ==
  ASSUME LoopInit \/ LoopRests
  PROVE  BranchInv
<1> SUFFICES ASSUME loop = "thought" PROVE BranchTyped /\ BranchesKept
  BY DEF BranchInv
<1>1. work = [all |-> {}, pruned |-> {}, surviving |-> {Root}, next |-> 1]
  BY DEF LoopInit, LoopRests, NoWork
<1>2. BranchTyped
  BY <1>1, RootIsBranch DEF BranchTyped
<1>3. Distinct({}) /\ Cardinality({}) = 0
  BY FS_EmptySet DEF Distinct
<1> QED
  BY <1>1, <1>2, <1>3 DEF BranchesKept

(* One depth of the tree: every survivor gets its children, the children    *)
(* have their own ids, and each has one of the survivors as its parent.     *)
LEMMA ChildrenOfSurvivors ==
  ASSUME BranchTyped, BranchesKept, rounds \in Nat,
         NEW ids, ids = work.next..(work.next + BranchFactor * Cardinality(work.surviving) - 1),
         NEW score \in [ids -> Scores]
  PROVE  /\ Distinct(Children(ids, score)) /\ Cardinality(Children(ids, score)) = Cardinality(ids)
         /\ Cardinality(ids) \in Nat
         /\ \A c \in Children(ids, score) :
              /\ c.id >= work.next /\ c.id < work.next + Cardinality(ids)
              /\ \E p \in work.surviving : c.parent = p.id
         /\ BranchFactor > 0 => \A p \in work.surviving : \E c \in Children(ids, score) : c.parent = p.id
         /\ BranchFactor = 0 => Children(ids, score) = {}
<1> USE LoopAssumption
<1> DEFINE n == Cardinality(work.surviving)
           S == work.surviving
           parent(i) == CHOOSE p \in S : RankIn(p, S) = (i - work.next) \div BranchFactor
           child(i) == Branch(i, rounds - 1, parent(i).id, score[i])
           T == Children(ids, score)
<1>1. /\ Distinct(S) /\ n \in Nat /\ work.next \in Nat \ {0}
      /\ \A p \in S : p.id \in Nat /\ p.id < work.next
  BY SurvivorsDistinct DEF BranchTyped, Distinct, BranchRecord
<1>2. T = {child(i) : i \in ids}
  BY DEF Children
<1>3. BranchFactor * n \in Nat
  BY <1>1
<1>4. CASE BranchFactor = 0
  <2>1. BranchFactor * n = 0 /\ ids = {}
    BY <1>1, <1>4
  <2>2. T = {} /\ Cardinality(ids) = 0
    BY <1>2, <2>1, FS_EmptySet
  <2>3. Distinct(T) /\ Cardinality(T) = 0
    BY <2>2, FS_EmptySet DEF Distinct
  <2> QED
    BY <1>4, <2>1, <2>2, <2>3
<1>5. CASE BranchFactor # 0
  <2>1. ASSUME NEW i \in ids
        PROVE  /\ parent(i) \in S /\ RankIn(parent(i), S) = (i - work.next) \div BranchFactor
               /\ i \in Nat /\ child(i) \in BranchRecord
               /\ child(i).id = i /\ child(i).parent = parent(i).id
    <3>1. i - work.next \in 0..(BranchFactor * n - 1) /\ i \in Nat
      BY <1>1, <1>3
    <3>2. (i - work.next) \div BranchFactor \in 0..(n - 1)
      BY <1>1, <1>5, <3>1, PlacesDivide
    <3>3. \E p \in S : RankIn(p, S) = (i - work.next) \div BranchFactor
      BY <1>1, <3>2, RanksAreAll
    <3>4. parent(i) \in S /\ RankIn(parent(i), S) = (i - work.next) \div BranchFactor
      BY <3>3
    <3>5. parent(i).id \in Nat /\ score[i] \in Nat
      BY <1>1, <3>4
    <3> HIDE DEF parent
    <3> QED
      BY <3>1, <3>4, <3>5 DEF Branch, BranchRecord
  <2>2. IsFiniteSet(ids) /\ Cardinality(ids) = BranchFactor * n /\ Cardinality(ids) \in Nat
    <3> DEFINE end == work.next + BranchFactor * n - 1
    <3>1. end \in Int /\ work.next \in Int /\ (work.next > end <=> BranchFactor * n = 0)
          /\ end - work.next + 1 = BranchFactor * n
      BY <1>1, <1>3
    <3>2. ids = work.next..end
      OBVIOUS
    <3> HIDE DEF end
    <3>3. IsFiniteSet(ids) /\ Cardinality(ids) = IF work.next > end THEN 0 ELSE end - work.next + 1
      BY <3>1, <3>2, FS_Interval
    <3> QED
      BY <1>3, <3>1, <3>3
  <2> DEFINE make == [i \in ids |-> child(i)]
  <2>3. \A i, j \in ids : make[i] = make[j] => i = j
    BY <2>1
  <2>4. make \in [ids -> T] /\ \A c \in T : \E i \in ids : make[i] = c
    BY <1>2
  <2>5. ExistsBijection(ids, T)
    <3> HIDE DEF make, T
    <3>1. make \in Bijection(ids, T)
      BY <2>3, <2>4 DEF Bijection, Injection, Surjection, IsInjective
    <3> QED
      BY <3>1 DEF ExistsBijection
  <2>6. IsFiniteSet(T) /\ Cardinality(T) = Cardinality(ids)
    <3> HIDE DEF T
    <3> QED BY <2>2, <2>5, FS_Bijection
  <2>7. Distinct(T)
    <3>1. T \subseteq BranchRecord
      BY <1>2, <2>1
    <3>2. ASSUME NEW b \in T, NEW c \in T, b.id = c.id PROVE b = c
      <4>1. PICK i \in ids : b = child(i)
        BY <1>2
      <4>2. PICK j \in ids : c = child(j)
        BY <1>2
      <4>3. i = j
        BY <2>1, <3>2, <4>1, <4>2
      <4> QED
        BY <4>1, <4>2, <4>3
    <3> HIDE DEF T
    <3> QED BY <2>6, <3>1, <3>2 DEF Distinct
  <2>8. ASSUME NEW c \in T
        PROVE  /\ c.id >= work.next /\ c.id < work.next + Cardinality(ids)
               /\ \E p \in S : c.parent = p.id
    <3>1. PICK i \in ids : c = child(i)
      BY <1>2
    <3>2. c.id = i /\ c.parent = parent(i).id /\ parent(i) \in S
      BY <2>1, <3>1
    <3>3. i >= work.next /\ i < work.next + Cardinality(ids)
      BY <1>1, <1>3, <2>2
    <3> HIDE DEF parent
    <3> QED
      BY <3>2, <3>3
  <2>9. ASSUME NEW p \in S PROVE \E c \in T : c.parent = p.id
    <3> DEFINE r == RankIn(p, S)
               i == work.next + BranchFactor * r
    <3>1. r \in 0..(n - 1)
      BY <1>1, RankGrows
    <3>2. BranchFactor * r \in 0..(BranchFactor * n - 1) /\ (BranchFactor * r) \div BranchFactor = r
      BY <1>1, <1>5, <3>1, PlacesDivide
    <3>3. i \in ids /\ i - work.next = BranchFactor * r
      BY <1>1, <1>3, <3>2
    <3>4. RankIn(parent(i), S) = r /\ parent(i) \in S /\ child(i).parent = parent(i).id
      BY <2>1, <3>2, <3>3
    <3>5. parent(i) = p
      BY <1>1, <3>4, RanksDiffer
    <3>6. child(i) \in T
      BY <1>2, <3>3
    <3> QED
      BY <3>4, <3>5, <3>6
  <2> QED
    BY <1>5, <2>2, <2>6, <2>7, <2>8, <2>9
<1> QED
  BY <1>4, <1>5

LEMMA ThinkKeeps ==
  ASSUME BranchInv, VerdictInv, Think
  PROVE  BranchInv'
<1> USE LoopAssumption
<1>1. loop = "thought" /\ loop' = loop /\ BranchTyped /\ BranchesKept /\ rounds \in Nat
  BY DEF Think, BranchInv, Await, VerdictInv, ClaimInv
<1> DEFINE ids == work.next..(work.next + BranchFactor * Cardinality(work.surviving) - 1)
           fresh(score) == Children(ids, score)
           good(score) == {b \in fresh(score) : b.score >= Threshold}
<1>2. PICK score \in [ids -> Scores] :
        work' = [all |-> work.all \cup fresh(score), pruned |-> work.pruned \cup (fresh(score) \ KeptOf(good(score))),
                 surviving |-> KeptOf(good(score)), next |-> work.next + Cardinality(ids)]
  BY DEF Think
<1> DEFINE scored == fresh(score)
           above == good(score)
           kept == KeptOf(above)
           m == Cardinality(ids)
<1>3. /\ Distinct(scored) /\ Cardinality(scored) = m /\ m \in Nat
      /\ \A c \in scored : c.id >= work.next /\ c.id < work.next + m
                           /\ \E p \in work.surviving : c.parent = p.id
      /\ BranchFactor > 0 => \A p \in work.surviving : \E c \in scored : c.parent = p.id
      /\ BranchFactor = 0 => scored = {}
  <2>1. ids = work.next..(work.next + BranchFactor * Cardinality(work.surviving) - 1) /\ score \in [ids -> Scores]
    BY <1>2
  <2>2. scored = Children(ids, score)
    OBVIOUS
  <2> HIDE DEF ids, fresh, scored
  <2>3. /\ Distinct(Children(ids, score)) /\ Cardinality(Children(ids, score)) = Cardinality(ids)
        /\ Cardinality(ids) \in Nat
        /\ \A c \in Children(ids, score) :
             /\ c.id >= work.next /\ c.id < work.next + Cardinality(ids)
             /\ \E p \in work.surviving : c.parent = p.id
        /\ BranchFactor > 0 => \A p \in work.surviving : \E c \in Children(ids, score) : c.parent = p.id
        /\ BranchFactor = 0 => Children(ids, score) = {}
    BY ONLY <1>1, <2>1, ChildrenOfSurvivors
  <2> QED
    BY ONLY <2>2, <2>3 DEF m
<1>4. /\ work'.all = work.all \cup scored /\ work'.pruned = work.pruned \cup (scored \ kept)
      /\ work'.surviving = kept /\ work'.next = work.next + m
      /\ work' = [all |-> work'.all, pruned |-> work'.pruned, surviving |-> work'.surviving, next |-> work'.next]
  BY <1>2
<1>5. Distinct(above) /\ above \subseteq scored
  <2>1. above \in SUBSET scored
    OBVIOUS
  <2> HIDE DEF scored, above
  <2> QED
    BY <1>3, <2>1, FS_Subset DEF Distinct
<1>6. kept \subseteq scored /\ Cardinality(kept) <= TopK
  <2> HIDE DEF scored, above
  <2> QED BY <1>5, KeptAreFew
<1>7. /\ \A b \in work.all : b \in BranchRecord /\ b.id \in Nat /\ b.parent \in Int
      /\ \A b \in work.surviving : b \in BranchRecord /\ b.id \in Nat /\ b.id < work.next
      /\ \A b \in scored : b \in BranchRecord /\ b.id \in Nat /\ b.parent \in Int
      /\ work.next \in Nat \ {0}
  BY <1>1, <1>3, SurvivorsDistinct DEF BranchTyped, BranchRecord, Distinct
<1> HIDE DEF scored, above, kept, m, ids, fresh, good
<1>8. BranchTyped'
  <2>1. work'.next \in Nat \ {0}
    BY <1>3, <1>4, <1>7
  <2>2. /\ work'.all \in SUBSET BranchRecord /\ work'.pruned \in SUBSET BranchRecord
        /\ work'.surviving \in SUBSET BranchRecord
    BY <1>1, <1>4, <1>6, <1>7 DEF BranchTyped
  <2> QED
    BY <1>4, <2>1, <2>2 DEF BranchTyped
<1>9. Distinct(work'.all) /\ Cardinality(work'.all) = work'.next - 1
  <2>1. work.all \cap scored = {}
    BY <1>1, <1>3, <1>7 DEF BranchesKept
  <2>2. IsFiniteSet(work.all) /\ IsFiniteSet(scored) /\ Cardinality(work.all) = work.next - 1
    BY <1>1, <1>3 DEF BranchesKept, Distinct
  <2>3. IsFiniteSet(work'.all) /\ Cardinality(work'.all) = (work.next - 1) + m - 0
    BY <1>3, <1>4, <2>1, <2>2, FS_Union, FS_EmptySet
  <2>4. \A b, c \in work'.all : b.id = c.id => b = c
    <3>1. ASSUME NEW b \in work.all, NEW c \in scored PROVE b.id # c.id
      BY <1>1, <1>3, <1>7 DEF BranchesKept
    <3> QED
      BY <1>1, <1>3, <1>4, <3>1 DEF BranchesKept, Distinct
  <2>5. work'.all \subseteq BranchRecord
    BY <1>4, <1>7
  <2> QED
    BY <1>3, <1>4, <1>7, <2>3, <2>4, <2>5 DEF Distinct
<1>10. \A b \in work'.all : b.id > 0 /\ b.id < work'.next /\ b.parent < work'.next
  <2>1. \A b \in work.all : b.id > 0 /\ b.id < work.next /\ b.parent < work.next
    BY <1>1 DEF BranchesKept
  <2>2. \A b \in scored : b.id > 0 /\ b.id < work.next + m /\ b.parent < work.next
    BY <1>3, <1>7
  <2> QED
    BY <1>3, <1>4, <1>7, <2>1, <2>2
<1>11. work'.pruned \subseteq work'.all /\ work'.surviving \cap work'.pruned = {}
  <2>1. work.pruned \subseteq work.all /\ kept \cap work.pruned = {}
    BY <1>1, <1>3, <1>6, <1>7 DEF BranchesKept
  <2> QED
    BY <1>4, <2>1
<1>12. work'.surviving \subseteq work'.all /\ Cardinality(work'.surviving) <= TopK
  BY <1>4, <1>6
<1>13. \A b \in work'.surviving \cup work'.pruned : \A c \in work'.all : c.parent # b.id
  <2> SUFFICES ASSUME NEW b \in work.pruned \cup scored, NEW c \in work.all \cup scored PROVE c.parent # b.id
    BY <1>4, <1>6
  <2>1. CASE b \in scored
    <3>1. c.parent < work.next
      BY <1>1, <1>3, <1>7 DEF BranchesKept
    <3> QED
      BY <1>3, <1>7, <2>1, <3>1 DEF BranchesKept
  <2>2. CASE b \in work.pruned /\ c \in work.all
    BY <1>1, <2>2 DEF BranchesKept
  <2>3. CASE b \in work.pruned /\ c \in scored
    <3>1. PICK p \in work.surviving : c.parent = p.id
      BY <1>3, <2>3
    <3>2. b \in work.all /\ b # p
      BY <1>1, <2>3 DEF BranchesKept
    <3>3. CASE p = Root
      BY <1>1, <3>1, <3>2, <3>3, RootIsBranch DEF BranchesKept
    <3>4. CASE p \in work.all
      BY <1>1, <3>1, <3>2, <3>4 DEF BranchesKept, Distinct
    <3> QED
      BY <1>1, <3>3, <3>4 DEF BranchesKept
  <2> QED
    BY <2>1, <2>2, <2>3
<1>14. \A b \in work'.all : b \in work'.pruned \/ b \in work'.surviving \/ \E c \in work'.all : c.parent = b.id
  <2> SUFFICES ASSUME NEW b \in work.all, b \notin work.pruned
               PROVE  \E c \in work.all \cup scored : c.parent = b.id
    BY <1>4
  <2>1. CASE b \notin work.surviving
    BY <1>1, <2>1 DEF BranchesKept
  <2>2. CASE b \in work.surviving
    <3>1. BranchFactor > 0
      BY <1>1 DEF BranchesKept
    <3> QED
      BY <1>3, <2>2, <3>1
  <2> QED
    BY <2>1, <2>2
<1>15. BranchFactor = 0 => work'.all = {}
  BY <1>1, <1>3, <1>4 DEF BranchesKept
<1> QED
  BY <1>8, <1>9, <1>10, <1>11, <1>12, <1>13, <1>14, <1>15 DEF BranchInv, BranchesKept

LEMMA BranchesStep ==
  ASSUME BranchInv, VerdictInv, LoopNext \/ UNCHANGED loopVars
  PROVE  BranchInv'
<1>1. CASE Think
  BY <1>1, ThinkKeeps
<1>2. CASE loop # "thought" /\ loop' = loop
  BY <1>2 DEF BranchInv
<1>3. CASE UNCHANGED <<loop, work>>
  BY <1>3 DEF BranchInv, BranchTyped, BranchesKept
<1>4. AgentThrows \/ UNCHANGED loopVars => UNCHANGED <<loop, work>>
  BY DEF AgentThrows, loopVars
<1>5. ASSUME AgentStep PROVE Think \/ (loop # "thought" /\ loop' = loop)
  BY <1>5 DEF AgentStep, Await, Generate, Critique, Work, KickOff, Debate, Coordinate,
     Respond, Synthesize, StartBatch, ResearcherAnswers, Negotiate, Build, Verify, Judge,
     TeamReturns, Plan, Attack, Patch, Ask, Decompose, Conclude, Evaluate, ScoreRound
<1> QED
  BY <1>1, <1>2, <1>3, <1>4, <1>5 DEF LoopNext

-----------------------------------------------------------------------------
TemplatesInv == ParallelInv /\ VerdictInv /\ BranchInv

LEMMA TemplatesInitially == TemplatesInit => TemplatesInv
BY ParallelInitially, LoopInitially, BranchesInitially DEF TemplatesInit, TemplatesInv

LEMMA TemplatesStep == TemplatesInv /\ [TemplatesNext]_templateVars => TemplatesInv'
<1> SUFFICES ASSUME TemplatesInv, [TemplatesNext]_templateVars PROVE TemplatesInv'
  OBVIOUS
<1>1. ParallelNext \/ UNCHANGED parallelVars
  BY DEF TemplatesNext, templateVars
<1>2. LoopNext \/ UNCHANGED loopVars
  BY DEF TemplatesNext, templateVars
<1> QED
  BY <1>1, <1>2, ParallelStep, LoopsStayEarned, BranchesStep DEF TemplatesInv

(* Whatever agents, timeouts and judges answer, no template of the swarm    *)
(* claims a result it has not earned (swarm/factories.ts,                   *)
(* factories-advanced.ts, graph.ts); a debate out of rounds excepted.       *)
THEOREM TemplateResultsEarned == TemplatesSpec => []ResultsAreEarned
<1>1. TemplatesInv => ResultsAreEarned
  BY ParallelEarned, VerdictsEarned, BranchesEarned DEF TemplatesInv, ResultsAreEarned
<1> QED
  BY <1>1, TemplatesInitially, TemplatesStep, PTL DEF TemplatesSpec

-----------------------------------------------------------------------------
(***************************************************************************)
(* Folds.  What one computes for every sequence follows from what it does  *)
(* with the empty one and with one more element.                           *)
(***************************************************************************)
(* A non-empty set of numbers that has a bound has a greatest one. *)
LEMMA MaxExists ==
  ASSUME NEW n \in Nat, NEW T, T \subseteq 0..n, T # {}
  PROVE  \E k \in T : \A j \in T : j <= k
<1> DEFINE Family == {k..n : k \in T}
<1>1. Family \subseteq SUBSET (0..n) /\ Family # {}
  <2>1. ASSUME NEW k \in T PROVE k..n \subseteq 0..n
    OBVIOUS
  <2> QED BY <2>1
<1>2. IsWellFoundedOn(StrictSubsetOrdering(0..n), SUBSET (0..n))
  <2>1. IsFiniteSet(0..n)
    BY FS_Interval
  <2>2. FiniteSubsetsOf(0..n) = SUBSET (0..n)
    BY <2>1, FS_FiniteSubsetsOfFinite
  <2>3. IsWellFoundedOn(StrictSubsetOrdering(0..n), FiniteSubsetsOf(0..n))
    BY FS_StrictSubsetOrderingWellFounded
  <2> QED BY <2>2, <2>3
<1>3. PICK F \in Family : \A E \in Family : ~(<<E, F>> \in StrictSubsetOrdering(0..n))
  <2> HIDE DEF Family
  <2> QED BY <1>1, <1>2, WFMin
<1>4. PICK k \in T : F = k..n
  BY <1>3
<1>5. ASSUME NEW j \in T PROVE j <= k
  <2>1. j..n \in Family
    OBVIOUS
  <2>2. SUFFICES ASSUME k < j PROVE FALSE
    OBVIOUS
  <2>3. j..n \subseteq k..n /\ k \in k..n /\ k \notin j..n
    BY <2>2
  <2>4. <<j..n, k..n>> \in StrictSubsetOrdering(0..n)
    BY <2>1, <2>3, <1>1, <1>4 DEF StrictSubsetOrdering
  <2> QED BY <2>1, <2>4, <1>3, <1>4
<1> QED BY <1>5

(* And a non-empty set of natural numbers has a least one. *)
LEMMA LeastExists ==
  ASSUME NEW S, S \subseteq Nat, S # {}
  PROVE  \E k \in S : \A j \in S : k <= j
<1>1. PICK n \in S : TRUE
  OBVIOUS
<1> DEFINE T == {i \in 0..n : n - i \in S}
<1>2. n \in Nat /\ T \subseteq 0..n /\ 0 \in T
  OBVIOUS
<1>3. PICK i \in T : \A j \in T : j <= i
  <2> HIDE DEF T
  <2> QED BY <1>2, MaxExists
<1>4. n - i \in S /\ i \in 0..n
  BY <1>3
<1>5. ASSUME NEW j \in S PROVE n - i <= j
  <2>1. CASE j > n
    BY <1>2, <1>4, <2>1
  <2>2. CASE ~(j > n)
    <3>1. n - j \in 0..n /\ n - (n - j) = j
      BY <1>2, <2>2
    <3>2. n - j \in T
      BY <3>1
    <3>3. n - j <= i
      BY <1>3, <3>2
    <3> QED BY <1>2, <1>4, <3>3
  <2> QED BY <2>1, <2>2
<1> QED BY <1>4, <1>5


(* What holds at 0 and from each number to the next holds up to n. *)
LEMMA Inducts ==
  ASSUME NEW n \in Nat, NEW S, 0 \in S, \A k \in 0..(n - 1) : k \in S => k + 1 \in S
  PROVE  0..n \subseteq S
<1> DEFINE Bad == {k \in 0..n : k \notin S}
<1>1. SUFFICES ASSUME Bad # {} PROVE FALSE
  OBVIOUS
<1>2. PICK k \in Bad : \A j \in Bad : k <= j
  <2>1. Bad \subseteq Nat
    OBVIOUS
  <2> HIDE DEF Bad
  <2> QED BY <1>1, <2>1, LeastExists
<1>3. k # 0 /\ k \in 0..n
  BY <1>2
<1>4. k - 1 \in 0..n /\ k - 1 \in 0..(n - 1) /\ k - 1 \notin Bad
  BY <1>2, <1>3
<1>5. k - 1 \in S /\ (k - 1) + 1 = k
  BY <1>3, <1>4
<1> QED
  BY <1>2, <1>4, <1>5

(* FoldLeft takes the elements away from the last one on: it is a function *)
(* g on sets of positions of a sequence of n elements, that starts with b  *)
(* and takes the steps h.                                                   *)

Subsets(n) == SUBSET (1..n)
UpTo(n) == 1..n
Rest(s) == s \ {Max(s)}
Take(h, a, i) == h[<<a, i>>]

FoldsOn(g, h, b, n) ==
  g = [s \in Subsets(n) |-> IF s = {} THEN b ELSE Take(h, g[Rest(s)], Max(s))]

(* Two folds take the same steps, and one stays within a set. *)
SameSteps(h, k, A, n) == \A a \in A : \A i \in 1..n : Take(h, a, i) = Take(k, a, i)
Stays(f, A, n) == \A p \in Subsets(n) : f[p] \in A

LEMMA MaxIn ==
  ASSUME NEW n \in Nat, NEW s \in Subsets(n), s # {}
  PROVE  /\ Max(s) \in s /\ Max(s) \in 1..n /\ \A y \in s : y <= Max(s)
         /\ Rest(s) \in Subsets(Max(s) - 1) /\ Rest(s) \in Subsets(n)
<1>1. \E k \in s : \A j \in s : k >= j
  <2>1. s \subseteq 0..n
    BY DEF Subsets
  <2>2. \E k \in s : \A j \in s : j <= k
    BY <2>1, MaxExists
  <2> QED BY <2>1, <2>2
<1>2. Max(s) \in s /\ \A y \in s : Max(s) >= y
  BY <1>1 DEF Max
<1> HIDE DEF Max
<1>3. Max(s) \in 1..n /\ \A y \in s : y \in 1..n
  BY <1>2 DEF Subsets
<1>4. \A y \in s : y # Max(s) => y \in 1..(Max(s) - 1)
  BY <1>2, <1>3
<1> QED
  BY <1>2, <1>3, <1>4 DEF Rest, Subsets

LEMMA MaxOfPrefix ==
  ASSUME NEW k \in Nat
  PROVE  /\ Max(UpTo(k + 1)) = k + 1 /\ Rest(UpTo(k + 1)) = UpTo(k)
         /\ UpTo(k + 1) # {} /\ UpTo(k + 1) \in Subsets(k + 1) /\ UpTo(k) \in Subsets(k)
         /\ UpTo(0) = {}
<1> DEFINE s == UpTo(k + 1)
<1>1. PICK n \in Nat : n = k + 1
  OBVIOUS
<1>2. s \in Subsets(n) /\ s # {} /\ k + 1 \in s /\ UpTo(k) \in Subsets(k) /\ UpTo(0) = {}
  BY <1>1 DEF Subsets, UpTo
<1>3. Max(s) \in s /\ Max(s) \in 1..n /\ k + 1 <= Max(s)
  <2> HIDE DEF s
  <2> QED BY <1>1, <1>2, MaxIn
<1>4. Max(s) = k + 1
  BY <1>1, <1>3
<1>5. Rest(s) = s \ {k + 1}
  BY <1>4 DEF Rest
<1>6. s \ {k + 1} = UpTo(k)
  BY DEF UpTo
<1> QED
  BY <1>1, <1>2, <1>4, <1>5, <1>6

LEMMA FoldAt ==
  ASSUME NEW g, NEW h, NEW b, NEW n, FoldsOn(g, h, b, n)
  PROVE  /\ DOMAIN g = Subsets(n)
         /\ g[{}] = b
         /\ \A s \in Subsets(n) : s # {} => g[s] = Take(h, g[Rest(s)], Max(s))
<1> DEFINE body(u) == IF u = {} THEN b ELSE Take(h, g[Rest(u)], Max(u))
<1> HIDE DEF body
<1>1. g = [u \in Subsets(n) |-> body(u)]
  BY DEF FoldsOn, body
<1>2. DOMAIN g = Subsets(n) /\ \A s \in Subsets(n) : g[s] = body(s)
  BY <1>1
<1>3. {} \in Subsets(n)
  BY DEF Subsets
<1> QED
  BY <1>2, <1>3 DEF body

LEMMA FoldExists ==
  ASSUME NEW A, NEW n \in Nat, NEW b \in A, NEW h, \A a \in A : \A i \in 1..n : Take(h, a, i) \in A
  PROVE  \E g \in [Subsets(n) -> A] : FoldsOn(g, h, b, n)
<1> DEFINE Fold(g, m) == \A s \in Subsets(m) : g[s] = IF s = {} THEN b ELSE Take(h, g[Rest(s)], Max(s))
           Good == {m \in 0..n : \E g \in [Subsets(m) -> A] : Fold(g, m)}
<1>1. 0 \in Good
  <2> DEFINE g == [s \in Subsets(0) |-> b]
  <2>1. g \in [Subsets(0) -> A] /\ \A s \in Subsets(0) : g[s] = b /\ s = {}
    BY DEF Subsets
  <2> HIDE DEF g
  <2>2. Fold(g, 0)
    BY <2>1
  <2> HIDE DEF Fold
  <2> QED BY <2>1, <2>2
<1>2. ASSUME NEW m \in 0..(n - 1), m \in Good PROVE m + 1 \in Good
  <2>1. PICK g \in [Subsets(m) -> A] : Fold(g, m)
    BY <1>2
  <2>r. PICK r \in 1..n : r = m + 1
    OBVIOUS
  <2> DEFINE f == [s \in Subsets(r) |-> IF r \in s THEN Take(h, g[Rest(s)], Max(s)) ELSE g[s]]
  <2>2. ASSUME NEW s \in Subsets(r), r \in s
        PROVE  /\ Max(s) = r /\ Rest(s) \in Subsets(m) /\ Rest(s) \in Subsets(r) /\ r \notin Rest(s)
               /\ f[s] = Take(h, g[Rest(s)], Max(s)) /\ f[Rest(s)] = g[Rest(s)] /\ f[s] \in A
    <3>1. Max(s) \in 1..r /\ r <= Max(s) /\ Rest(s) \in Subsets(Max(s) - 1) /\ Rest(s) \in Subsets(r)
      BY <2>2, MaxIn
    <3>2. Max(s) = r
      BY <3>1
    <3>3. Rest(s) \in Subsets(m) /\ r \notin Rest(s)
      BY <3>1, <3>2, <2>r DEF Subsets
    <3>4. f[s] = Take(h, g[Rest(s)], Max(s)) /\ f[Rest(s)] = g[Rest(s)]
      BY <2>2, <3>1, <3>3
    <3>5. g[Rest(s)] \in A
      BY <3>3
    <3>6. Take(h, g[Rest(s)], Max(s)) \in A
      BY <3>2, <3>5
    <3> HIDE DEF f
    <3> QED BY <3>1, <3>2, <3>3, <3>4, <3>6
  <2>3. ASSUME NEW s \in Subsets(r), r \notin s
        PROVE  /\ s \in Subsets(m) /\ f[s] = g[s] /\ f[s] \in A
               /\ f[Rest(s)] = g[Rest(s)]
    <3>1. s \in Subsets(m) /\ Rest(s) \in Subsets(r) /\ r \notin Rest(s)
      <4>1. Rest(s) \subseteq s
        BY DEF Rest
      <4>2. \A x \in s : x \in 1..m
        BY <2>3, <2>r DEF Subsets
      <4> QED BY <2>3, <4>1, <4>2 DEF Subsets
    <3>2. f[s] = g[s] /\ f[Rest(s)] = g[Rest(s)]
      BY <2>3, <3>1
    <3>3. g[s] \in A
      BY <3>1
    <3> HIDE DEF f
    <3> QED BY <3>1, <3>2, <3>3
  <2>4. f \in [Subsets(r) -> A]
    <3>1. \A s \in Subsets(r) : f[s] \in A
      <4> HIDE DEF f
      <4> QED BY <2>2, <2>3
    <3> QED BY <3>1
  <2>5. Fold(f, r)
    <3> HIDE DEF f
    <3>1. ASSUME NEW s \in Subsets(r)
          PROVE  f[s] = IF s = {} THEN b ELSE Take(h, f[Rest(s)], Max(s))
      <4>1. CASE r \in s
        BY <2>2, <4>1
      <4>2. CASE r \notin s
        BY <2>1, <2>3, <4>2
      <4> QED BY <4>1, <4>2
    <3> QED BY <3>1
  <2>6. r \in 0..n
    OBVIOUS
  <2> HIDE DEF f, Fold
  <2>7. r \in Good
    BY <2>4, <2>5, <2>6
  <2> HIDE DEF Good
  <2> QED BY <2>r, <2>7
<1>3. n \in Good
  <2> HIDE DEF Good
  <2>1. 0..n \subseteq Good
    BY <1>1, <1>2, Inducts
  <2> QED BY <2>1
<1>4. PICK g \in [Subsets(n) -> A] : Fold(g, n)
  BY <1>3
<1>5. FoldsOn(g, h, b, n)
  <2> DEFINE body(s) == IF s = {} THEN b ELSE Take(h, g[Rest(s)], Max(s))
  <2>1. \A s \in Subsets(n) : g[s] = body(s)
    BY <1>4
  <2> HIDE DEF body
  <2>2. g = [s \in Subsets(n) |-> body(s)]
    BY <2>1
  <2> QED BY <2>2 DEF FoldsOn, body
<1> QED
  BY <1>5

(* Two folds that start alike agree as far as their steps do. *)
LEMMA FoldsAgree ==
  ASSUME NEW A, NEW n \in Nat, NEW m \in n..(n + 1), NEW b, NEW h, NEW k, NEW f, NEW g,
         FoldsOn(f, h, b, n), FoldsOn(g, k, b, m), Stays(f, A, n), SameSteps(h, k, A, n)
  PROVE  \A s \in Subsets(n) : f[s] = g[s]
<1>7. f[{}] = b /\ \A s \in Subsets(n) : s # {} => f[s] = Take(h, f[Rest(s)], Max(s))
  BY FoldAt
<1>8. g[{}] = b /\ \A s \in Subsets(m) : s # {} => g[s] = Take(k, g[Rest(s)], Max(s))
  BY FoldAt
<1> DEFINE Good == {j \in 0..n : \A s \in Subsets(j) : f[s] = g[s]}
<1>1. 0 \in Good
  <2>1. \A s \in Subsets(0) : f[s] = g[s]
    <3> TAKE s \in Subsets(0)
    <3>1. s = {}
      BY DEF Subsets
    <3> QED BY <1>7, <1>8, <3>1
  <2>2. 0 \in 0..n
    OBVIOUS
  <2> QED BY <2>1, <2>2
<1>2. ASSUME NEW j \in 0..(n - 1), j \in Good PROVE j + 1 \in Good
  <2>r. PICK r \in 1..n : r = j + 1
    OBVIOUS
  <2>1. ASSUME NEW s \in Subsets(r) PROVE f[s] = g[s]
    <3>1. CASE s = {}
      BY <1>7, <1>8, <3>1
    <3>2. CASE s # {}
      <4>1. s \in Subsets(n) /\ s \in Subsets(m)
        BY <2>r DEF Subsets
      <4>2. Max(s) \in 1..r /\ Rest(s) \in Subsets(Max(s) - 1)
        BY <3>2, MaxIn
      <4>3. Max(s) \in 1..n /\ Rest(s) \in Subsets(j) /\ Rest(s) \in Subsets(n)
        BY <2>r, <4>2 DEF Subsets
      <4>4. f[Rest(s)] = g[Rest(s)]
        BY <1>2, <4>3
      <4>5. f[Rest(s)] \in A
        BY <4>3 DEF Stays
      <4>6. Take(h, f[Rest(s)], Max(s)) = Take(k, f[Rest(s)], Max(s))
        BY <4>3, <4>5 DEF SameSteps
      <4> QED BY <1>7, <1>8, <3>2, <4>1, <4>4, <4>6
    <3> QED BY <3>1, <3>2
  <2>2. r \in Good
    BY <2>1
  <2> HIDE DEF Good
  <2> QED BY <2>r, <2>2
<1>3. 0..n \subseteq Good
  <2> HIDE DEF Good
  <2> QED BY <1>1, <1>2, Inducts
<1>4. n \in Good
  <2> HIDE DEF Good
  <2> QED BY <1>3
<1> QED
  BY <1>4

(* The step of a fold whose result is known at each set of positions. *)
LEMMA FoldAppends ==
  ASSUME NEW A, NEW n \in Nat, NEW b \in A, NEW h, NEW k, NEW f, NEW g,
         FoldsOn(f, h, b, n), FoldsOn(g, k, b, n + 1), Stays(f, A, n), SameSteps(h, k, A, n)
  PROVE  g[UpTo(n + 1)] = Take(k, f[UpTo(n)], n + 1)
<1>1. PICK m \in n..(n + 1) : m = n + 1
  OBVIOUS
<1>2. f[UpTo(n)] = g[UpTo(n)]
  <2>1. FoldsOn(g, k, b, m)
    BY <1>1
  <2>2. \A s \in Subsets(n) : f[s] = g[s]
    BY <2>1, FoldsAgree
  <2> QED BY <2>2, MaxOfPrefix
<1>3. \A s \in Subsets(n + 1) : s # {} => g[s] = Take(k, g[Rest(s)], Max(s))
  BY FoldAt
<1> QED
  BY <1>2, <1>3, MaxOfPrefix

-----------------------------------------------------------------------------
(***************************************************************************)
(* The scaling monitor.  Whatever the timeline holds, what is added fits   *)
(* below the maximum and what is removed leaves the minimum.               *)
(***************************************************************************)
ScalingInv ==
  /\ agentCount \in MinAgents..MaxAgents
  /\ now \in Nat /\ lastDecision \in Nat

LEMMA ChangeFits ==
  ASSUME ScalingInv, NEW timeline
  PROVE  agentCount + ScalingDecision(timeline) \in MinAgents..MaxAgents
<1> USE ScalingAssumption DEF ScalingInv
<1>1. agentCount < MaxAgents => Add(agentCount, 2) \in 0..(MaxAgents - agentCount)
                             /\ Add(agentCount, 4) \in 0..(MaxAgents - agentCount)
  BY DEF Add, SmallerOf
<1>2. ScaleUp(timeline) \in 0..(MaxAgents - agentCount)
  BY <1>1 DEF ScaleUp
<1>3. ScaleDown(timeline) \in 0..(agentCount - MinAgents)
  BY DEF ScaleDown, SmallerOf
<1> QED
  BY <1>2, <1>3 DEF ScalingDecision

LEMMA ScalingStep ==
  ASSUME ScalingInv, ScalingNext \/ UNCHANGED scalingVars
  PROVE  ScalingInv' /\ Paced
<1> USE ScalingAssumption DEF ScalingInv, Paced
<1>1. ASSUME NEW timeline, Applied(ScalingDecision(timeline)), now' = now PROVE ScalingInv' /\ Paced
  <2>1. agentCount' \in MinAgents..MaxAgents
    BY <1>1, ChangeFits DEF Applied
  <2>2. agentCount' # agentCount => ~Cooling
    BY <1>1, <2>1 DEF Applied, ScalingDecision
  <2> QED
    BY <1>1, <2>1, <2>2 DEF Applied, Cooling
<1>2. CASE UNCHANGED scalingVars
  BY <1>2 DEF scalingVars
<1>3. CASE Poll
  BY <1>1, <1>3 DEF Poll
<1>4. CASE TimePasses
  BY <1>4 DEF TimePasses
<1>5. CASE (\E on \in BOOLEAN : SetReactive(on)) \/ \E w \in Workers : ExecutionStarts(w)
  BY <1>5 DEF SetReactive, ExecutionStarts
<1>6. ASSUME NEW x \in executions, NEW type \in {"complete", "error"}, ExecutionEnds(x, type)
      PROVE  ScalingInv' /\ Paced
  BY <1>1, <1>6 DEF ExecutionEnds
<1> QED
  BY <1>2, <1>3, <1>4, <1>5, <1>6 DEF ScalingNext

(* Every decision of the monitor, polled or reactive, keeps the number of   *)
(* agents between its bounds and its distance from the one before, whatever *)
(* the timeline has lost.                                                   *)
THEOREM ScalingStaysPaced == TemplatesSpec => [][Paced]_scalingVars
<1>1. TemplatesInit => ScalingInv
  BY ScalingAssumption DEF TemplatesInit, ScalingInit, ScalingInv
<1>2. ScalingInv /\ [TemplatesNext]_templateVars => ScalingInv' /\ [Paced]_scalingVars
  BY ScalingStep DEF TemplatesNext, templateVars
<1> QED
  BY <1>1, <1>2, PTL DEF TemplatesSpec

-----------------------------------------------------------------------------
(***************************************************************************)
(* Starts matched with ends: a fold over the timeline.                     *)
(***************************************************************************)
Pairing == [open : [Workers -> Seq(Int)], longest : Int]
NoPairs == [open |-> [w \in Workers |-> <<>>], longest |-> 0]
Paired(acc, e) ==
  IF e.type = "start"
  THEN IF e.at >= 0 THEN [acc EXCEPT !.open[e.worker] = Append(@, e.at)] ELSE acc
  ELSE IF acc.open[e.worker] = <<>> THEN acc
  ELSE [open |-> [acc.open EXCEPT ![e.worker] = Tail(@)],
        longest |-> LET gap == e.at - Head(acc.open[e.worker]) IN
                    IF gap > acc.longest THEN gap ELSE acc.longest]
TimedEvent == [type : {"start", "complete", "error"}, worker : Workers, at : Nat]

LEMMA PairsKeeps ==
  /\ NoPairs \in Pairing
  /\ \A acc \in Pairing, e \in TimedEvent : Paired(acc, e) \in Pairing
<1>1. NoPairs \in Pairing
  BY DEF NoPairs, Pairing
<1>2. ASSUME NEW acc \in Pairing, NEW e \in TimedEvent PROVE Paired(acc, e) \in Pairing
  <2> DEFINE w == e.worker
  <2>1. w \in Workers /\ e.at \in Int /\ acc.open \in [Workers -> Seq(Int)] /\ acc.longest \in Int
        /\ acc.open[w] \in Seq(Int) /\ acc = [open |-> acc.open, longest |-> acc.longest]
    BY DEF Pairing, TimedEvent
  <2>2. Append(acc.open[w], e.at) \in Seq(Int)
    BY <2>1
  <2>3. [acc EXCEPT !.open[w] = Append(@, e.at)] \in Pairing
    BY <2>1, <2>2 DEF Pairing
  <2>4. acc.open[w] # <<>> => Tail(acc.open[w]) \in Seq(Int) /\ Head(acc.open[w]) \in Int
    BY <2>1
  <2>5. acc.open[w] # <<>> => [acc.open EXCEPT ![w] = Tail(@)] \in [Workers -> Seq(Int)]
    BY <2>1, <2>4
  <2>6. CASE e.type = "start"
    BY <2>1, <2>3, <2>6 DEF Paired
  <2>7. CASE e.type # "start" /\ acc.open[w] # <<>>
    <3> DEFINE q == [acc.open EXCEPT ![w] = Tail(@)]
               gap == e.at - Head(acc.open[w])
               l == IF gap > acc.longest THEN gap ELSE acc.longest
    <3>1. Paired(acc, e) = [open |-> q, longest |-> l]
      BY <2>7 DEF Paired
    <3>2. q \in [Workers -> Seq(Int)] /\ l \in Int
      BY <2>1, <2>4, <2>5, <2>7
    <3> HIDE DEF q, l
    <3> QED BY <3>1, <3>2 DEF Pairing
  <2>8. CASE e.type # "start" /\ acc.open[w] = <<>>
    BY <2>8 DEF Paired
  <2> QED
    BY <2>6, <2>7, <2>8
<1> QED
  BY <1>1, <1>2

(* What the pairing of starts and ends computes. *)
PairsOf(g, s) ==
  g = [p \in Subsets(Len(s)) |-> IF p = {} THEN NoPairs ELSE Paired(g[Rest(p)], s[Max(p)])]
PairsSteps(s) == [x \in Pairing \X (1..Len(s)) |-> Paired(x[1], s[x[2]])]

LEMMA PairsFolds ==
  ASSUME NEW n \in Nat, NEW s \in Seq(TimedEvent), n = Len(s)
  PROVE  \E f \in [Subsets(n) -> Pairing] :
           FoldsOn(f, PairsSteps(s), NoPairs, n) /\ Matched(s, 0) = f[UpTo(n)]
<1> DEFINE b == NoPairs
           h == PairsSteps(s)
<1>1. DOMAIN s = 1..n /\ b \in Pairing /\ \A i \in 1..n : s[i] \in TimedEvent
  BY PairsKeeps
<1>2. \A a \in Pairing : \A i \in 1..n : Take(h, a, i) = Paired(a, s[i])
  BY DEF PairsSteps, Take
<1>3. \A a \in Pairing : \A i \in 1..n : Take(h, a, i) \in Pairing
  <2> HIDE DEF h
  <2> QED BY <1>1, <1>2, PairsKeeps
<1> HIDE DEF b, h
<1>4. PICK f \in [Subsets(n) -> Pairing] : FoldsOn(f, h, b, n)
  BY <1>1, <1>3, FoldExists
<1> DEFINE body(g, p) == IF p = {} THEN b ELSE Paired(g[Rest(p)], s[Max(p)])
<1>5. PairsOf(f, s)
  <2>1. \A p \in Subsets(n) : f[p] = body(f, p)
    <3> TAKE p \in Subsets(n)
    <3>1. f[{}] = b /\ (p # {} => f[p] = Take(h, f[Rest(p)], Max(p)))
      BY <1>4, FoldAt
    <3>2. p # {} => Max(p) \in 1..n /\ Rest(p) \in Subsets(n)
      BY MaxIn
    <3>3. p # {} => Take(h, f[Rest(p)], Max(p)) = Paired(f[Rest(p)], s[Max(p)])
      BY <1>2, <1>4, <3>2
    <3> QED BY <3>1, <3>3
  <2> HIDE DEF body
  <2>2. f = [p \in Subsets(n) |-> body(f, p)]
    BY <1>4, <2>1
  <2> QED BY <2>2 DEF body, PairsOf, b
<1> DEFINE g == CHOOSE g : PairsOf(g, s)
<1>6. PairsOf(g, s) /\ Matched(s, 0) = g[UpTo(n)]
  <2>1. PairsOf(g, s)
    BY <1>5
  <2>2. Matched(s, 0) = g[DOMAIN s]
    BY <1>1 DEF Matched, Paired, NoPairs, FoldLeft, MapThenFoldSet, PairsOf, Subsets, Rest
  <2> QED BY <1>1, <2>1, <2>2 DEF UpTo
<1> HIDE DEF g
<1> DEFINE V == Pairing \cup {g[p] : p \in Subsets(n)}
           k == [x \in V \X (1..n) |-> Paired(x[1], s[x[2]])]
<1>7. \A a \in V : \A i \in 1..n : Take(k, a, i) = Paired(a, s[i])
  <2> HIDE DEF V
  <2> QED BY DEF Take
<1>8. FoldsOn(g, k, b, n)
  <2> DEFINE stepped(p) == IF p = {} THEN b ELSE Take(k, g[Rest(p)], Max(p))
  <2>1. g = [p \in Subsets(n) |-> body(g, p)]
    BY <1>6 DEF PairsOf, b
  <2>2. \A p \in Subsets(n) : body(g, p) = stepped(p)
    <3> TAKE p \in Subsets(n)
    <3>1. p # {} => Max(p) \in 1..n /\ Rest(p) \in Subsets(n)
      BY MaxIn
    <3>2. p # {} => g[Rest(p)] \in V
      BY <3>1
    <3>3. p # {} => Take(k, g[Rest(p)], Max(p)) = Paired(g[Rest(p)], s[Max(p)])
      <4> HIDE DEF V, k
      <4> QED BY <1>7, <3>1, <3>2
    <3> HIDE DEF V, k
    <3> QED BY <3>3
  <2> HIDE DEF body, stepped
  <2>3. g = [p \in Subsets(n) |-> stepped(p)]
    BY <2>1, <2>2
  <2> HIDE DEF k
  <2> QED BY <2>3 DEF stepped, FoldsOn
<1>9. \A p \in Subsets(n) : f[p] = g[p]
  <2>1. SameSteps(h, k, Pairing, n)
    <3>1. \A a \in Pairing : a \in V
      OBVIOUS
    <3> HIDE DEF V, k
    <3> QED BY <1>2, <1>7, <3>1 DEF SameSteps
  <2>2. Stays(f, Pairing, n)
    BY <1>4 DEF Stays
  <2>3. PICK m \in n..(n + 1) : m = n
    OBVIOUS
  <2>4. FoldsOn(g, k, b, m)
    BY <1>8, <2>3
  <2> HIDE DEF k
  <2> QED BY <1>4, <2>1, <2>2, <2>4, FoldsAgree
<1>10. UpTo(n) \in Subsets(n)
  BY DEF UpTo, Subsets
<1> QED
  BY <1>4, <1>6, <1>9, <1>10 DEF b, h

(* so that it starts with no pairs *)
LEMMA PairsEmpty == Matched(<<>>, 0) = NoPairs
<1>1. PICK n \in Nat : n = 0
  OBVIOUS
<1>2. <<>> \in Seq(TimedEvent) /\ n = Len(<<>>)
  BY <1>1
<1>3. PICK f \in [Subsets(n) -> Pairing] :
        FoldsOn(f, PairsSteps(<<>>), NoPairs, n) /\ Matched(<<>>, 0) = f[UpTo(n)]
  BY <1>2, PairsFolds
<1>4. UpTo(n) = {}
  BY <1>1, MaxOfPrefix
<1> QED
  BY <1>3, <1>4, FoldAt

(* and adds a step at the end. *)
LEMMA PairsGrows ==
  ASSUME NEW s \in Seq(TimedEvent), NEW e \in TimedEvent, NEW t, t = Append(s, e)
  PROVE  /\ Matched(s, 0) \in Pairing
         /\ Matched(t, 0) = Paired(Matched(s, 0), e)
<1>n. PICK n \in Nat : n = Len(s)
  OBVIOUS
<1> DEFINE b == NoPairs
<1>e. t[n + 1] = e
  BY <1>n
<1>0. /\ b \in Pairing /\ t \in Seq(TimedEvent) /\ Len(t) = n + 1 /\ \A i \in 1..n : t[i] = s[i]
      /\ DOMAIN s = 1..n
  BY <1>n, PairsKeeps
<1> HIDE DEF b
<1>2. PICK f \in [Subsets(n) -> Pairing] :
        FoldsOn(f, PairsSteps(s), b, n) /\ Matched(s, 0) = f[UpTo(n)]
  BY <1>n, PairsFolds DEF b
<1>3. PICK g \in [Subsets(n + 1) -> Pairing] :
        FoldsOn(g, PairsSteps(t), b, n + 1) /\ Matched(t, 0) = g[UpTo(n + 1)]
  <2>1. PICK m \in Nat : m = n + 1
    OBVIOUS
  <2>2. m = Len(t) /\ t \in Seq(TimedEvent)
    BY <1>0, <2>1
  <2>3. \E g \in [Subsets(m) -> Pairing] : FoldsOn(g, PairsSteps(t), NoPairs, m) /\ Matched(t, 0) = g[UpTo(m)]
    BY <2>2, PairsFolds
  <2> QED BY <2>1, <2>3 DEF b
<1>5. f[UpTo(n)] \in Pairing
  BY <1>2, MaxOfPrefix
<1> DEFINE h == PairsSteps(s)
           k == PairsSteps(t)
<1>6. SameSteps(h, k, Pairing, n)
  <2>1. ASSUME NEW a \in Pairing, NEW i \in 1..n PROVE Take(h, a, i) = Take(k, a, i)
    <3>1. Take(h, a, i) = Paired(a, s[i])
      BY <1>n DEF PairsSteps, Take
    <3>2. Take(k, a, i) = Paired(a, t[i])
      BY <1>0 DEF PairsSteps, Take
    <3> HIDE DEF h, k
    <3> QED BY <1>0, <3>1, <3>2
  <2> HIDE DEF h, k
  <2> QED BY <2>1 DEF SameSteps
<1>7. g[UpTo(n + 1)] = Take(k, f[UpTo(n)], n + 1)
  <2>1. Stays(f, Pairing, n)
    BY <1>2 DEF Stays
  <2>2. FoldsOn(f, h, b, n) /\ FoldsOn(g, k, b, n + 1)
    BY <1>2, <1>3
  <2> HIDE DEF h, k
  <2> QED BY <1>0, <1>6, <2>1, <2>2, FoldAppends
<1>8. PICK a \in Pairing : a = f[UpTo(n)]
  BY <1>5
<1>9. Take(k, a, n + 1) = Paired(a, e)
  <2>1. \A i \in 1..Len(t) : Take(k, a, i) = Paired(a, t[i])
    BY DEF PairsSteps, Take
  <2>0. n + 1 \in 1..(n + 1) /\ Len(t) = n + 1
    BY <1>0
  <2>2. n + 1 \in 1..Len(t)
    BY <2>0
  <2> HIDE DEF k
  <2>3. Take(k, a, n + 1) = Paired(a, t[n + 1])
    BY <2>1, <2>2
  <2> QED BY <1>e, <2>3
<1> HIDE DEF k
<1>10. Matched(t, 0) = Paired(a, e)
  BY <1>3, <1>7, <1>8, <1>9
<1>11. Matched(s, 0) = a
  BY <1>2, <1>8
<1>12. Matched(t, 0) = Paired(Matched(s, 0), e)
  BY <1>10, <1>11
<1> QED
  BY <1>11, <1>12

(* The starts of an agent that no end has been matched with. *)
StartsLeft(timeline, w) == Matched(timeline, 0).open[w]
UnderWay(under, w) == {x \in under : x.worker = w}
Running == [worker : Workers, at : Nat, no : Nat]

(* First in, first out, the starts left over need not be those of the       *)
(* executions under way, but there are as many, and none of these began     *)
(* later than the last of them.                                             *)
WellPaired(timeline, under) ==
  \A w \in Workers :
    /\ Len(StartsLeft(timeline, w)) = Cardinality(UnderWay(under, w))
    /\ \A x \in UnderWay(under, w) : x.at <= StartsLeft(timeline, w)[Len(StartsLeft(timeline, w))]

(* What has been recorded, and that the tracer still has all of it. *)
Recordings == 2 * started - Cardinality(executions)
Untrimmed == Recordings <= MaxEvents

TimelineInv ==
  /\ now \in Nat /\ started \in Nat
  /\ executions \subseteq Running /\ IsFiniteSet(executions)
  /\ \A x \in executions : x.at <= now /\ x.no < started
  /\ Untrimmed => /\ events \in Seq(TimedEvent) /\ Len(events) = Recordings
                  /\ WellPaired(events, executions)

(* The timeline u is s with an event after it. *)
Follows(u, s, e) == u = Append(s, e)

LEMMA OpenAfter ==
  ASSUME NEW s \in Seq(TimedEvent), NEW e \in TimedEvent, NEW u, Follows(u, s, e), NEW v \in Workers
  PROVE  /\ v # e.worker => StartsLeft(u, v) = StartsLeft(s, v)
         /\ v = e.worker /\ e.type = "start" => StartsLeft(u, v) = Append(StartsLeft(s, v), e.at)
         /\ v = e.worker /\ e.type # "start" /\ StartsLeft(s, v) # <<>>
              => StartsLeft(u, v) = Tail(StartsLeft(s, v))
         /\ StartsLeft(s, v) \in Seq(Int)
<1>1. PICK w \in Workers, t \in Nat : e.worker = w /\ e.at = t
  BY DEF TimedEvent
<1>2. Matched(s, 0) \in Pairing /\ Matched(u, 0) = Paired(Matched(s, 0), e)
  BY PairsGrows DEF Follows
<1>3. PICK acc \in Pairing : acc = Matched(s, 0)
  BY <1>2
<1>4. acc.open \in [Workers -> Seq(Int)]
  BY DEF Pairing
<1>5. StartsLeft(u, v) = Paired(acc, e).open[v] /\ StartsLeft(s, v) = acc.open[v]
  BY <1>2, <1>3 DEF StartsLeft
<1>6. CASE e.type = "start"
  <2>1. Paired(acc, e) = [acc EXCEPT !.open[w] = Append(@, t)]
    BY <1>1, <1>6 DEF Paired
  <2>2. Paired(acc, e).open = [acc.open EXCEPT ![w] = Append(@, t)]
    BY <2>1 DEF Pairing
  <2>3. Paired(acc, e).open[v] = IF v = w THEN Append(acc.open[v], t) ELSE acc.open[v]
    BY <1>4, <2>2
  <2> QED BY <1>1, <1>4, <1>5, <1>6, <2>3
<1>7. CASE e.type # "start"
  <2>1. acc.open[w] # <<>> => Paired(acc, e).open = [acc.open EXCEPT ![w] = Tail(@)]
    BY <1>1, <1>7 DEF Paired
  <2>2. acc.open[w] = <<>> => Paired(acc, e).open = acc.open
    BY <1>1, <1>7 DEF Paired
  <2>3. v = w /\ acc.open[v] # <<>> => Paired(acc, e).open[v] = Tail(acc.open[v])
    BY <1>4, <2>1
  <2>4. v # w => Paired(acc, e).open[v] = acc.open[v]
    BY <1>4, <2>1, <2>2
  <2> QED BY <1>1, <1>4, <1>5, <1>7, <2>3, <2>4
<1> QED
  BY <1>6, <1>7

LEMMA OpenTyped ==
  ASSUME NEW s \in Seq(TimedEvent), NEW v \in Workers
  PROVE  StartsLeft(s, v) \in Seq(Int)
<1>1. PICK e \in TimedEvent : e = Event("start", v, 0)
  BY DEF TimedEvent, Event
<1>2. PICK u : Follows(u, s, e)
  BY DEF Follows
<1> QED
  BY <1>2, OpenAfter

LEMMA StartPairs ==
  ASSUME NEW s \in Seq(TimedEvent), NEW w \in Workers, NEW t \in Nat, NEW u,
         NEW under, under \subseteq Running, IsFiniteSet(under), NEW x \in Running,
         x.worker = w, x.at = t, x \notin under, \A y \in under : y.at <= t,
         WellPaired(s, under), u = Append(s, Event("start", w, t))
  PROVE  WellPaired(u, under \cup {x})
<1> DEFINE more == under \cup {x}
<1>0. /\ \A v \in Workers : StartsLeft(s, v) \in Seq(Int)
      /\ \A v \in Workers : v # w => StartsLeft(u, v) = StartsLeft(s, v)
      /\ StartsLeft(u, w) = Append(StartsLeft(s, w), t)
  <2>1. PICK e : e = Event("start", w, t)
    OBVIOUS
  <2>2. e \in TimedEvent /\ e.type = "start" /\ e.worker = w /\ e.at = t
    BY <2>1 DEF Event, TimedEvent
  <2>3. Follows(u, s, e)
    BY <2>1 DEF Follows
  <2> QED BY <2>2, <2>3, OpenAfter
<1>1. ASSUME NEW v \in Workers
      PROVE  /\ Len(StartsLeft(u, v)) = Cardinality(UnderWay(more, v))
             /\ \A y \in UnderWay(more, v) : y.at <= StartsLeft(u, v)[Len(StartsLeft(u, v))]
  <2>1. /\ StartsLeft(s, v) \in Seq(Int) /\ Len(StartsLeft(s, v)) = Cardinality(UnderWay(under, v))
        /\ \A y \in UnderWay(under, v) : y.at <= StartsLeft(s, v)[Len(StartsLeft(s, v))]
    BY <1>0 DEF WellPaired
  <2>2. CASE v # w
    <3>1. UnderWay(more, v) = UnderWay(under, v)
      BY <2>2 DEF UnderWay
    <3>2. StartsLeft(u, v) = StartsLeft(s, v)
      BY <2>2, <1>0
    <3> QED BY <2>1, <3>1, <3>2
  <2>3. CASE v = w
    <3>1. UnderWay(more, v) = UnderWay(under, v) \cup {x} /\ x \notin UnderWay(under, v)
      BY <2>3 DEF UnderWay
    <3>2. IsFiniteSet(UnderWay(under, v))
      BY FS_Subset DEF UnderWay
    <3>3. Cardinality(UnderWay(more, v)) = Cardinality(UnderWay(under, v)) + 1
      BY <3>1, <3>2, FS_AddElement
    <3>4. StartsLeft(u, v) = Append(StartsLeft(s, v), t)
      BY <2>3, <1>0
    <3>5. Len(StartsLeft(u, v)) = Len(StartsLeft(s, v)) + 1 /\ StartsLeft(u, v)[Len(StartsLeft(u, v))] = t
      BY <2>1, <3>4
    <3>6. \A y \in UnderWay(more, v) : y.at <= t
      BY <3>1 DEF UnderWay, Running
    <3> QED BY <2>1, <3>3, <3>5, <3>6
  <2> QED BY <2>2, <2>3
<1> QED
  BY <1>1 DEF WellPaired

LEMMA EndPairs ==
  ASSUME NEW s \in Seq(TimedEvent), NEW w \in Workers, NEW t \in Nat, NEW u,
         NEW type \in {"complete", "error"},
         NEW under, under \subseteq Running, IsFiniteSet(under), NEW x \in under, x.worker = w,
         WellPaired(s, under), u = Append(s, Event(type, w, t))
  PROVE  WellPaired(u, under \ {x})
<1> DEFINE less == under \ {x}
<1>0. /\ \A v \in Workers : StartsLeft(s, v) \in Seq(Int)
      /\ \A v \in Workers : v # w => StartsLeft(u, v) = StartsLeft(s, v)
      /\ StartsLeft(s, w) # <<>> => StartsLeft(u, w) = Tail(StartsLeft(s, w))
  <2>1. PICK e : e = Event(type, w, t)
    OBVIOUS
  <2>2. e \in TimedEvent /\ e.type # "start" /\ e.worker = w
    BY <2>1 DEF Event, TimedEvent
  <2>3. Follows(u, s, e)
    BY <2>1 DEF Follows
  <2> QED BY <2>2, <2>3, OpenAfter
<1>1. ASSUME NEW v \in Workers
      PROVE  /\ Len(StartsLeft(u, v)) = Cardinality(UnderWay(less, v))
             /\ \A y \in UnderWay(less, v) : y.at <= StartsLeft(u, v)[Len(StartsLeft(u, v))]
  <2>1. /\ StartsLeft(s, v) \in Seq(Int) /\ Len(StartsLeft(s, v)) = Cardinality(UnderWay(under, v))
        /\ \A y \in UnderWay(under, v) : y.at <= StartsLeft(s, v)[Len(StartsLeft(s, v))]
    BY <1>0 DEF WellPaired
  <2>2. CASE v # w
    <3>1. UnderWay(less, v) = UnderWay(under, v)
      BY <2>2 DEF UnderWay
    <3>2. StartsLeft(u, v) = StartsLeft(s, v)
      BY <2>2, <1>0
    <3> QED BY <2>1, <3>1, <3>2
  <2>3. CASE v = w
    <3>1. UnderWay(less, v) = UnderWay(under, v) \ {x} /\ x \in UnderWay(under, v)
      BY <2>3 DEF UnderWay
    <3>2. IsFiniteSet(UnderWay(under, v)) /\ IsFiniteSet(UnderWay(less, v))
      BY FS_Subset DEF UnderWay
    <3>3. /\ Cardinality(UnderWay(less, v)) = Cardinality(UnderWay(under, v)) - 1
          /\ Cardinality(UnderWay(under, v)) \in Nat /\ Cardinality(UnderWay(less, v)) \in Nat
      BY <3>1, <3>2, FS_RemoveElement, FS_CardinalityType
    <3>4. Len(StartsLeft(s, v)) >= 1 /\ StartsLeft(s, v) # <<>>
      BY <2>1, <3>3
    <3>5. StartsLeft(u, v) = Tail(StartsLeft(s, v))
      BY <2>3, <3>4, <1>0
    <3>6. Len(StartsLeft(u, v)) = Len(StartsLeft(s, v)) - 1
      BY <2>1, <3>4, <3>5
    <3>7. ASSUME NEW y \in UnderWay(less, v) PROVE y.at <= StartsLeft(u, v)[Len(StartsLeft(u, v))]
      <4>1. Cardinality(UnderWay(less, v)) # 0
        BY <3>2, <3>7, FS_EmptySet
      <4>2. Len(StartsLeft(s, v)) >= 2
        BY <2>1, <3>3, <4>1
      <4>3. StartsLeft(u, v)[Len(StartsLeft(u, v))] = StartsLeft(s, v)[Len(StartsLeft(s, v))]
        BY <2>1, <3>5, <4>2
      <4> QED BY <2>1, <3>1, <4>3
    <3> QED BY <2>1, <3>3, <3>6, <3>7
  <2> QED BY <2>2, <2>3
<1> QED
  BY <1>1 DEF WellPaired

(* A recording that the tracer keeps is appended. *)
LEMMA RecordedWhole ==
  ASSUME NEW e, events \in Seq(TimedEvent), e \in TimedEvent, Len(events) + 1 <= MaxEvents
  PROVE  Recorded(e) = Append(events, e) /\ Recorded(e) \in Seq(TimedEvent)
         /\ Len(Recorded(e)) = Len(events) + 1
<1>1. Len(Append(events, e)) = Len(events) + 1 /\ Append(events, e) \in Seq(TimedEvent)
  OBVIOUS
<1>2. ~(Len(Append(events, e)) > MaxEvents)
  BY <1>1, ScalingAssumption
<1> QED
  BY <1>1, <1>2 DEF Recorded

LEMMA TimelineStep ==
  ASSUME TimelineInv, ScalingNext \/ UNCHANGED scalingVars
  PROVE  TimelineInv'
<1> USE ScalingAssumption
<1>0. Cardinality(executions) \in Nat /\ Recordings \in Int
  BY FS_CardinalityType DEF TimelineInv, Recordings
<1>1. CASE UNCHANGED <<now, events, executions, started>>
  BY <1>1 DEF TimelineInv, Untrimmed, Recordings
<1>2. CASE TimePasses
  <2>1. UNCHANGED <<events, executions, started>> /\ now' = now + 1
    BY <1>2 DEF TimePasses
  <2>2. \A x \in executions : x.at \in Nat
    BY DEF TimelineInv, Running
  <2> QED BY <2>1, <2>2 DEF TimelineInv, Untrimmed, Recordings
<1>3. ASSUME NEW w \in Workers, ExecutionStarts(w) PROVE TimelineInv'
  <2>x. PICK x : x = [worker |-> w, at |-> now, no |-> started]
    OBVIOUS
  <2> DEFINE e == Event("start", w, now)
  <2>1. /\ started' = started + 1 /\ executions' = executions \cup {x} /\ now' = now
        /\ events' = Recorded(e)
    BY <1>3, <2>x DEF ExecutionStarts
  <2>2. /\ x \in Running /\ x.worker = w /\ x.at = now /\ x.no = started /\ x \notin executions
        /\ e \in TimedEvent
    BY <2>x DEF TimelineInv, Running, Event, TimedEvent
  <2>3. IsFiniteSet(executions') /\ Cardinality(executions') = Cardinality(executions) + 1
    BY <2>1, <2>2, FS_AddElement DEF TimelineInv
  <2>4. Recordings' = Recordings + 1
    BY <1>0, <2>1, <2>3 DEF Recordings, TimelineInv
  <2>5. /\ now' \in Nat /\ started' \in Nat /\ executions' \subseteq Running
        /\ \A y \in executions' : y.at <= now' /\ y.no < started'
    BY <2>1, <2>2 DEF TimelineInv, Running
  <2>6. ASSUME Untrimmed'
        PROVE  events' \in Seq(TimedEvent) /\ Len(events') = Recordings' /\ WellPaired(events', executions')
    <3>1. Untrimmed /\ Len(events) + 1 <= MaxEvents /\ events \in Seq(TimedEvent)
          /\ Len(events) = Recordings /\ WellPaired(events, executions)
      BY <1>0, <2>4, <2>6 DEF TimelineInv, Untrimmed
    <3>2. events' = Append(events, e) /\ events' \in Seq(TimedEvent) /\ Len(events') = Len(events) + 1
      BY <2>1, <2>2, <3>1, RecordedWhole
    <3>3. WellPaired(events', executions')
      BY <2>1, <2>2, <3>1, <3>2, StartPairs DEF TimelineInv
    <3> QED BY <2>4, <3>1, <3>2, <3>3
  <2> HIDE DEF e
  <2> QED BY <2>3, <2>5, <2>6 DEF TimelineInv
<1>4. ASSUME NEW x \in executions, NEW type \in {"complete", "error"}, ExecutionEnds(x, type)
      PROVE  TimelineInv'
  <2> DEFINE e == Event(type, x.worker, now)
  <2>1. started' = started /\ executions' = executions \ {x} /\ now' = now /\ events' = Recorded(e)
    BY <1>4 DEF ExecutionEnds
  <2>2. x \in Running /\ x.worker \in Workers /\ e \in TimedEvent
    BY DEF TimelineInv, Running, Event, TimedEvent
  <2>3. IsFiniteSet(executions') /\ Cardinality(executions') = Cardinality(executions) - 1
    BY <2>1, FS_RemoveElement DEF TimelineInv
  <2>4. Recordings' = Recordings + 1
    BY <1>0, <2>1, <2>3 DEF Recordings, TimelineInv
  <2>5. /\ now' \in Nat /\ started' \in Nat /\ executions' \subseteq Running
        /\ \A y \in executions' : y.at <= now' /\ y.no < started'
    BY <2>1 DEF TimelineInv
  <2>6. ASSUME Untrimmed'
        PROVE  events' \in Seq(TimedEvent) /\ Len(events') = Recordings' /\ WellPaired(events', executions')
    <3>1. Untrimmed /\ Len(events) + 1 <= MaxEvents /\ events \in Seq(TimedEvent)
          /\ Len(events) = Recordings /\ WellPaired(events, executions)
      BY <1>0, <2>4, <2>6 DEF TimelineInv, Untrimmed
    <3>2. events' = Append(events, e) /\ events' \in Seq(TimedEvent) /\ Len(events') = Len(events) + 1
      BY <2>1, <2>2, <3>1, RecordedWhole
    <3>3. WellPaired(events', executions')
      BY <2>1, <2>2, <3>1, <3>2, EndPairs DEF TimelineInv
    <3> QED BY <2>4, <3>1, <3>2, <3>3
  <2> HIDE DEF e
  <2> QED BY <2>3, <2>5, <2>6 DEF TimelineInv
<1>5. CASE UNCHANGED scalingVars \/ Poll \/ \E on \in BOOLEAN : SetReactive(on)
  <2>1. UNCHANGED <<now, events, executions, started>>
    BY <1>5 DEF scalingVars, Poll, SetReactive
  <2> QED BY <1>1, <2>1
<1> QED
  BY <1>2, <1>3, <1>4, <1>5 DEF ScalingNext

(* A decision against a well paired timeline removes no agent while an      *)
(* execution is young.                                                      *)
LEMMA PairedSpares ==
  ASSUME NEW timeline \in Seq(TimedEvent), NEW under, under \subseteq Running, IsFiniteSet(under),
         WellPaired(timeline, under), ScalingInv, ScalingDecision(timeline) < 0
  PROVE  \A x \in under : now - x.at >= Stale
<1> USE ScalingAssumption
<1>1. ~InFlight(timeline)
  <2>1. ScaleUp(timeline) > 0 => ScalingDecision(timeline) = 0 \/ ScalingDecision(timeline) = ScaleUp(timeline)
    BY DEF ScalingDecision
  <2>2. ScaleUp(timeline) \in Int
    BY DEF ScaleUp, Add, SmallerOf, ScalingInv
  <2> QED BY <2>1, <2>2 DEF ScalingDecision
<1> SUFFICES ASSUME NEW x \in under PROVE now - x.at >= Stale
  OBVIOUS
<1>2. PICK w \in Workers : w = x.worker /\ x.at \in Nat
  BY DEF Running
<1>3. StartsLeft(timeline, w) \in Seq(Int)
  BY OpenTyped
<1>4. Len(StartsLeft(timeline, w)) \in DOMAIN StartsLeft(timeline, w)
  <2>1. IsFiniteSet(UnderWay(under, w)) /\ x \in UnderWay(under, w)
    BY <1>2, FS_Subset DEF UnderWay
  <2>2. Cardinality(UnderWay(under, w)) \in Nat /\ Cardinality(UnderWay(under, w)) # 0
    BY <2>1, FS_EmptySet, FS_CardinalityType
  <2> QED BY <1>3, <2>2 DEF WellPaired
<1>5. PICK i \in DOMAIN StartsLeft(timeline, w) : i = Len(StartsLeft(timeline, w))
  BY <1>4
<1>6. x.at <= StartsLeft(timeline, w)[i] /\ StartsLeft(timeline, w)[i] \in Int
  <2>1. x \in UnderWay(under, w)
    BY <1>2 DEF UnderWay
  <2>2. x.at <= StartsLeft(timeline, w)[Len(StartsLeft(timeline, w))]
    BY <2>1 DEF WellPaired
  <2>3. \A j \in DOMAIN StartsLeft(timeline, w) : StartsLeft(timeline, w)[j] \in Int
    BY <1>3
  <2> QED BY <1>5, <2>2, <2>3
<1>7. ~(now - StartsLeft(timeline, w)[i] < Stale)
  BY <1>1 DEF InFlight, StartsLeft
<1> QED
  BY <1>2, <1>6, <1>7 DEF ScalingInv

LEMMA SparesStep ==
  ASSUME ScalingInv, TimelineInv', ScalingNext \/ UNCHANGED scalingVars
  PROVE  Untrimmed' => SparesTheBusy
<1> SUFFICES ASSUME Untrimmed', agentCount' < agentCount
             PROVE  \A x \in executions' : now - x.at >= Stale
  BY DEF SparesTheBusy
<1>1. PICK timeline : /\ timeline = events' /\ Applied(ScalingDecision(timeline))
  <2>1. agentCount' # agentCount
    BY DEF ScalingInv
  <2>2. Poll \/ \E x \in executions, type \in {"complete", "error"} : ExecutionEnds(x, type)
    BY <2>1 DEF ScalingNext, scalingVars, TimePasses, SetReactive, ExecutionStarts
  <2>3. CASE Poll
    BY <2>3 DEF Poll
  <2>4. CASE \E x \in executions, type \in {"complete", "error"} : ExecutionEnds(x, type)
    BY <2>1, <2>4 DEF ExecutionEnds
  <2> QED BY <2>2, <2>3, <2>4
<1>2. ScalingDecision(timeline) < 0
  <2>1. agentCount + ScalingDecision(timeline) < agentCount
    BY <1>1 DEF Applied
  <2>2. ScalingDecision(timeline) \in Int
    BY ScalingAssumption DEF ScalingDecision, ScaleUp, ScaleDown, Add, SmallerOf, ScalingInv
  <2> QED BY <2>1, <2>2, ScalingAssumption DEF ScalingInv
<1>3. /\ timeline \in Seq(TimedEvent) /\ executions' \subseteq Running
      /\ IsFiniteSet(executions') /\ WellPaired(timeline, executions')
  BY <1>1 DEF TimelineInv
<1> QED
  BY <1>2, <1>3, PairedSpares

LEMMA TimelineInitially == ScalingInit => TimelineInv
<1> SUFFICES ASSUME ScalingInit PROVE TimelineInv
  OBVIOUS
<1>1. Cardinality({}) = 0 /\ IsFiniteSet({})
  BY FS_EmptySet
<1>2. \A w \in Workers : StartsLeft(<<>>, w) = <<>> /\ UnderWay({}, w) = {}
  BY PairsEmpty DEF StartsLeft, UnderWay, NoPairs
<1>3. WellPaired(<<>>, {})
  <2>1. Len(<<>>) = 0
    OBVIOUS
  <2>2. \A w \in Workers : /\ Len(StartsLeft(<<>>, w)) = Cardinality(UnderWay({}, w))
                          /\ ~\E x \in UnderWay({}, w) : TRUE
    BY <1>1, <1>2, <2>1
  <2> QED BY <2>2 DEF WellPaired
<1> QED
  BY <1>1, <1>3 DEF ScalingInit, TimelineInv, Recordings

(* As long as the tracer has dropped no event, the monitor removes no agent *)
(* while an execution younger than the staleness limit is under way.        *)
THEOREM ScalingSparesTheBusy == TemplatesSpec => [][Untrimmed' => SparesTheBusy]_scalingVars
<1>1. TemplatesInit => ScalingInv /\ TimelineInv
  BY ScalingAssumption, TimelineInitially DEF TemplatesInit, ScalingInit, ScalingInv
<1>2. ScalingInv /\ TimelineInv /\ [TemplatesNext]_templateVars
        => ScalingInv' /\ TimelineInv' /\ [Untrimmed' => SparesTheBusy]_scalingVars
  BY ScalingStep, TimelineStep, SparesStep DEF TemplatesNext, templateVars
<1> QED
  BY <1>1, <1>2, PTL DEF TemplatesSpec

LEMMA StartsBounded ==
  ASSUME MaxExecutions \in Nat, started \in Nat, started <= MaxExecutions,
         ScalingNext \/ UNCHANGED scalingVars
  PROVE  started' <= MaxExecutions
<1>1. ASSUME NEW w \in Workers, ExecutionStarts(w) PROVE started' <= MaxExecutions
  BY <1>1 DEF ExecutionStarts
<1>2. ASSUME NEW x \in executions, NEW type \in {"complete", "error"}, ExecutionEnds(x, type)
      PROVE  started' <= MaxExecutions
  BY <1>2 DEF ExecutionEnds
<1> QED
  BY <1>1, <1>2 DEF ScalingNext, scalingVars, Poll, TimePasses, SetReactive

(* Where the tracer has room for all events but the last, the monitor is    *)
(* steady throughout; with less room the forgotten start of an execution    *)
(* that still runs lets it remove agents.                                   *)
THEOREM ScalingStaysSteady ==
  ASSUME MaxExecutions \in Nat, 2 * MaxExecutions - 1 <= MaxEvents
  PROVE  TemplatesSpec => ScalingIsSteady
<1> DEFINE Inv == ScalingInv /\ TimelineInv /\ started <= MaxExecutions
<1>1. TemplatesInit => Inv
  BY ScalingAssumption, TimelineInitially DEF TemplatesInit, ScalingInit, ScalingInv
<1>2. Inv /\ [TemplatesNext]_templateVars => Inv' /\ [Paced /\ SparesTheBusy]_scalingVars
  <2> SUFFICES ASSUME Inv, [TemplatesNext]_templateVars
               PROVE  Inv' /\ [Paced /\ SparesTheBusy]_scalingVars
    OBVIOUS
  <2>1. ScalingNext \/ UNCHANGED scalingVars
    BY DEF TemplatesNext, templateVars
  <2>2. ScalingInv' /\ Paced /\ TimelineInv'
    BY <2>1, ScalingStep, TimelineStep
  <2>3. started' <= MaxExecutions
    BY <2>1, StartsBounded DEF TimelineInv
  <2>4. executions' # {} => Untrimmed'
    <3>1. /\ Cardinality(executions') \in Nat /\ (Cardinality(executions') = 0 <=> executions' = {})
          /\ started' \in Nat
      BY <2>2, FS_EmptySet, FS_CardinalityType DEF TimelineInv
    <3>2. executions' # {} => 2 * started' - Cardinality(executions') <= 2 * MaxExecutions - 1
      BY <2>3, <3>1
    <3> QED BY <3>1, <3>2, ScalingAssumption DEF Untrimmed, Recordings
  <2>5. SparesTheBusy
    BY <2>1, <2>2, <2>4, SparesStep DEF SparesTheBusy
  <2> QED BY <2>2, <2>3, <2>5
<1> QED
  BY <1>1, <1>2, PTL DEF TemplatesSpec, ScalingIsSteady
=============================================================================
