--------------------------- MODULE ClientsProofs ---------------------------
(***************************************************************************)
(* Proofs about what is called and answers: the pool of agents, and the    *)
(* clients of what runs elsewhere, which are an external agent, an MCP     *)
(* server, a language server with its manager, and a remote agent.         *)
(*                                                                         *)
(* The pool: its books are right and its queue is served in order, for     *)
(* every set of agents and requests, all priorities, capacities and        *)
(* numbers of retries, and whatever slots come and go meanwhile.           *)
(*                                                                         *)
(* The clients share no state, so each has an inductive invariant of its   *)
(* own and the invariant of all is their conjunction.  At the end, that    *)
(* those with a table of requests settle each as SettleOnce says, step by  *)
(* step.                                                                   *)
(***************************************************************************)
EXTENDS AgentPool, MCClients, FiniteSetTheorems, SequenceTheorems, WellFoundedInduction, TLAPS

-----------------------------------------------------------------------------
(* The pool of agents *)

(* A queue holds each of the requests Q once, and nothing else.             *)
Enumerates(q, Q) ==
  /\ q \in Seq(Requests)
  /\ \A i \in 1..Len(q) : q[i] \in Q
  /\ \A i, j \in 1..Len(q) : q[i] = q[j] => i = j
  /\ \A r \in Q : \E i \in 1..Len(q) : q[i] = r

InOrder(q) == \A i, j \in 1..Len(q) : i < j => Priority[q[i]] <= Priority[q[j]]

Queued == {r \in Requests : phase[r] = "queued"}

(* A request in flight has a slot, one that sleeps has a retry left.        *)
Seated ==
  \A r \in Requests :
    /\ phase[r] \in InFlight => slotOf[r] \in Agents
    /\ phase[r] = "sleeping" => attempt[r] < MaxRetries

(* The queue is what waits, in the order of dispatch and no more than may;  *)
(* none waits in a pool that was disposed of.                               *)
QueueSound ==
  /\ Enumerates(queue, Queued) /\ InOrder(queue)
  /\ Len(queue) <= MaxQueueDepth
  /\ disposed => queue = <<>>

PoolInv == CapacityAccounted /\ Seated /\ QueueSound

-----------------------------------------------------------------------------
(* The library's facts about sequences, for sequences of requests.          *)
LEMMA HeadAndTail ==
  ASSUME NEW q \in Seq(Requests), q # <<>>
  PROVE  /\ Len(q) \in Nat \ {0} /\ Head(q) = q[1]
         /\ Tail(q) \in Seq(Requests) /\ Len(Tail(q)) = Len(q) - 1
         /\ \A i \in 1..Len(Tail(q)) : Tail(q)[i] = q[i + 1]
BY HeadTailProperties, EmptySeq

(* Inserting a request gives a queue that is longer by that request.        *)
LEMMA InsertedAtSeq ==
  ASSUME NEW q \in Seq(Requests), NEW k \in 1..(Len(q) + 1), NEW r \in Requests
  PROVE  /\ InsertedAt(q, k, r) \in Seq(Requests)
         /\ Len(q) \in Nat /\ Len(InsertedAt(q, k, r)) = Len(q) + 1
<1>1. Len(q) \in Nat /\ \A i \in 1..Len(q) : q[i] \in Requests
  BY LenProperties, ElementOfSeq
<1>2. InsertedAt(q, k, r) \in [1..(Len(q) + 1) -> Requests]
  BY <1>1 DEF InsertedAt
<1>3. Len(q) + 1 \in Nat
  BY <1>1
<1>4. InsertedAt(q, k, r) \in Seq(Requests)
  BY <1>2, <1>3, SeqDef
<1>5. Len(InsertedAt(q, k, r)) = Len(q) + 1
  BY <1>2, <1>3, <1>4, LenProperties
<1> QED
  BY <1>1, <1>4, <1>5

(* A request that joins the queue is put behind those as urgent as itself,  *)
(* and nobody is lost, doubled or overtaken.                                *)
LEMMA EnqueueAdds ==
  ASSUME NEW Q \in SUBSET Requests, NEW q, Enumerates(q, Q), InOrder(q),
         NEW r \in Requests \ Q, NEW q2, Enqueue(q, r, q2)
  PROVE  /\ Enumerates(q2, Q \cup {r}) /\ InOrder(q2) /\ q2 # <<>>
         /\ Len(q) \in Nat /\ Len(q2) = Len(q) + 1
<1>1. PICK k \in 1..(Len(q) + 1) :
        /\ \A i \in 1..Len(q) : i < k <=> Priority[q[i]] <= Priority[r]
        /\ q2 = InsertedAt(q, k, r)
  BY DEF Enqueue
<1>2. q \in Seq(Requests) /\ \A i \in 1..Len(q) : q[i] \in Q /\ q[i] # r
  BY DEF Enumerates
<1>3. /\ q2 \in Seq(Requests) /\ Len(q) \in Nat /\ Len(q2) = Len(q) + 1
      /\ \A i \in 1..(Len(q) + 1) :
           q2[i] = IF i < k THEN q[i] ELSE IF i = k THEN r ELSE q[i - 1]
  <2>1. q \in Seq(Requests) /\ r \in Requests /\ q2 = InsertedAt(q, k, r)
    BY <1>1, <1>2
  <2>2. q2 \in Seq(Requests) /\ Len(q) \in Nat /\ Len(q2) = Len(q) + 1
    BY <2>1, InsertedAtSeq
  <2> QED
    BY <2>1, <2>2 DEF InsertedAt
<1>4. \A s \in Requests : Priority[s] \in Int
  BY AgentPoolAssumption
<1>5. \A i \in 1..Len(q2) : q2[i] \in Q \cup {r}
  BY <1>2, <1>3
<1>6. ASSUME NEW i \in 1..Len(q2), NEW j \in 1..Len(q2), q2[i] = q2[j]
      PROVE  i = j
  <2>1. \A m, n \in 1..Len(q) : q[m] = q[n] => m = n
    BY DEF Enumerates
  <2>0. \A m \in 1..Len(q2) : /\ m < k => m \in 1..Len(q) /\ q2[m] = q[m]
                              /\ m > k => m - 1 \in 1..Len(q) /\ q2[m] = q[m - 1]
                              /\ m = k => q2[m] = r
    BY <1>3
  <2>2. i # k => q2[i] # r
    <3>1. CASE i < k
      BY <1>2, <2>0, <3>1
    <3>2. CASE i > k
      BY <1>2, <2>0, <3>2
    <3> QED
      BY <1>3, <3>1, <3>2
  <2>3. j # k => q2[j] # r
    <3>1. CASE j < k
      BY <1>2, <2>0, <3>1
    <3>2. CASE j > k
      BY <1>2, <2>0, <3>2
    <3> QED
      BY <1>3, <3>1, <3>2
  <2>4. CASE i = k \/ j = k
    BY <1>6, <2>0, <2>2, <2>3, <2>4
  <2>5. CASE i # k /\ j # k
    <3>1. CASE i < k /\ j < k
      BY <1>6, <2>0, <2>1, <3>1
    <3>2. CASE i > k /\ j > k
      <4>1. i - 1 = j - 1
        BY <1>6, <2>0, <2>1, <3>2
      <4> QED
        BY <1>3, <4>1
    <3>3. CASE i < k /\ j > k
      <4>1. i = j - 1
        BY <1>6, <2>0, <2>1, <3>3
      <4> QED
        BY <1>3, <3>3, <4>1
    <3>4. CASE i > k /\ j < k
      <4>1. i - 1 = j
        BY <1>6, <2>0, <2>1, <3>4
      <4> QED
        BY <1>3, <3>4, <4>1
    <3> QED
      BY <1>3, <2>5, <3>1, <3>2, <3>3, <3>4
  <2> QED
    BY <2>4, <2>5
<1>7. ASSUME NEW s \in Q \cup {r} PROVE \E i \in 1..Len(q2) : q2[i] = s
  <2>1. CASE s = r
    BY <1>3, <2>1
  <2>2. CASE s # r
    <3>1. PICK i \in 1..Len(q) : q[i] = s
      BY <2>2 DEF Enumerates
    <3>2. CASE i < k
      BY <1>3, <3>1, <3>2
    <3>3. CASE ~(i < k)
      <4>1. i + 1 \in 1..Len(q2) /\ q2[i + 1] = s
        BY <1>3, <3>1, <3>3
      <4> QED
        BY <4>1
    <3> QED
      BY <3>2, <3>3
  <2> QED
    BY <2>1, <2>2
<1>8. ASSUME NEW i \in 1..Len(q2), NEW j \in 1..Len(q2), i < j
      PROVE  Priority[q2[i]] <= Priority[q2[j]]
  <2>1. \A m, n \in 1..Len(q) : m < n => Priority[q[m]] <= Priority[q[n]]
    BY DEF InOrder
  <2>2. \A m \in 1..Len(q) : Priority[q[m]] \in Int /\ Priority[r] \in Int
    BY <1>2, <1>4
  <2>3. CASE j < k
    BY <1>3, <1>8, <2>1, <2>3
  <2>4. CASE j = k
    BY <1>1, <1>3, <1>8, <2>4
  <2>5. CASE j > k /\ i < k
    <3>1. i \in 1..Len(q) /\ j - 1 \in 1..Len(q) /\ q2[i] = q[i] /\ q2[j] = q[j - 1]
      BY <1>3, <1>8, <2>5
    <3>2. Priority[q[i]] <= Priority[r] /\ ~(Priority[q[j - 1]] <= Priority[r])
      BY <1>1, <2>5, <3>1
    <3> QED
      BY <2>2, <3>1, <3>2
  <2>6. CASE i = k
    <3>1. j - 1 \in 1..Len(q) /\ q2[i] = r /\ q2[j] = q[j - 1]
      BY <1>3, <1>8, <2>6
    <3>2. ~(Priority[q[j - 1]] <= Priority[r])
      BY <1>1, <1>8, <2>6, <3>1
    <3> QED
      BY <2>2, <3>1, <3>2
  <2>7. CASE i > k
    <3>1. i - 1 \in 1..Len(q) /\ j - 1 \in 1..Len(q) /\ q2[i] = q[i - 1] /\ q2[j] = q[j - 1]
      BY <1>3, <1>8, <2>7
    <3> QED
      BY <1>8, <2>1, <3>1
  <2> QED
    BY <1>3, <1>8, <2>3, <2>4, <2>5, <2>6, <2>7
<1>9. q2 # <<>>
  BY <1>3, EmptySeq
<1> QED
  BY <1>3, <1>5, <1>6, <1>7, <1>8, <1>9 DEF Enumerates, InOrder

(* The head of a queue is the first of its most urgent requests; without it *)
(* the queue holds the others, in the same order.                           *)
LEMMA TailDrops ==
  ASSUME NEW Q \in SUBSET Requests, NEW q, Enumerates(q, Q), InOrder(q), q # <<>>
  PROVE  /\ Head(q) \in Q /\ \A r \in Q : Priority[Head(q)] <= Priority[r]
         /\ Enumerates(Tail(q), Q \ {Head(q)}) /\ InOrder(Tail(q))
         /\ Len(q) \in Nat \ {0} /\ Len(Tail(q)) = Len(q) - 1
<1>0. q \in Seq(Requests)
  BY DEF Enumerates
<1>1. /\ Len(q) \in Nat \ {0} /\ Head(q) = q[1]
      /\ Tail(q) \in Seq(Requests) /\ Len(Tail(q)) = Len(q) - 1
      /\ \A i \in 1..Len(Tail(q)) : Tail(q)[i] = q[i + 1]
  BY <1>0, HeadAndTail
<1>2. Head(q) \in Q
  BY <1>1 DEF Enumerates
<1>3. ASSUME NEW r \in Q PROVE Priority[Head(q)] <= Priority[r]
  <2>1. PICK i \in 1..Len(q) : q[i] = r
    BY DEF Enumerates
  <2>2. Priority[r] \in Int
    BY AgentPoolAssumption
  <2> QED
    BY <1>1, <2>1, <2>2 DEF InOrder
<1>4. \A i \in 1..Len(Tail(q)) : Tail(q)[i] \in Q \ {Head(q)}
  <2>1. \A i \in 1..Len(Tail(q)) : i + 1 \in 1..Len(q) /\ i + 1 # 1 /\ 1 \in 1..Len(q)
    BY <1>1
  <2> QED
    BY <1>1, <2>1 DEF Enumerates
<1>5. \A i, j \in 1..Len(Tail(q)) : Tail(q)[i] = Tail(q)[j] => i = j
  <2>1. ASSUME NEW i \in 1..Len(Tail(q)), NEW j \in 1..Len(Tail(q)), Tail(q)[i] = Tail(q)[j]
        PROVE  i = j
    <3>1. i + 1 \in 1..Len(q) /\ j + 1 \in 1..Len(q) /\ q[i + 1] = q[j + 1]
      BY <1>1, <2>1
    <3>2. i + 1 = j + 1
      BY <3>1 DEF Enumerates
    <3> QED
      BY <1>1, <3>2
  <2> QED
    BY <2>1
<1>6. ASSUME NEW r \in Q \ {Head(q)} PROVE \E i \in 1..Len(Tail(q)) : Tail(q)[i] = r
  <2>1. PICK i \in 1..Len(q) : q[i] = r
    BY DEF Enumerates
  <2>2. i # 1
    BY <1>1, <2>1
  <2>3. i - 1 \in 1..Len(Tail(q)) /\ Tail(q)[i - 1] = r
    BY <1>1, <2>1, <2>2
  <2> QED
    BY <2>3
<1>7. InOrder(Tail(q))
  <2>1. ASSUME NEW i \in 1..Len(Tail(q)), NEW j \in 1..Len(Tail(q)), i < j
        PROVE  Priority[Tail(q)[i]] <= Priority[Tail(q)[j]]
    BY <1>1, <2>1 DEF InOrder
  <2> QED
    BY <2>1 DEF InOrder
<1> QED
  BY <1>1, <1>2, <1>3, <1>4, <1>5, <1>6, <1>7 DEF Enumerates

(* What is left when the head goes is no longer than the queue was.         *)
LEMMA TailFits ==
  ASSUME PoolInv, queue # <<>>
  PROVE  Len(Tail(queue)) <= MaxQueueDepth
<1>1. Queued \in SUBSET Requests
  BY DEF Queued
<1>2. /\ Len(queue) \in Nat \ {0} /\ Len(Tail(queue)) = Len(queue) - 1
      /\ Len(queue) <= MaxQueueDepth
  BY <1>1, TailDrops DEF PoolInv, QueueSound
<1> QED
  BY <1>2, AgentPoolAssumption

LEMMA EmptyQueue == ASSUME NEW Q, Enumerates(<<>>, Q) PROVE Q = {}
BY EmptySeq DEF Enumerates

(* pickSlot finds no slot only when none is available.                      *)
LEMMA PickableEmpty ==
  ASSUME NEW S \in SUBSET Agents, NEW active \in [Agents -> Nat], NEW leaving
  PROVE  Pickable(S, active, leaving) = {} <=> Available(S, active, leaving) = {}
<1> DEFINE avail == Available(S, active, leaving)
           below == {0..(active[a] - 1) : a \in avail}
<1>1. Pickable(S, active, leaving) \subseteq avail
  BY DEF Pickable
<1>2. ASSUME avail # {} PROVE Pickable(S, active, leaving) # {}
  <2>1. \A a \in avail : active[a] \in Nat
    BY DEF Available
  <2>2. \A a \in avail : 0..(active[a] - 1) \in FiniteSubsetsOf(Nat)
    BY <2>1, FS_Interval DEF FiniteSubsetsOf
  <2>3. below # {} /\ below \subseteq FiniteSubsetsOf(Nat)
    BY <1>2, <2>2
  <2>4. PICK D \in below : \A E \in below : ~ (<<E, D>> \in StrictSubsetOrdering(Nat))
    BY ONLY <2>3, FS_StrictSubsetOrderingWellFounded, WFMin
  <2>5. PICK a \in avail : D = 0..(active[a] - 1)
    OBVIOUS
  <2>6. ASSUME NEW b \in avail PROVE active[a] <= active[b]
    <3>1. 0..(active[b] - 1) \subseteq Nat /\ 0..(active[a] - 1) \subseteq Nat
      OBVIOUS
    <3>2. ~ (0..(active[b] - 1) \subseteq D /\ 0..(active[b] - 1) # D)
      <4>1. 0..(active[b] - 1) \in below
        OBVIOUS
      <4>2. ~ (<<0..(active[b] - 1), D>> \in StrictSubsetOrdering(Nat))
        BY <2>4, <4>1
      <4> HIDE DEF below
      <4> QED
        BY <2>5, <3>1, <4>2 DEF StrictSubsetOrdering
    <3>3. SUFFICES ASSUME active[b] < active[a] PROVE FALSE
      BY <2>1
    <3>4. active[b] \in 0..(active[a] - 1) /\ active[b] \notin 0..(active[b] - 1)
      BY <2>1, <3>3
    <3>5. 0..(active[b] - 1) \subseteq 0..(active[a] - 1)
      BY <2>1, <3>3
    <3> QED
      BY <2>5, <3>2, <3>4, <3>5
  <2> QED
    BY <2>5, <2>6 DEF Pickable
<1> QED
  BY <1>1, <1>2

-----------------------------------------------------------------------------
(* What a slot runs.                                                        *)
LEMMA RunningFinite ==
  ASSUME NEW a
  PROVE  IsFiniteSet(RunningOn(a)) /\ Cardinality(RunningOn(a)) \in Nat
<1>1. RunningOn(a) \in SUBSET Requests
  BY DEF RunningOn
<1>2. IsFiniteSet(RunningOn(a))
  BY <1>1, AgentPoolAssumption, FS_Subset
<1> QED
  BY <1>2, FS_CardinalityType

(* A request in flight is counted by its slot, so the slot is in the pool.  *)
LEMMA RunnerCounts ==
  ASSUME PoolInv, NEW r \in Requests, phase[r] \in InFlight
  PROVE  slotOf[r] \in slots /\ slotOf[r] \in Agents /\ activeTasks[slotOf[r]] > 0
<1>1. slotOf[r] \in Agents
  BY DEF PoolInv, Seated
<1>2. r \in RunningOn(slotOf[r])
  BY DEF RunningOn
<1>3. Cardinality(RunningOn(slotOf[r])) > 0
  BY <1>2, RunningFinite, FS_EmptySet
<1> QED
  BY <1>1, <1>3 DEF PoolInv, CapacityAccounted, CountsExact

(* Somebody waits and nothing drains: no slot is available.                 *)
LEMMA NobodyWaitsInVain ==
  ASSUME PoolInv, ~draining, queue # <<>>
  PROVE  Available(slots, activeTasks, pendingRemoval) = {}
BY DEF PoolInv, CapacityAccounted, NoIdleCapacityWhileQueued

(* A step of a request that neither takes nor gives a slot or a place in    *)
(* the queue.                                                               *)
Quiet(r) ==
  /\ UNCHANGED <<poolVars, slotOf>>
  /\ TypeOK'
  /\ \A s \in Requests \ {r} : phase'[s] = phase[s] /\ attempt'[s] = attempt[s]
  /\ phase'[r] \in InFlight <=> phase[r] \in InFlight
  /\ phase'[r] # "queued" /\ phase[r] # "queued"
  /\ phase'[r] = "sleeping" => attempt'[r] < MaxRetries

LEMMA QuietKeeps ==
  ASSUME PoolInv, NEW r \in Requests, Quiet(r)
  PROVE  PoolInv'
<1>1. Queued' = Queued /\ \A a : RunningOn(a)' = RunningOn(a)
  BY DEF Queued, RunningOn, Quiet
<1>2. CountsExact' /\ PendingSlotsAreBusy'
  BY <1>1 DEF PoolInv, CapacityAccounted, CountsExact, PendingSlotsAreBusy, Quiet, poolVars
<1>3. NoIdleCapacityWhileQueued'
  BY DEF PoolInv, CapacityAccounted, NoIdleCapacityWhileQueued, Available, Quiet, poolVars
<1>4. Seated'
  BY DEF PoolInv, Seated, Quiet
<1>5. QueueSound'
  BY <1>1 DEF PoolInv, QueueSound, Quiet, poolVars
<1> QED
  BY <1>2, <1>3, <1>4, <1>5 DEF PoolInv, CapacityAccounted, Quiet

(* runOnSlot on behalf of a request that had no slot.                       *)
LEMMA TakingCounts ==
  ASSUME PoolInv, NEW r \in Requests, NEW a \in Agents, phase[r] \notin InFlight,
         RunOnSlot(r, a)
  PROVE  /\ Cardinality(RunningOn(a)') = Cardinality(RunningOn(a)) + 1
         /\ \A b \in Agents \ {a} : RunningOn(b)' = RunningOn(b)
         /\ Queued' = Queued \ {r}
         /\ Seated'
<1>1. RunningOn(a)' = RunningOn(a) \cup {r} /\ r \notin RunningOn(a)
  BY DEF RunningOn, InFlight, PoolInv, CapacityAccounted, TypeOK, RunOnSlot
<1>2. \A b \in Agents \ {a} : RunningOn(b)' = RunningOn(b)
  BY DEF RunningOn, InFlight, PoolInv, CapacityAccounted, TypeOK, RunOnSlot
<1>3. Cardinality(RunningOn(a)') = Cardinality(RunningOn(a)) + 1
  BY <1>1, RunningFinite, FS_AddElement
<1>4. Queued' = Queued \ {r}
  BY DEF Queued, PoolInv, CapacityAccounted, TypeOK, RunOnSlot
<1>5. Seated'
  BY DEF Seated, InFlight, PoolInv, CapacityAccounted, TypeOK, RunOnSlot
<1> QED
  BY <1>2, <1>3, <1>4, <1>5

(* A slot that pickSlot returns takes one more request.                     *)
LEMMA TakesSlotKeeps ==
  ASSUME PoolInv, NEW r \in Requests, NEW a \in Agents, phase[r] \notin InFlight,
         a \in Pickable(slots, activeTasks, pendingRemoval),
         activeTasks' = [activeTasks EXCEPT ![a] = @ + 1],
         RunOnSlot(r, a),
         UNCHANGED <<slots, pendingRemoval, disposed, draining>>,
         draining \/ queue' = <<>>,
         queue' \in Seq(Requests),
         Enumerates(queue', Queued \ {r}), InOrder(queue'), Len(queue') <= MaxQueueDepth,
         disposed => queue' = <<>>
  PROVE  PoolInv'
<1>1. a \in slots /\ activeTasks[a] < MaxConcurrency[a] /\ a \notin pendingRemoval
  BY DEF Pickable, Available
<1>2. MaxConcurrency[a] \in Nat
  BY AgentPoolAssumption
<1>3. TypeOK'
  BY AgentPoolAssumption DEF PoolInv, CapacityAccounted, TypeOK, RunOnSlot, InFlight
<1>4. CountsExact'
  <2>1. /\ activeTasks'[a] = Cardinality(RunningOn(a)')
        /\ activeTasks'[a] <= MaxConcurrency[a] /\ a \in slots'
    BY <1>1, <1>2, TakingCounts, RunningFinite DEF PoolInv, CapacityAccounted, TypeOK, CountsExact
  <2>2. ASSUME NEW b \in Agents \ {a}
        PROVE  /\ activeTasks'[b] = Cardinality(RunningOn(b)')
               /\ activeTasks'[b] <= MaxConcurrency[b]
               /\ b \notin slots' => activeTasks'[b] = 0
    BY TakingCounts DEF PoolInv, CapacityAccounted, TypeOK, CountsExact
  <2> QED
    BY <2>1, <2>2 DEF CountsExact
<1>5. PendingSlotsAreBusy'
  BY <1>1 DEF PoolInv, CapacityAccounted, PendingSlotsAreBusy, TypeOK
<1>6. NoIdleCapacityWhileQueued'
  BY DEF NoIdleCapacityWhileQueued
<1>7. QueueSound'
  BY TakingCounts DEF QueueSound
<1> QED
  BY <1>3, <1>4, <1>5, <1>6, <1>7, TakingCounts DEF PoolInv, CapacityAccounted

-----------------------------------------------------------------------------
(* invoke and the drain loop of addSlots.                                   *)
LEMMA InvokeKeeps ==
  ASSUME PoolInv, NEW r \in Requests,
         InvokeRejected(r) \/ InvokeQueues(r) \/ \E a \in Agents : InvokeRuns(r, a)
  PROVE  PoolInv'
<1>0. phase[r] = "idle" /\ r \notin Queued
  BY DEF InvokeRejected, InvokeQueues, InvokeRuns, Queued
<1>1. CASE InvokeRejected(r)
  <2>1. Quiet(r)
    BY <1>1 DEF InvokeRejected, Settle, Quiet, PoolInv, CapacityAccounted, TypeOK, InFlight, Settled, poolVars
  <2> QED
    BY <2>1, QuietKeeps
<1>2. CASE InvokeQueues(r)
  <2>1. /\ Available(slots, activeTasks, pendingRemoval) = {}
        /\ UNCHANGED <<slots, activeTasks, pendingRemoval, disposed, draining, slotOf, attempt>>
        /\ phase' = [phase EXCEPT ![r] = "queued"] /\ ~disposed
    BY <1>2, PickableEmpty DEF InvokeQueues, Settle, PoolInv, CapacityAccounted, TypeOK
  <2>2. Queued' = Queued \cup {r} /\ \A a : RunningOn(a)' = RunningOn(a)
    BY <1>0, <2>1 DEF Queued, RunningOn, InFlight, PoolInv, CapacityAccounted, TypeOK
  <2>3. Enumerates(queue', Queued') /\ InOrder(queue') /\ Len(queue') <= MaxQueueDepth
    <3>1. Queued \in SUBSET Requests /\ r \in Requests \ Queued
      BY <1>0 DEF Queued
    <3>2. /\ Enumerates(queue', Queued') /\ InOrder(queue')
          /\ Len(queue) \in Nat /\ Len(queue') = Len(queue) + 1
      BY <1>2, <2>2, <3>1, EnqueueAdds DEF InvokeQueues, PoolInv, QueueSound
    <3>3. Len(queue) < MaxQueueDepth /\ MaxQueueDepth \in Nat
      BY <1>2, AgentPoolAssumption DEF InvokeQueues
    <3> QED
      BY <3>2, <3>3
  <2>4. TypeOK'
    BY <2>1, <2>3 DEF PoolInv, CapacityAccounted, TypeOK, Enumerates
  <2>5. CountsExact' /\ PendingSlotsAreBusy'
    BY <2>1, <2>2 DEF PoolInv, CapacityAccounted, CountsExact, PendingSlotsAreBusy
  <2>6. NoIdleCapacityWhileQueued'
    BY <2>1 DEF NoIdleCapacityWhileQueued, Available
  <2>7. Seated' /\ QueueSound'
    BY <2>1, <2>3 DEF PoolInv, CapacityAccounted, TypeOK, Seated, QueueSound, InFlight
  <2> QED
    BY <2>4, <2>5, <2>6, <2>7 DEF PoolInv, CapacityAccounted
<1>3. ASSUME NEW a \in Agents, InvokeRuns(r, a) PROVE PoolInv'
  <2>1. Available(slots, activeTasks, pendingRemoval) # {}
    BY <1>3 DEF InvokeRuns, Pickable
  <2>2. queue = <<>> /\ queue' = <<>>
    BY <1>3, <2>1, NobodyWaitsInVain DEF InvokeRuns
  <2>3. /\ Enumerates(queue', Queued \ {r}) /\ InOrder(queue') /\ queue' \in Seq(Requests)
        /\ Len(queue') <= MaxQueueDepth
    BY <1>0, <2>2 DEF PoolInv, QueueSound, Enumerates, Queued
  <2> QED
    BY <1>0, <1>3, <2>2, <2>3, TakesSlotKeeps DEF InvokeRuns, InFlight
<1> QED
  BY <1>1, <1>2, <1>3

LEMMA DrainKeeps ==
  ASSUME PoolInv, Drain
  PROVE  PoolInv'
<1>1. CASE DrainEnds
  <2>1. UNCHANGED <<slots, activeTasks, pendingRemoval, queue, disposed, phase, slotOf, attempt>>
    BY <1>1 DEF DrainEnds
  <2>2. TypeOK' /\ draining' = FALSE
    BY <1>1, <2>1 DEF DrainEnds, PoolInv, CapacityAccounted, TypeOK
  <2>3. Queued' = Queued /\ \A a : RunningOn(a)' = RunningOn(a)
    BY <2>1 DEF Queued, RunningOn
  <2>4. CountsExact' /\ PendingSlotsAreBusy'
    BY <2>1, <2>3 DEF PoolInv, CapacityAccounted, CountsExact, PendingSlotsAreBusy
  <2>5. NoIdleCapacityWhileQueued'
    <3>1. queue # <<>> => Available(slots, activeTasks, pendingRemoval) = {}
      BY <1>1, PickableEmpty DEF DrainEnds, PoolInv, CapacityAccounted, TypeOK
    <3> QED
      BY <2>1, <3>1 DEF NoIdleCapacityWhileQueued, Available
  <2>6. Seated' /\ QueueSound'
    BY <2>1, <2>3 DEF PoolInv, Seated, QueueSound
  <2> QED
    BY <2>2, <2>4, <2>5, <2>6 DEF PoolInv, CapacityAccounted
<1>2. ASSUME NEW a \in Agents, DrainStep(a) PROVE PoolInv'
  <2>1. Queued \in SUBSET Requests
    BY DEF Queued
  <2>2. /\ Head(queue) \in Queued /\ Enumerates(Tail(queue), Queued \ {Head(queue)})
        /\ InOrder(Tail(queue)) /\ Len(Tail(queue)) <= MaxQueueDepth
    BY <1>2, <2>1, TailDrops, TailFits DEF DrainStep, PoolInv, QueueSound
  <2>3. Head(queue) \in Requests /\ phase[Head(queue)] \notin InFlight
    BY <2>2 DEF Queued, InFlight
  <2>4. ~disposed /\ Tail(queue) \in Seq(Requests)
    BY <1>2, <2>2 DEF DrainStep, PoolInv, QueueSound, Enumerates
  <2> QED
    BY <1>2, <2>2, <2>3, <2>4, TakesSlotKeeps DEF DrainStep
<1> QED
  BY <1>1, <1>2 DEF Drain

-----------------------------------------------------------------------------
(* The finally block of runOnSlot.                                          *)
LEMMA FinishingRequest ==
  ASSUME PoolInv, NEW r \in Requests, NEW how \in Settled, Finishes(r, phase[r], how)
  PROVE  /\ phase[r] \in InFlight /\ how \notin InFlight \cup {"queued"}
         /\ slotOf[r] \in slots /\ slotOf[r] \in Agents /\ activeTasks[slotOf[r]] > 0
BY RunnerCounts DEF Finishes, InFlight, Settled

(* A request that leaves its slot and hands it to nobody.                   *)
LEMMA GivingCounts ==
  ASSUME PoolInv, NEW r \in Requests, NEW how \in Settled, NEW a \in Agents,
         phase[r] \in InFlight, slotOf[r] = a,
         phase' = Release(r, how), slotOf' = [slotOf EXCEPT ![r] = NoSlot],
         UNCHANGED attempt
  PROVE  /\ Cardinality(RunningOn(a)') = Cardinality(RunningOn(a)) - 1
         /\ \A b \in Agents \ {a} : RunningOn(b)' = RunningOn(b)
         /\ Seated'
<1>1. RunningOn(a)' = RunningOn(a) \ {r} /\ r \in RunningOn(a)
  BY DEF RunningOn, InFlight, Settled, Release, PoolInv, CapacityAccounted, TypeOK
<1>2. \A b \in Agents \ {a} : RunningOn(b)' = RunningOn(b)
  BY DEF RunningOn, InFlight, Settled, Release, PoolInv, CapacityAccounted, TypeOK
<1>3. Cardinality(RunningOn(a)') = Cardinality(RunningOn(a)) - 1
  <2>1. IsFiniteSet(RunningOn(a))
    BY RunningFinite
  <2>2. Cardinality(RunningOn(a) \ {r}) = Cardinality(RunningOn(a)) - 1
    BY ONLY <1>1, <2>1, FS_RemoveElement
  <2> QED BY ONLY <1>1, <2>2
<1>4. Seated'
  BY DEF Seated, InFlight, Settled, Release, PoolInv, CapacityAccounted, TypeOK
<1> QED
  BY <1>2, <1>3, <1>4

(* The slot loses a task, and leaves the pool if that was its last one and  *)
(* it is marked for removal.                                                *)
LEMMA GivingKeepsBooks ==
  ASSUME PoolInv, NEW r \in Requests, NEW how \in Settled, NEW a \in Agents,
         phase[r] \in InFlight, slotOf[r] = a, activeTasks[a] > 0,
         phase' = Release(r, how), slotOf' = [slotOf EXCEPT ![r] = NoSlot],
         UNCHANGED <<attempt, disposed, draining>>,
         activeTasks' = [activeTasks EXCEPT ![a] = @ - 1],
         pendingRemoval' = (IF Evicts(a) THEN pendingRemoval \ {a} ELSE pendingRemoval),
         slots' = (IF Evicts(a) THEN slots \ {a} ELSE slots),
         queue' \in Seq(Requests)
  PROVE  TypeOK' /\ CountsExact' /\ PendingSlotsAreBusy' /\ Seated'
<1>1. activeTasks \in [Agents -> Nat] /\ activeTasks' \in [Agents -> Nat]
  BY DEF PoolInv, CapacityAccounted, TypeOK
<1>2. TypeOK'
  BY <1>1 DEF PoolInv, CapacityAccounted, TypeOK, Release, Settled
<1>3. CountsExact'
  <2>1. activeTasks'[a] = Cardinality(RunningOn(a)') /\ activeTasks'[a] < activeTasks[a]
    <3>1. activeTasks[a] = Cardinality(RunningOn(a))
      BY DEF PoolInv, CapacityAccounted, CountsExact
    <3>2. activeTasks'[a] = activeTasks[a] - 1
      BY <1>1
    <3>3. Cardinality(RunningOn(a)') = Cardinality(RunningOn(a)) - 1
      BY GivingCounts
    <3> QED
      BY <1>1, <3>1, <3>2, <3>3
  <2>2. activeTasks'[a] <= MaxConcurrency[a]
    BY <1>1, <2>1, AgentPoolAssumption DEF PoolInv, CapacityAccounted, CountsExact
  <2>3. a \notin slots' => activeTasks'[a] = 0
    BY <1>1 DEF PoolInv, CapacityAccounted, CountsExact, Evicts
  <2>4. ASSUME NEW b \in Agents \ {a}
        PROVE  /\ activeTasks'[b] = Cardinality(RunningOn(b)')
               /\ activeTasks'[b] <= MaxConcurrency[b]
               /\ b \notin slots' => activeTasks'[b] = 0
    BY <1>1, GivingCounts DEF PoolInv, CapacityAccounted, CountsExact
  <2> QED
    BY <2>1, <2>2, <2>3, <2>4 DEF CountsExact
<1>4. PendingSlotsAreBusy'
  <2>1. ASSUME NEW b \in pendingRemoval' PROVE b \in slots' /\ activeTasks'[b] > 0
    <3>1. b \in pendingRemoval /\ b \in slots /\ activeTasks[b] > 0 /\ b \in Agents
      BY <2>1 DEF PoolInv, CapacityAccounted, PendingSlotsAreBusy, TypeOK
    <3>2. CASE b = a
      <4>1. ~Evicts(a) /\ activeTasks[a] # 1
        BY <2>1, <3>1, <3>2 DEF Evicts
      <4> QED
        BY <1>1, <3>1, <3>2, <4>1
    <3>3. CASE b # a
      BY <1>1, <3>1, <3>3
    <3> QED
      BY <3>2, <3>3
  <2> QED
    BY <2>1 DEF PendingSlotsAreBusy
<1> QED
  BY <1>2, <1>3, <1>4, GivingCounts

LEMMA FinishIdleKeeps ==
  ASSUME PoolInv, NEW r \in Requests, NEW how \in Settled, FinishIdle(r, how)
  PROVE  PoolInv'
<1> DEFINE a == slotOf[r]
<1>1. /\ phase[r] \in InFlight /\ how \notin InFlight \cup {"queued"}
      /\ a \in Agents /\ activeTasks[a] > 0
  BY FinishingRequest DEF FinishIdle
<1>2. queue = <<>> /\ queue' = <<>> /\ queue' \in Seq(Requests)
  BY DEF FinishIdle, PoolInv, CapacityAccounted, TypeOK
<1>3. TypeOK' /\ CountsExact' /\ PendingSlotsAreBusy' /\ Seated'
  BY <1>1, <1>2, GivingKeepsBooks DEF FinishIdle
<1>4. NoIdleCapacityWhileQueued'
  BY <1>2 DEF NoIdleCapacityWhileQueued
<1>5. Queued' = Queued
  BY <1>1 DEF FinishIdle, Queued, Release, InFlight, PoolInv, CapacityAccounted, TypeOK
<1>6. QueueSound'
  BY <1>2, <1>5 DEF PoolInv, QueueSound
<1> QED
  BY <1>3, <1>4, <1>6 DEF PoolInv, CapacityAccounted

LEMMA FinishHandsOverKeeps ==
  ASSUME PoolInv, NEW r \in Requests, NEW how \in Settled, FinishHandsOver(r, how)
  PROVE  PoolInv'
<1> DEFINE n == Head(queue)
<1>0. PICK a \in Agents : a = slotOf[r]
  BY FinishingRequest DEF FinishHandsOver
<1>1. /\ phase[r] \in InFlight /\ how \notin InFlight \cup {"queued"}
      /\ a = slotOf[r] /\ a \in Agents /\ activeTasks[a] > 0
  BY <1>0, FinishingRequest DEF FinishHandsOver
<1>2. Queued \in SUBSET Requests /\ queue # <<>>
  BY DEF Queued, FinishHandsOver
<1>3. n \in Queued /\ Enumerates(Tail(queue), Queued \ {n}) /\ InOrder(Tail(queue))
  BY <1>2, TailDrops DEF PoolInv, QueueSound
<1>4. n \in Requests /\ phase[n] = "queued" /\ n # r
  BY <1>1, <1>3 DEF Queued, InFlight
<1>5. /\ phase' = [[phase EXCEPT ![r] = how] EXCEPT ![n] = "starting"]
      /\ slotOf' = [slotOf EXCEPT ![r] = NoSlot, ![n] = a]
      /\ attempt' = [attempt EXCEPT ![n] = 0]
      /\ queue' = Tail(queue)
      /\ UNCHANGED <<slots, activeTasks, pendingRemoval, disposed, draining>>
  BY <1>0 DEF FinishHandsOver, Release
<1>6. /\ \A s \in Requests : phase'[s] = IF s = n THEN "starting" ELSE IF s = r THEN how ELSE phase[s]
      /\ \A s \in Requests : slotOf'[s] = IF s = n THEN a ELSE IF s = r THEN NoSlot ELSE slotOf[s]
  BY <1>4, <1>5 DEF PoolInv, CapacityAccounted, TypeOK
<1>7. TypeOK'
  <2>1. TypeOK /\ 0 \in 0..MaxRetries
    BY AgentPoolAssumption DEF PoolInv, CapacityAccounted
  <2>2. phase' \in [Requests -> {"idle", "queued"} \cup InFlight \cup Settled]
    BY <1>5, <2>1 DEF TypeOK, InFlight
  <2>3. slotOf' \in [Requests -> Agents \cup {NoSlot}]
    BY <1>1, <1>5, <2>1 DEF TypeOK
  <2>4. attempt' \in [Requests -> 0..MaxRetries]
    BY <1>5, <2>1 DEF TypeOK
  <2>5. queue' \in Seq(Requests)
    BY <1>3, <1>5 DEF Enumerates
  <2> QED
    BY <1>5, <2>1, <2>2, <2>3, <2>4, <2>5 DEF TypeOK
<1>8. Queued' = Queued \ {n}
  BY <1>1, <1>4, <1>6 DEF Queued, InFlight
<1>9. CountsExact'
  <2>1. RunningOn(a)' = (RunningOn(a) \ {r}) \cup {n} /\ r \in RunningOn(a) /\ n \notin RunningOn(a)
    <3>1. a # NoSlot
      BY <1>1, AgentPoolAssumption
    <3>2. \A s \in Requests : phase'[s] \in InFlight /\ slotOf'[s] = a
                             <=> s = n \/ (s # r /\ phase[s] \in InFlight /\ slotOf[s] = a)
      BY <1>1, <1>4, <1>6, <3>1 DEF InFlight
    <3>3. r \in RunningOn(a) /\ n \notin RunningOn(a)
      BY <1>1, <1>4 DEF RunningOn, InFlight
    <3> QED
      BY <1>4, <3>2, <3>3 DEF RunningOn
  <2>2. Cardinality(RunningOn(a) \ {r}) = Cardinality(RunningOn(a)) - 1
        /\ IsFiniteSet(RunningOn(a) \ {r})
    BY <2>1, RunningFinite, FS_RemoveElement
  <2>3. Cardinality(RunningOn(a)') = Cardinality(RunningOn(a))
    <3>1. n \notin RunningOn(a) \ {r}
      BY <2>1
    <3>2. Cardinality(RunningOn(a)') = Cardinality(RunningOn(a) \ {r}) + 1
      BY <2>1, <2>2, <3>1, FS_AddElement
    <3>3. Cardinality(RunningOn(a)) \in Nat
      BY RunningFinite
    <3> QED
      BY <2>2, <3>2, <3>3
  <2>4. \A b \in Agents \ {a} : RunningOn(b)' = RunningOn(b)
    BY <1>1, <1>4, <1>6, AgentPoolAssumption DEF RunningOn, InFlight
  <2> QED
    <3>1. \A b \in Agents : Cardinality(RunningOn(b)') = Cardinality(RunningOn(b))
      BY <2>3, <2>4
    <3> QED
      BY <1>5, <3>1 DEF PoolInv, CapacityAccounted, CountsExact
<1>10. PendingSlotsAreBusy'
  BY <1>5 DEF PoolInv, CapacityAccounted, PendingSlotsAreBusy
<1>11. NoIdleCapacityWhileQueued'
  <2>1. Available(slots, activeTasks, pendingRemoval) = {}
    BY <1>2, NobodyWaitsInVain DEF FinishHandsOver
  <2> QED
    BY <1>5, <2>1 DEF NoIdleCapacityWhileQueued, Available
<1>12. Seated'
  BY <1>1, <1>4, <1>5, <1>6 DEF PoolInv, CapacityAccounted, TypeOK, Seated, InFlight
<1>13. QueueSound'
  BY <1>2, <1>3, <1>5, <1>8, TailFits DEF PoolInv, QueueSound
<1> QED
  BY <1>7, <1>9, <1>10, <1>11, <1>12, <1>13 DEF PoolInv, CapacityAccounted

(* An evicted slot leaves nobody free behind, and the request that it       *)
(* re-issues finds the place in the queue that it left: it goes back.       *)
LEMMA EvictionRequeues ==
  ASSUME PoolInv, NEW r \in Requests, NEW how \in Settled, FinishEvicts(r, how)
  PROVE  /\ Available(slots, activeTasks, pendingRemoval) = {}
         /\ activeTasks' = [activeTasks EXCEPT ![slotOf[r]] = @ - 1]
         /\ phase' = Release(r, how)
         /\ slotOf' = [slotOf EXCEPT ![r] = NoSlot]
         /\ Enqueue(Tail(queue), Head(queue), queue')
         /\ UNCHANGED attempt
<1>1. Available(slots, activeTasks, pendingRemoval) = {}
  BY NobodyWaitsInVain DEF FinishEvicts
<1>2. Pickable(slots \ {slotOf[r]}, activeTasks, pendingRemoval) = {}
  BY <1>1 DEF Pickable, Available
<1>3. ~disposed /\ queue # <<>>
  BY DEF FinishEvicts, PoolInv, QueueSound
<1>4. ~(Len(Tail(queue)) >= MaxQueueDepth) /\ Head(queue) \in Queued
  <2>1. Queued \in SUBSET Requests
    BY DEF Queued
  <2>2. /\ Len(queue) \in Nat \ {0} /\ Len(Tail(queue)) = Len(queue) - 1
        /\ Len(queue) <= MaxQueueDepth /\ Head(queue) \in Queued
    BY <1>3, <2>1, TailDrops DEF PoolInv, QueueSound
  <2> QED
    BY <2>2, AgentPoolAssumption
<1>5. InvokedAgain(slotOf[r]) = "queued"
  BY <1>2, <1>3, <1>4 DEF InvokedAgain
<1>6. phase' = Release(r, how)
  <2>1. phase' = [[phase EXCEPT ![r] = how] EXCEPT ![Head(queue)] = "queued"]
    BY <1>5 DEF FinishEvicts, Release
  <2>2. /\ phase \in [Requests -> {"idle", "queued"} \cup InFlight \cup Settled]
        /\ Head(queue) \in Requests /\ phase[Head(queue)] = "queued" /\ Head(queue) # r
    BY <1>4, FinishingRequest DEF FinishEvicts, Queued, InFlight, PoolInv, CapacityAccounted, TypeOK
  <2> QED
    BY <2>1, <2>2 DEF Release
<1> QED
  BY <1>1, <1>5, <1>6 DEF FinishEvicts

LEMMA FinishEvictsKeeps ==
  ASSUME PoolInv, NEW r \in Requests, NEW how \in Settled, FinishEvicts(r, how)
  PROVE  PoolInv'
<1> DEFINE a == slotOf[r]
           n == Head(queue)
<1>1. /\ phase[r] \in InFlight /\ how \notin InFlight \cup {"queued"}
      /\ a \in Agents /\ activeTasks[a] > 0
  BY FinishingRequest DEF FinishEvicts
<1>2. Queued \in SUBSET Requests /\ queue # <<>>
  BY DEF Queued, FinishEvicts
<1>3. n \in Queued /\ Enumerates(Tail(queue), Queued \ {n}) /\ InOrder(Tail(queue))
  BY <1>2, TailDrops DEF PoolInv, QueueSound
<1>4. Enumerates(queue', Queued) /\ InOrder(queue') /\ Len(queue') <= MaxQueueDepth
  <2>1. n \in Requests \ (Queued \ {n}) /\ Queued \ {n} \in SUBSET Requests
    BY <1>2, <1>3
  <2>2. Enqueue(Tail(queue), n, queue')
    BY EvictionRequeues
  <2>3. /\ Enumerates(queue', (Queued \ {n}) \cup {n}) /\ InOrder(queue')
        /\ Len(Tail(queue)) \in Nat /\ Len(queue') = Len(Tail(queue)) + 1
    BY <1>3, <2>1, <2>2, EnqueueAdds
  <2>4. (Queued \ {n}) \cup {n} = Queued
    BY <1>3
  <2>5. /\ Len(queue) \in Nat \ {0} /\ Len(Tail(queue)) = Len(queue) - 1
        /\ Len(queue) <= MaxQueueDepth
    BY <1>2, TailDrops DEF PoolInv, QueueSound
  <2>6. Enumerates(queue', Queued) /\ InOrder(queue')
    BY <2>3, <2>4
  <2>7. Len(queue') <= MaxQueueDepth
    BY <2>3, <2>5
  <2> QED
    BY <2>6, <2>7
<1>5. /\ Evicts(a) /\ slots' = slots \ {a} /\ pendingRemoval' = pendingRemoval \ {a}
      /\ UNCHANGED <<disposed, draining>>
  BY DEF FinishEvicts
<1>6. TypeOK' /\ CountsExact' /\ PendingSlotsAreBusy' /\ Seated'
  BY <1>1, <1>4, <1>5, EvictionRequeues, GivingKeepsBooks DEF Enumerates
<1>7. Queued' = Queued
  BY <1>1, EvictionRequeues DEF Queued, Release, InFlight, PoolInv, CapacityAccounted, TypeOK
<1>8. NoIdleCapacityWhileQueued'
  BY <1>1, <1>5, EvictionRequeues DEF NoIdleCapacityWhileQueued, Available, PoolInv, CapacityAccounted, TypeOK
<1>9. QueueSound'
  BY <1>2, <1>4, <1>5, <1>7 DEF PoolInv, QueueSound
<1> QED
  BY <1>6, <1>8, <1>9 DEF PoolInv, CapacityAccounted

LEMMA ProgressKeeps ==
  ASSUME PoolInv, NEW r \in Requests, Progress(r)
  PROVE  PoolInv'
<1>1. CASE HookStartDone(r) \/ AgentSucceeds(r)
  <2>1. Quiet(r)
    BY <1>1 DEF HookStartDone, AgentSucceeds, Settle, Quiet, PoolInv, CapacityAccounted, TypeOK, InFlight, poolVars
  <2> QED
    BY <2>1, QuietKeeps
<1>2. CASE AgentFails(r)
  <2>1. TypeOK /\ phase[r] = "invoking" /\ UNCHANGED poolVars
    BY <1>2 DEF AgentFails, PoolInv, CapacityAccounted
  <2>2. MayRetry(r) => attempt[r] + 1 \in 0..MaxRetries
    BY <2>1, AgentPoolAssumption DEF MayRetry, TypeOK
  <2>3. CASE MayRetry(r) /\ ~HasRetryDelay
    <3>1. attempt' = [attempt EXCEPT ![r] = attempt[r] + 1] /\ UNCHANGED <<phase, slotOf>>
      BY <1>2, <2>3 DEF AgentFails
    <3>2. TypeOK'
      BY <2>1, <2>2, <2>3, <3>1 DEF TypeOK, poolVars
    <3>3. Quiet(r)
      BY <2>1, <3>1, <3>2 DEF Quiet, TypeOK
    <3> QED
      BY <3>3, QuietKeeps
  <2>4. CASE ~(MayRetry(r) /\ ~HasRetryDelay)
    <3>1. /\ UNCHANGED <<slotOf, attempt>>
          /\ \/ phase' = [phase EXCEPT ![r] = "sleeping"] /\ attempt[r] < MaxRetries
             \/ phase' = [phase EXCEPT ![r] = "failing"]
      BY <1>2, <2>4 DEF AgentFails, Settle, MayRetry
    <3>2. TypeOK'
      BY <2>1, <3>1 DEF TypeOK, poolVars, InFlight
    <3>3. Quiet(r)
      BY <2>1, <3>1, <3>2 DEF Quiet, TypeOK, InFlight
    <3> QED
      BY <3>3, QuietKeeps
  <2> QED
    BY <2>3, <2>4
<1>3. CASE RetryDelayOver(r)
  <2>1. attempt[r] < MaxRetries
    BY <1>3 DEF RetryDelayOver, PoolInv, Seated
  <2>2. Quiet(r)
    BY <1>3, <2>1, AgentPoolAssumption
    DEF RetryDelayOver, Quiet, PoolInv, CapacityAccounted, TypeOK, InFlight, poolVars
  <2> QED
    BY <2>2, QuietKeeps
<1>4. CASE Finish(r)
  BY <1>4, FinishIdleKeeps, FinishHandsOverKeeps, FinishEvictsKeeps DEF Finish
<1> QED
  BY <1>1, <1>2, <1>3, <1>4 DEF Progress

-----------------------------------------------------------------------------
(* The operations of the pool itself.                                       *)
LEMMA AddSlotsKeeps ==
  ASSUME PoolInv, NEW A \in SUBSET Agents, AddSlots(A)
  PROVE  PoolInv'
<1>1. Queued' = Queued /\ \A a : RunningOn(a)' = RunningOn(a)
  BY DEF AddSlots, Queued, RunningOn
<1>2. TypeOK'
  BY DEF AddSlots, PoolInv, CapacityAccounted, TypeOK
<1>3. CountsExact' /\ PendingSlotsAreBusy'
  BY <1>1 DEF AddSlots, PoolInv, CapacityAccounted, CountsExact, PendingSlotsAreBusy
<1>4. NoIdleCapacityWhileQueued'
  BY DEF AddSlots, NoIdleCapacityWhileQueued
<1>5. Seated' /\ QueueSound'
  BY <1>1 DEF AddSlots, PoolInv, Seated, QueueSound
<1> QED
  BY <1>2, <1>3, <1>4, <1>5 DEF PoolInv, CapacityAccounted

LEMMA RemoveSlotsKeeps ==
  ASSUME PoolInv, NEW A \in SUBSET Removable, RemoveSlots(A)
  PROVE  PoolInv'
<1> DEFINE S == slots \cap A
<1>1. /\ slots' = (slots \ S) \cup Busy(S) /\ pendingRemoval' = (pendingRemoval \ S) \cup Busy(S)
      /\ UNCHANGED <<activeTasks, queue, disposed, draining, phase, slotOf, attempt>>
  BY DEF RemoveSlots
<1>2. Busy(S) = {a \in S : activeTasks[a] > 0}
  BY DEF Busy
<1>3. Queued' = Queued /\ \A a : RunningOn(a)' = RunningOn(a)
  BY <1>1 DEF Queued, RunningOn
<1>4. TypeOK'
  BY <1>1, <1>2 DEF PoolInv, CapacityAccounted, TypeOK
<1>5. CountsExact'
  <2>1. \A a \in Agents : a \notin slots' => activeTasks[a] = 0
    <3>1. \A a \in Agents : activeTasks[a] \in Nat /\ (a \notin slots => activeTasks[a] = 0)
      BY DEF PoolInv, CapacityAccounted, TypeOK, CountsExact
    <3>2. \A a \in Agents : a \in slots /\ a \notin slots' => ~(activeTasks[a] > 0)
      BY <1>1, <1>2
    <3> QED
      BY <3>1, <3>2
  <2> QED
    BY <1>1, <1>3, <2>1 DEF PoolInv, CapacityAccounted, CountsExact
<1>6. PendingSlotsAreBusy'
  BY <1>1, <1>2 DEF PoolInv, CapacityAccounted, PendingSlotsAreBusy
<1>7. NoIdleCapacityWhileQueued'
  <2>1. Available(slots', activeTasks', pendingRemoval') \subseteq Available(slots, activeTasks, pendingRemoval)
    BY <1>1, <1>2 DEF Available
  <2> QED
    BY <1>1, <2>1 DEF PoolInv, CapacityAccounted, NoIdleCapacityWhileQueued
<1>8. Seated' /\ QueueSound'
  BY <1>1, <1>3 DEF PoolInv, Seated, QueueSound
<1> QED
  BY <1>4, <1>5, <1>6, <1>7, <1>8 DEF PoolInv, CapacityAccounted

LEMMA DisposeKeeps ==
  ASSUME PoolInv, Dispose
  PROVE  PoolInv'
<1>1. Queued' = {} /\ \A a : RunningOn(a)' = RunningOn(a)
  BY DEF Dispose, Queued, RunningOn, InFlight
<1>2. TypeOK'
  BY DEF Dispose, PoolInv, CapacityAccounted, TypeOK, Settled
<1>3. CountsExact' /\ PendingSlotsAreBusy' /\ NoIdleCapacityWhileQueued'
  BY <1>1 DEF Dispose, PoolInv, CapacityAccounted, CountsExact, PendingSlotsAreBusy, NoIdleCapacityWhileQueued
<1>4. Seated'
  BY DEF Dispose, PoolInv, Seated, InFlight
<1>5. QueueSound'
  <2>1. queue' = <<>>
    BY DEF Dispose
  <2> QED
    BY <1>1, <2>1, EmptySeq, AgentPoolAssumption DEF QueueSound, Enumerates, InOrder
<1> QED
  BY <1>2, <1>3, <1>4, <1>5 DEF PoolInv, CapacityAccounted

-----------------------------------------------------------------------------
LEMMA PoolInitially == Init => PoolInv
<1> SUFFICES ASSUME Init PROVE PoolInv
  OBVIOUS
<1>1. Queued = {} /\ \A a : RunningOn(a) = {}
  BY DEF Init, Queued, RunningOn, InFlight
<1>2. TypeOK
  <2>1. <<>> \in Seq(Requests) /\ 0 \in 0..MaxRetries /\ InitialAgents \subseteq Agents
    BY EmptySeq, AgentPoolAssumption
  <2> QED
    BY <2>1 DEF Init, TypeOK
<1>3. CountsExact
  <2>1. \A a \in Agents : Cardinality(RunningOn(a)) = 0
    BY <1>1, FS_EmptySet
  <2>2. \A a \in Agents : activeTasks[a] = 0 /\ MaxConcurrency[a] \in Nat
    BY AgentPoolAssumption DEF Init
  <2> QED
    BY <2>1, <2>2 DEF CountsExact
<1>4. PendingSlotsAreBusy /\ NoIdleCapacityWhileQueued /\ Seated
  BY DEF Init, PendingSlotsAreBusy, NoIdleCapacityWhileQueued, Seated, InFlight
<1>5. QueueSound
  <2>1. queue = <<>>
    BY DEF Init
  <2> QED
    BY <1>1, <2>1, EmptySeq, AgentPoolAssumption DEF QueueSound, Enumerates, InOrder
<1> QED
  BY <1>2, <1>3, <1>4, <1>5 DEF PoolInv, CapacityAccounted

LEMMA PoolStep == PoolInv /\ [Next]_vars => PoolInv'
<1> SUFFICES ASSUME PoolInv, [Next]_vars PROVE PoolInv'
  OBVIOUS
<1>1. CASE UNCHANGED vars
  BY <1>1
  DEF vars, poolVars, PoolInv, CapacityAccounted, TypeOK, CountsExact, PendingSlotsAreBusy,
      NoIdleCapacityWhileQueued, Available, RunningOn, Seated, QueueSound, Queued
<1>2. CASE \E r \in Requests : \/ InvokeRejected(r) \/ InvokeQueues(r)
                               \/ \E a \in Agents : InvokeRuns(r, a)
  BY <1>2, InvokeKeeps
<1>3. CASE \E r \in Requests : Progress(r)
  BY <1>3, ProgressKeeps
<1>4. CASE Drain
  BY <1>4, DrainKeeps
<1>5. CASE \E A \in SUBSET Agents : AddSlots(A)
  BY <1>5, AddSlotsKeeps
<1>6. CASE \E A \in SUBSET Removable : RemoveSlots(A)
  BY <1>6, RemoveSlotsKeeps
<1>7. CASE Dispose
  BY <1>7, DisposeKeeps
<1> QED
  BY <1>1, <1>2, <1>3, <1>4, <1>5, <1>6, <1>7 DEF Next

(* The pool's books are right at every moment: what a slot counts is what   *)
(* runs on it and never more than it may, a removed slot abandons nobody,   *)
(* and no request waits while a slot could take it.                         *)
THEOREM PoolBooksAreRight == Spec => []CapacityAccounted
<1>1. PoolInv => CapacityAccounted
  BY DEF PoolInv
<1> QED
  BY <1>1, PoolInitially, PoolStep, PTL DEF Spec

(* Nobody is ahead of the head, and its going puts nobody ahead of another. *)
LEMMA HeadIsFirst ==
  ASSUME NEW Q, NEW q, Enumerates(q, Q), q # <<>>
  PROVE  /\ AheadOf(q, Head(q)) = {}
         /\ \A w \in Requests : AheadOf(Tail(q), w) \subseteq AheadOf(q, w)
         /\ \A w \in Q \ {Head(q)} : Head(q) \in Requests => Head(q) \in AheadOf(q, w)
<1>1. /\ Len(q) \in Nat \ {0} /\ Head(q) = q[1] /\ Len(Tail(q)) = Len(q) - 1
      /\ \A i \in 1..Len(Tail(q)) : Tail(q)[i] = q[i + 1]
  BY HeadAndTail DEF Enumerates
<1>2. AheadOf(q, Head(q)) = {}
  <2>1. \A i, j \in 1..Len(q) : i < j => q[j] # q[1]
    BY <1>1 DEF Enumerates
  <2> QED
    BY <1>1, <2>1 DEF AheadOf
<1>3. ASSUME NEW w \in Requests, NEW s \in AheadOf(Tail(q), w) PROVE s \in AheadOf(q, w)
  <2>1. PICK i \in 1..Len(Tail(q)), j \in 1..Len(Tail(q)) :
          i < j /\ Tail(q)[i] = s /\ Tail(q)[j] = w
    BY <1>3 DEF AheadOf
  <2>2. i + 1 \in 1..Len(q) /\ j + 1 \in 1..Len(q) /\ i + 1 < j + 1 /\ q[i + 1] = s /\ q[j + 1] = w
    BY <1>1, <2>1
  <2> QED
    BY <1>3, <2>2 DEF AheadOf
<1>4. ASSUME NEW w \in Q \ {Head(q)}, Head(q) \in Requests PROVE Head(q) \in AheadOf(q, w)
  <2>1. PICK j \in 1..Len(q) : q[j] = w
    BY DEF Enumerates
  <2>2. 1 \in 1..Len(q) /\ 1 < j
    BY <1>1, <2>1
  <2> QED
    BY <1>1, <1>4, <2>1, <2>2 DEF AheadOf
<1> QED
  BY <1>2, <1>3, <1>4

(* Who joins the queue gets ahead of the less urgent only, and finds those  *)
(* ahead of it who are as urgent or more.                                   *)
LEMMA EnqueueOvertakes ==
  ASSUME NEW q \in Seq(Requests), NEW r \in Requests, NEW q2, Enqueue(q, r, q2),
         NEW w \in Requests, NEW s \in AheadOf(q2, w), \A i \in 1..Len(q) : q[i] # r
  PROVE  /\ w # r => s \in AheadOf(q, w) \/ (s = r /\ Priority[r] < Priority[w])
         /\ w = r => (\E i \in 1..Len(q) : q[i] = s) /\ Priority[s] <= Priority[r]
<1>1. PICK k \in 1..(Len(q) + 1) :
        /\ \A i \in 1..Len(q) : i < k <=> Priority[q[i]] <= Priority[r]
        /\ q2 = InsertedAt(q, k, r)
  BY DEF Enqueue
<1>2. /\ Len(q) \in Nat /\ Len(q2) = Len(q) + 1 /\ k \in Int
      /\ \A i \in 1..(Len(q) + 1) :
           q2[i] = IF i < k THEN q[i] ELSE IF i = k THEN r ELSE q[i - 1]
  BY <1>1, InsertedAtSeq DEF InsertedAt
<1>3. PICK i \in 1..Len(q2), j \in 1..Len(q2) : i < j /\ q2[i] = s /\ q2[j] = w
  BY DEF AheadOf
<1>4. s \in Requests /\ Priority[r] \in Int /\ Priority[w] \in Int
  BY AgentPoolAssumption DEF AheadOf
<1>5. \A m \in 1..Len(q2) : /\ m < k => m \in 1..Len(q) /\ q2[m] = q[m]
                            /\ m > k => m - 1 \in 1..Len(q) /\ q2[m] = q[m - 1]
                            /\ m = k => q2[m] = r
  BY <1>2
<1>6. CASE w # r
  <2>1. j # k
    BY <1>3, <1>5, <1>6
  <2>2. CASE j < k
    <3>1. i \in 1..Len(q) /\ j \in 1..Len(q) /\ q[i] = s /\ q[j] = w
      BY <1>2, <1>3, <1>5, <2>2
    <3> QED
      BY <1>3, <1>4, <1>6, <3>1 DEF AheadOf
  <2>3. CASE j > k /\ i < k
    <3>1. i \in 1..Len(q) /\ j - 1 \in 1..Len(q) /\ (i < j - 1 \/ i = j - 1)
      BY <1>2, <1>3, <1>5, <2>3
    <3>2. i \in 1..Len(q) /\ j - 1 \in 1..Len(q) /\ q[i] = s /\ q[j - 1] = w
      BY <1>3, <1>5, <2>3
    <3>3. i < j - 1
      BY <1>2, <1>3, <2>3
    <3> QED
      BY <1>4, <1>6, <3>2, <3>3 DEF AheadOf
  <2>4. CASE j > k /\ i = k
    <3>1. s = r /\ j - 1 \in 1..Len(q) /\ q[j - 1] = w
      BY <1>3, <1>5, <2>4
    <3>2. ~(j - 1 < k)
      BY <1>2, <1>3, <2>4
    <3>3. ~(Priority[w] <= Priority[r])
      BY <1>1, <3>1, <3>2
    <3> QED
      BY <1>4, <1>6, <3>1, <3>3
  <2>5. CASE j > k /\ i > k
    <3>1. i - 1 \in 1..Len(q) /\ j - 1 \in 1..Len(q) /\ q[i - 1] = s /\ q[j - 1] = w
      BY <1>3, <1>5, <2>5
    <3>2. i - 1 < j - 1
      BY <1>3
    <3> QED
      BY <1>4, <1>6, <3>1, <3>2 DEF AheadOf
  <2> QED
    BY <1>2, <1>3, <2>1, <2>2, <2>3, <2>4, <2>5
<1>7. CASE w = r
  <2>1. ~(j < k) /\ ~(j > k)
    BY <1>3, <1>5, <1>7
  <2>2. i < k
    BY <1>2, <1>3, <2>1
  <2>3. i \in 1..Len(q) /\ q[i] = s
    BY <1>3, <1>5, <2>2
  <2> QED
    BY <1>1, <1>7, <2>2, <2>3
<1> QED
  BY <1>6, <1>7

(* The queue is served in order: a request leaves it only from its head, to *)
(* run, or because the pool is disposed of, and the second invoke() of an   *)
(* evicting slot never drops it.  Those who get ahead of one that waits are *)
(* more urgent; a head sent back is put behind its equals.                  *)
THEOREM QueueServedInOrder == Spec => QueuedRequestsServedInOrder
<1> DEFINE Handed(r) ==
             \/ phase'[r] = "disposed" /\ disposed'
             \/ /\ phase'[r] = "starting"
                /\ AheadOf(queue, r) = {}
                /\ \A s \in Requests : phase[s] = "queued" => Priority[r] <= Priority[s]
           Ahead(r, s) ==
             \/ Priority[s] < Priority[r]
             \/ /\ r = Head(queue) /\ slots' # slots
                /\ phase[s] = "queued" /\ Priority[s] = Priority[r]
           Waits(r) ==
             /\ phase'[r] = "queued"
             /\ \A s \in AheadOf(queue', r) \ AheadOf(queue, r) : Ahead(r, s)
           ServedInOrder ==
             \A r \in Requests :
               phase[r] = "queued" =>
                 \/ phase'[r] = "disposed" /\ disposed'
                 \/ /\ phase'[r] = "starting"
                    /\ AheadOf(queue, r) = {}
                    /\ \A s \in Requests : phase[s] = "queued" => Priority[r] <= Priority[s]
                 \/ /\ phase'[r] = "queued"
                    /\ \A s \in AheadOf(queue', r) \ AheadOf(queue, r) : Ahead(r, s)
<1>1. PoolInv /\ [Next]_vars => [ServedInOrder]_vars
  <2> SUFFICES ASSUME PoolInv, Next, NEW w \in Requests, phase[w] = "queued"
               PROVE  Handed(w) \/ Waits(w)
    BY DEF vars
  <2>0. /\ phase \in [Requests -> {"idle", "queued"} \cup InFlight \cup Settled]
        /\ queue \in Seq(Requests) /\ Enumerates(queue, Queued) /\ InOrder(queue)
        /\ Queued \in SUBSET Requests /\ w \in Queued
    BY DEF PoolInv, CapacityAccounted, TypeOK, QueueSound, Queued
  <2>1. ASSUME queue # <<>>, w = Head(queue), phase'[w] = "starting" PROVE Handed(w)
    <3>1. AheadOf(queue, w) = {}
      BY <2>0, <2>1, HeadIsFirst
    <3>2. \A s \in Queued : Priority[w] <= Priority[s]
      BY <2>0, <2>1, TailDrops
    <3> QED
      BY <2>1, <3>1, <3>2 DEF Queued
  <2>2. ASSUME NEW r \in Requests, NEW how, phase' = [phase EXCEPT ![r] = how],
               phase[r] # "queued", queue' = queue
        PROVE  Waits(w)
    BY <2>0, <2>2
  <2>3. ASSUME NEW r \in Requests, InvokeQueues(r) PROVE Waits(w)
    <3>1. Enqueue(queue, r, queue') /\ phase[r] = "idle" /\ phase' = [phase EXCEPT ![r] = "queued"]
      BY <2>3 DEF InvokeQueues, Settle
    <3>2. w # r /\ phase'[w] = "queued" /\ \A i \in 1..Len(queue) : queue[i] # r
      BY <2>0, <3>1 DEF Enumerates, Queued
    <3>3. \A s \in AheadOf(queue', w) : s \in AheadOf(queue, w) \/ Priority[s] < Priority[w]
      BY <2>0, <3>1, <3>2, EnqueueOvertakes
    <3> QED
      BY <3>2, <3>3
  <2>4. ASSUME NEW r \in Requests, InvokeRejected(r) \/ \E a \in Agents : InvokeRuns(r, a)
        PROVE  Waits(w)
    BY <2>2, <2>4 DEF InvokeRejected, InvokeRuns, Settle, RunOnSlot, poolVars
  <2>5. ASSUME queue # <<>>, w # Head(queue), queue' = Tail(queue), phase'[w] = "queued"
        PROVE  Waits(w)
    BY <2>0, <2>5, HeadIsFirst
  <2>6. ASSUME NEW r \in Requests, Progress(r) PROVE Handed(w) \/ Waits(w)
    <3>1. CASE HookStartDone(r) \/ AgentSucceeds(r) \/ RetryDelayOver(r)
      BY <2>2, <3>1 DEF HookStartDone, AgentSucceeds, RetryDelayOver, Settle, poolVars
    <3>2. CASE AgentFails(r)
      <4>1. \/ \E how : phase' = [phase EXCEPT ![r] = how]
            \/ UNCHANGED phase
        BY <3>2 DEF AgentFails, Settle
      <4>2. phase[r] # "queued" /\ queue' = queue
        BY <3>2 DEF AgentFails, poolVars
      <4> QED
        BY <2>2, <4>1, <4>2
    <3>3. ASSUME NEW how \in Settled, FinishIdle(r, how) PROVE Waits(w)
      BY <2>2, <3>3, FinishingRequest DEF FinishIdle, Release, InFlight
    <3>4. ASSUME NEW how \in Settled, FinishEvicts(r, how) PROVE Waits(w)
      <4> DEFINE n == Head(queue)
      <4>1. /\ phase[r] # "queued" /\ queue # <<>> /\ slotOf[r] \in pendingRemoval
            /\ slots' = slots \ {slotOf[r]}
        BY <3>4, FinishingRequest DEF FinishEvicts, InFlight, Evicts
      <4>2. slots' # slots
        BY <4>1 DEF PoolInv, CapacityAccounted, PendingSlotsAreBusy
      <4>3. phase'[w] = "queued" /\ Enqueue(Tail(queue), n, queue')
        BY <2>0, <3>4, <4>1, EvictionRequeues DEF Release
      <4>4. /\ n \in Queued /\ n \in Requests /\ Enumerates(Tail(queue), Queued \ {n})
            /\ \A s \in Queued : Priority[n] <= Priority[s]
        BY <2>0, <4>1, TailDrops
      <4>5. Tail(queue) \in Seq(Requests) /\ \A i \in 1..Len(Tail(queue)) : Tail(queue)[i] # n
        BY <4>4 DEF Enumerates
      <4>6. CASE w # n
        <5>1. ASSUME NEW s \in AheadOf(queue', w)
              PROVE  s \in AheadOf(Tail(queue), w) \/ s = n
          <6>1. \A q \in Seq(Requests) :
                  Enqueue(q, n, queue') /\ (\A i \in 1..Len(q) : q[i] # n) =>
                    s \in AheadOf(q, w) \/ s = n
            BY <4>4, <4>6, <5>1, EnqueueOvertakes
          <6> QED
            BY <4>3, <4>5, <6>1
        <5>2. n \in AheadOf(queue, w) /\ AheadOf(Tail(queue), w) \subseteq AheadOf(queue, w)
          BY <2>0, <4>1, <4>4, <4>6, HeadIsFirst
        <5> QED
          BY <4>3, <5>1, <5>2
      <4>7. CASE w = n
        <5>1. ASSUME NEW s \in AheadOf(queue', w) PROVE Ahead(w, s)
          <6>1. (\E i \in 1..Len(Tail(queue)) : Tail(queue)[i] = s) /\ Priority[s] <= Priority[n]
            BY <4>3, <4>4, <4>5, <4>7, EnqueueOvertakes
          <6>2. s \in Queued
            BY <4>4, <6>1 DEF Enumerates
          <6>3. phase[s] = "queued" /\ Priority[n] <= Priority[s]
            BY <4>4, <6>2 DEF Queued
          <6>4. Priority[s] \in Int /\ Priority[n] \in Int
            BY <2>0, <4>4, <6>2, AgentPoolAssumption
          <6> QED
            BY <4>2, <4>7, <6>1, <6>3, <6>4
        <5> QED
          BY <4>3, <5>1
      <4> QED
        BY <4>6, <4>7
    <3>5. ASSUME NEW how \in Settled, FinishHandsOver(r, how) PROVE Handed(w) \/ Waits(w)
      <4>1. /\ queue # <<>> /\ queue' = Tail(queue)
            /\ phase' = [[phase EXCEPT ![r] = how] EXCEPT ![Head(queue)] = "starting"]
        BY <3>5 DEF FinishHandsOver, Release
      <4>2. phase[r] # "queued"
        BY <3>5, FinishingRequest DEF FinishHandsOver, InFlight
      <4>3. w = Head(queue) => phase'[w] = "starting"
        BY <2>0, <4>1
      <4>4. w # Head(queue) => phase'[w] = "queued"
        BY <2>0, <4>1, <4>2
      <4> QED
        BY <2>1, <2>5, <4>1, <4>3, <4>4
    <3> QED
      BY <2>6, <3>1, <3>2, <3>3, <3>4, <3>5 DEF Progress, Finish
  <2>7. CASE Drain
    <3>1. CASE DrainEnds
      BY <3>1 DEF DrainEnds
    <3>2. ASSUME NEW a \in Agents, DrainStep(a) PROVE Handed(w) \/ Waits(w)
      <4>1. queue # <<>> /\ phase' = [phase EXCEPT ![Head(queue)] = "starting"] /\ queue' = Tail(queue)
        BY <3>2 DEF DrainStep, RunOnSlot
      <4>2. w = Head(queue) => phase'[w] = "starting"
        BY <2>0, <4>1
      <4>3. w # Head(queue) => phase'[w] = "queued"
        BY <2>0, <4>1
      <4> QED
        BY <2>1, <2>5, <4>1, <4>2, <4>3
    <3> QED
      BY <2>7, <3>1, <3>2 DEF Drain
  <2>8. CASE \E A \in SUBSET Agents : AddSlots(A)
    BY <2>8 DEF AddSlots
  <2>9. CASE \E A \in SUBSET Removable : RemoveSlots(A)
    BY <2>9 DEF RemoveSlots
  <2>10. CASE Dispose
    BY <2>10 DEF Dispose
  <2> QED
    BY <2>3, <2>4, <2>6, <2>7, <2>8, <2>9, <2>10 DEF Next
<1>2. Spec => [][ServedInOrder]_vars
  BY <1>1, PoolInitially, PoolStep, PTL DEF Spec
<1> QED
  BY <1>2 DEF QueuedRequestsServedInOrder

-----------------------------------------------------------------------------
(* The language server *)

Document == [file : Files, version : Nat]

(* The documents tracked are different files, they were told to the process *)
(* that is there, and none is left from the one before.                     *)
LspInv ==
  /\ LspTypeOK
  /\ \A i, j \in 1..Len(fileVersions) : fileVersions[i].file = fileVersions[j].file => i = j
  /\ Len(fileVersions) <= MaxTracked /\ Len(cache) <= MaxTracked
  /\ live <=> lspState \in {"connecting", "ready"}
  /\ lspState \in {"disconnected", "connecting"} => fileVersions = <<>>
  /\ lspState = "ready" =>
       \A i \in 1..Len(fileVersions) : server[fileVersions[i].file] = fileVersions[i].version

LEMMA EvictedFacts ==
  ASSUME NEW S, NEW s \in Seq(S), Len(s) <= MaxTracked
  PROVE  /\ Evicted(s) \in Seq(S) /\ Len(Evicted(s)) \in Nat /\ Len(Evicted(s)) < MaxTracked
         /\ \E d \in {0, 1} : /\ Len(Evicted(s)) = Len(s) - d
                              /\ \A i \in 1..Len(Evicted(s)) : Evicted(s)[i] = s[i + d]
<1>1. MaxTracked \in Nat \ {0} /\ Len(s) \in Nat
  BY LspAssumption
<1>2. CASE Len(s) >= MaxTracked
  <2>1. s # <<>>
    BY <1>1, <1>2
  <2>2. /\ Tail(s) \in Seq(S) /\ Len(Tail(s)) = Len(s) - 1
        /\ \A i \in 1..Len(Tail(s)) : Tail(s)[i] = s[i + 1]
    BY <2>1, HeadTailProperties
  <2> QED
    BY <1>1, <1>2, <2>2 DEF Evicted
<1>3. CASE ~(Len(s) >= MaxTracked)
  BY <1>1, <1>3 DEF Evicted
<1> QED
  BY <1>2, <1>3

(* What the client tracks, by position.                                     *)
LEMMA TrackedFacts ==
  ASSUME LspInv
  PROVE  /\ \A f \in Tracked : \E i \in 1..Len(fileVersions) :
              fileVersions[i].file = f /\ VersionOf(f) = fileVersions[i].version
         /\ \A i \in 1..Len(fileVersions) :
              fileVersions[i].file \in Tracked /\ fileVersions[i] \in Document
<1>1. fileVersions \in Seq(Document) /\ DOMAIN fileVersions = 1..Len(fileVersions)
  BY DEF LspInv, LspTypeOK, Document
<1>2. \A i \in 1..Len(fileVersions) : fileVersions[i] \in Document
  BY <1>1
<1>3. \A f \in Tracked : \E i \in 1..Len(fileVersions) :
              fileVersions[i].file = f /\ VersionOf(f) = fileVersions[i].version
  <2> TAKE f \in Tracked
  <2>1. PICK i \in 1..Len(fileVersions) : fileVersions[i].file = f
    BY <1>1 DEF Tracked
  <2>2. \A e \in ToSet(fileVersions) : e.file = f => e = fileVersions[i]
    BY <1>1, <2>1 DEF ToSet, LspInv
  <2>3. fileVersions[i] \in ToSet(fileVersions)
    BY <1>1 DEF ToSet
  <2>4. VersionOf(f) = fileVersions[i].version
    BY <2>1, <2>2, <2>3 DEF VersionOf
  <2> QED
    BY <2>1, <2>4
<1> QED
  BY <1>1, <1>2, <1>3 DEF Tracked

(* The server hears of a document exactly what the client tracks of it.     *)
LEMMA OpenOrChangeKeeps ==
  ASSUME LspInv, lspState = "ready", NEW f \in Files, OpenOrChange(f),
         UNCHANGED <<lspState, live, cache>>, lspTask' \in [Tasks -> {"idle", "answered", "failed"} \cup Waiting]
  PROVE  LspInv'
<1>1. /\ fileVersions \in Seq(Document) /\ DOMAIN fileVersions = 1..Len(fileVersions)
      /\ Len(fileVersions) \in Nat /\ server \in [Files -> Int]
      /\ \A i \in 1..Len(fileVersions) : /\ fileVersions[i] \in Document
                                         /\ fileVersions[i].file \in Tracked
                                         /\ server[fileVersions[i].file] = fileVersions[i].version
  BY TrackedFacts DEF LspInv, LspTypeOK, Document
<1>2. CASE f \in Tracked
  <2>1. fileVersions' = Raised(f) /\ server' = [server EXCEPT ![f] = VersionOf(f) + 1]
    BY <1>2 DEF OpenOrChange
  <2>2. PICK k \in 1..Len(fileVersions) :
          fileVersions[k].file = f /\ VersionOf(f) = fileVersions[k].version
    BY <1>2, TrackedFacts
  <2>3. \A i \in 1..Len(fileVersions) : (fileVersions[i].file = f) <=> (i = k)
    BY <2>2 DEF LspInv
  <2>4. \A i \in 1..Len(fileVersions) :
          /\ Raised(f)[i] \in Document /\ Raised(f)[i].file = fileVersions[i].file
          /\ Raised(f)[i].version = IF i = k THEN fileVersions[i].version + 1 ELSE fileVersions[i].version
    <3> TAKE i \in 1..Len(fileVersions)
    <3>1. fileVersions[i] \in Document
      BY <1>1
    <3>2. CASE i = k
      <4>1. Raised(f)[i] = [fileVersions[i] EXCEPT !.version = @ + 1]
        BY <1>1, <2>3, <3>2 DEF Raised
      <4> QED
        BY <3>1, <3>2, <4>1 DEF Document
    <3>3. CASE i # k
      <4>1. Raised(f)[i] = fileVersions[i]
        BY <1>1, <2>3, <3>3 DEF Raised
      <4> QED
        BY <3>1, <3>3, <4>1
    <3> QED
      BY <3>2, <3>3
  <2>5. Raised(f) \in [1..Len(fileVersions) -> Document]
    BY <1>1, <2>4 DEF Raised
  <2>6. Raised(f) \in Seq(Document) /\ Len(Raised(f)) = Len(fileVersions)
    BY <1>1, <2>5, SeqDef, LenProperties
  <2>7. server' \in [Files -> Int]
    BY <1>1, <2>1, <2>2 DEF Document
  <2>8. \A i \in 1..Len(fileVersions) : server'[Raised(f)[i].file] = Raised(f)[i].version
    <3> TAKE i \in 1..Len(fileVersions)
    <3>1. CASE i = k
      BY <1>1, <2>1, <2>2, <2>4, <3>1
    <3>2. CASE i # k
      <4>1. fileVersions[i].file # f
        BY <2>2, <3>2 DEF LspInv
      <4> QED
        BY <1>1, <2>1, <2>4, <3>2, <4>1
    <3> QED
      BY <3>1, <3>2
  <2>9. \A i, j \in 1..Len(fileVersions') : fileVersions'[i].file = fileVersions'[j].file => i = j
    BY <2>1, <2>4, <2>6 DEF LspInv
  <2> QED
    BY <2>1, <2>6, <2>7, <2>8, <2>9 DEF LspInv, LspTypeOK, Document
<1>3. CASE f \notin Tracked
  <2> DEFINE s == Evicted(fileVersions)
             new == [file |-> f, version |-> 0]
  <2>1. fileVersions' = Append(s, new) /\ server' = [server EXCEPT ![f] = 0]
    BY <1>3 DEF OpenOrChange
  <2>2. Len(fileVersions) <= MaxTracked
    BY DEF LspInv
  <2>3. s \in Seq(Document) /\ Len(s) \in Nat /\ Len(s) < MaxTracked
    BY <1>1, <2>2, EvictedFacts
  <2>4. PICK d \in {0, 1} : /\ Len(s) = Len(fileVersions) - d
                            /\ \A i \in 1..Len(s) : s[i] = fileVersions[i + d]
    BY <1>1, <2>2, EvictedFacts
  <2>5. new \in Document
    BY DEF Document
  <2> HIDE DEF s, new
  <2>6. /\ fileVersions' \in Seq(Document) /\ Len(fileVersions') = Len(s) + 1
        /\ \A i \in 1..Len(s) : fileVersions'[i] = s[i]
        /\ fileVersions'[Len(s) + 1] = new
    BY <2>1, <2>3, <2>5, AppendProperties
  <2>7. \A i \in 1..Len(s) :
          /\ i + d \in 1..Len(fileVersions) /\ fileVersions'[i] = fileVersions[i + d]
          /\ fileVersions'[i].file # f
    BY <1>1, <1>3, <2>3, <2>4, <2>6
  <2>8. \A i, j \in 1..Len(fileVersions') : fileVersions'[i].file = fileVersions'[j].file => i = j
    <3> TAKE i, j \in 1..Len(fileVersions')
    <3> HAVE fileVersions'[i].file = fileVersions'[j].file
    <3>1. CASE i \in 1..Len(s) /\ j \in 1..Len(s)
      <4>1. /\ i + d \in 1..Len(fileVersions) /\ j + d \in 1..Len(fileVersions)
            /\ fileVersions[i + d].file = fileVersions[j + d].file
        BY <2>7, <3>1
      <4>2. i + d = j + d
        BY <4>1 DEF LspInv
      <4> QED
        BY <2>3, <3>1, <4>2
    <3>2. CASE i = Len(s) + 1 /\ j \in 1..Len(s)
      BY <2>6, <2>7, <3>2 DEF new
    <3>3. CASE j = Len(s) + 1 /\ i \in 1..Len(s)
      BY <2>6, <2>7, <3>3 DEF new
    <3> QED
      BY <2>3, <2>6, <3>1, <3>2, <3>3
  <2>9. \A i \in 1..Len(fileVersions') : server'[fileVersions'[i].file] = fileVersions'[i].version
    <3> TAKE i \in 1..Len(fileVersions')
    <3>1. CASE i \in 1..Len(s)
      BY <1>1, <2>1, <2>7, <3>1
    <3>2. CASE i = Len(s) + 1
      BY <1>1, <2>1, <2>6, <3>2 DEF new
    <3> QED
      BY <2>3, <2>6, <3>1, <3>2
  <2>10. server' \in [Files -> Int] /\ Len(fileVersions') <= MaxTracked
    BY <1>1, <2>1, <2>3, <2>6, LspAssumption
  <2> QED
    BY <2>6, <2>8, <2>9, <2>10 DEF LspInv, LspTypeOK, Document
<1> QED
  BY <1>2, <1>3

(* The client keeps its documents in step with the server through starts,   *)
(* stops, the end of the process, changes, evictions and answers.           *)
LEMMA LspStep == LspInv /\ [LspNext]_lspVars => LspInv'
<1> SUFFICES ASSUME LspInv, [LspNext]_lspVars PROVE LspInv'
  OBVIOUS
<1> DEFINE Steps == {"idle", "answered", "failed"} \cup Waiting
<1>1. lspTask \in [Tasks -> Steps] /\ CallOf \in [Tasks -> [method : Methods, file : Files]]
  BY LspAssumption DEF LspInv, LspTypeOK
<1>2. ASSUME NEW K, NEW F, SettleTasks(K, F) PROVE lspTask' \in [Tasks -> Steps]
  BY <1>1, <1>2 DEF SettleTasks
<1>3. /\ <<>> \in Seq(Document) /\ <<>> \in Seq(Files) /\ Len(<<>>) = 0 /\ MaxTracked \in Nat
      /\ NoDocuments \in [Files -> Int]
  BY LspAssumption DEF NoDocuments
<1>4. CASE Initialized
  <2>1. lspTask' \in [Tasks -> Steps]
    BY <1>2, <1>4 DEF Initialized
  <2> QED
    BY <2>1, <1>4 DEF Initialized, LspInv, LspTypeOK, KeepsDocuments
<1>5. CASE InitializeFails
  <2>1. lspTask' \in [Tasks -> Steps]
    BY <1>2, <1>5 DEF InitializeFails, LetAllGo
  <2>2. /\ lspState' = "broken" /\ live' = FALSE /\ fileVersions' = <<>> /\ cache' = <<>>
        /\ server' = NoDocuments
    BY <1>5 DEF InitializeFails, Forget
  <2>3. LspTypeOK'
    BY <2>1, <2>2, <1>3 DEF LspTypeOK, Document
  <2> QED
    BY <2>2, <2>3, <1>3 DEF LspInv
<1>6. CASE Stop
  <2>1. lspTask' \in [Tasks -> Steps]
    BY <1>2, <1>6 DEF Stop, LetAllGo
  <2>2. /\ lspState' = "disconnected" /\ live' = FALSE /\ fileVersions' = <<>> /\ cache' = <<>>
        /\ server' = NoDocuments
    BY <1>6 DEF Stop, Forget
  <2>3. LspTypeOK'
    BY <2>1, <2>2, <1>3 DEF LspTypeOK, Document
  <2> QED
    BY <2>2, <2>3, <1>3 DEF LspInv
<1>7. CASE ProcessEnds
  <2>1. lspTask' \in [Tasks -> Steps]
    BY <1>2, <1>7 DEF ProcessEnds, LetAllGo
  <2> QED
    BY <2>1, <1>3, <1>7 DEF ProcessEnds, LspInv, LspTypeOK
<1>8. ASSUME NEW f \in Files, Publish(f) PROVE LspInv'
  <2>1. lspTask' \in [Tasks -> Steps]
    BY <1>1, <1>8 DEF Publish, Waiting
  <2>2. cache \in Seq(Files) /\ Len(cache) <= MaxTracked
    BY DEF LspInv, LspTypeOK
  <2>3. cache' \in Seq(Files) /\ Len(cache') <= MaxTracked
    <3>1. CASE f \in ToSet(cache)
      BY <1>8, <2>2, <3>1 DEF Publish
    <3>2. CASE f \notin ToSet(cache)
      <4>1. cache' = Append(Evicted(cache), f)
        BY <1>8, <3>2 DEF Publish
      <4>2. Evicted(cache) \in Seq(Files) /\ Len(Evicted(cache)) \in Nat /\ Len(Evicted(cache)) < MaxTracked
        BY <2>2, EvictedFacts
      <4>3. cache' \in Seq(Files) /\ Len(cache') = Len(Evicted(cache)) + 1
        BY <4>1, <4>2, AppendProperties
      <4> QED
        BY <1>3, <4>2, <4>3
    <3> QED
      BY <3>1, <3>2
  <2> QED
    BY <2>1, <2>3, <1>8 DEF Publish, LspInv, LspTypeOK
<1>9. ASSUME NEW k \in Tasks,
             StartAnswered(k) \/ StartSpawns(k) \/ Touch(k) \/ RequestMethod(k)
             \/ RequestEnds(k) \/ WaiterResolved(k)
      PROVE LspInv'
  <2>0. CallOf[k].file \in Files
    BY <1>1, LspAssumption
  <2>1. CASE StartAnswered(k)
    <3>1. lspTask' \in [Tasks -> Steps]
      BY <1>1, <2>1 DEF StartAnswered, Waiting, LspInv, LspTypeOK
    <3> QED
      BY <2>1, <3>1 DEF StartAnswered, KeepsDocuments, LspInv, LspTypeOK
  <2>2. CASE StartSpawns(k)
    <3>1. lspTask' \in [Tasks -> Steps]
      BY <1>1, <2>2 DEF StartSpawns, Waiting
    <3>2. fileVersions = <<>>
      BY <2>2 DEF StartSpawns, LspInv
    <3>3. CASE lspState' = "connecting"
      <4>1. live' = TRUE /\ server' = NoDocuments /\ UNCHANGED <<fileVersions, cache>>
        BY <2>2, <3>3 DEF StartSpawns
      <4> QED
        BY <1>3, <3>1, <3>2, <3>3, <4>1 DEF LspInv, LspTypeOK
    <3>4. CASE lspState' = "broken"
      <4>1. fileVersions' = <<>> /\ cache' = <<>> /\ live = FALSE /\ UNCHANGED <<live, server>>
        BY <2>2, <3>4 DEF StartSpawns, LspInv, LspTypeOK
      <4>2. LspTypeOK'
        BY <1>3, <3>1, <3>4, <4>1 DEF LspInv, LspTypeOK, Document
      <4> QED
        BY <1>3, <3>4, <4>1, <4>2 DEF LspInv
    <3> QED
      BY <2>2, <3>3, <3>4 DEF StartSpawns
  <2>3. CASE Touch(k)
    <3>1. lspTask' \in [Tasks -> Steps]
      BY <1>1, <2>3 DEF Touch, Waiting
    <3>2. CASE lspState = "ready" /\ OpenOrChange(CallOf[k].file)
      BY <2>0, <2>3, <3>1, <3>2, OpenOrChangeKeeps DEF Touch
    <3>3. CASE UNCHANGED <<fileVersions, server>>
      BY <2>3, <3>1, <3>3 DEF Touch, LspInv, LspTypeOK
    <3> QED
      BY <2>3, <3>2, <3>3 DEF Touch
  <2>4. CASE RequestMethod(k)
    <3>1. lspTask' \in [Tasks -> Steps]
      BY <1>1, <2>4 DEF RequestMethod, Sends, Waiting
    <3>2. CASE lspState = "ready" /\ OpenOrChange(CallOf[k].file)
      BY <2>0, <2>4, <3>1, <3>2, OpenOrChangeKeeps DEF RequestMethod
    <3>3. CASE UNCHANGED <<fileVersions, server>>
      BY <2>4, <3>1, <3>3 DEF RequestMethod, LspInv, LspTypeOK
    <3> QED
      BY <2>4, <3>2, <3>3 DEF RequestMethod
  <2>5. CASE RequestEnds(k)
    <3>1. lspTask' \in [Tasks -> Steps]
      BY <1>2, <2>5 DEF RequestEnds
    <3> QED
      BY <2>5, <3>1 DEF RequestEnds, KeepsDocuments, LspInv, LspTypeOK
  <2>6. CASE WaiterResolved(k)
    <3>1. lspTask' \in [Tasks -> Steps]
      BY <1>2, <2>6 DEF WaiterResolved
    <3> QED
      BY <2>6, <3>1 DEF WaiterResolved, KeepsDocuments, LspInv, LspTypeOK
  <2> QED
    BY <1>9, <2>1, <2>2, <2>3, <2>4, <2>5, <2>6
<1>10. CASE UNCHANGED lspVars
  BY <1>10 DEF lspVars, LspInv, LspTypeOK
<1> QED
  BY <1>4, <1>5, <1>6, <1>7, <1>8, <1>9, <1>10 DEF LspNext

LEMMA LspHolds == LspInv => DocumentsInStep
<1> SUFFICES ASSUME LspInv, lspState = "ready" PROVE
      live /\ Len(fileVersions) <= MaxTracked /\ Len(cache) <= MaxTracked
      /\ \A f \in Tracked : server[f] = VersionOf(f)
  BY DEF DocumentsInStep
<1>1. \A f \in Tracked : server[f] = VersionOf(f)
  BY TrackedFacts DEF LspInv
<1> QED
  BY <1>1 DEF LspInv

-----------------------------------------------------------------------------
(* The manager of the language servers *)

Client == [of : AllServers, state : {"starting", "ready", "failed", "over"}]
TouchState == [at : {"idle", "looking", "joined", "owner", "answered"},
          awaits : ClientId, left : Seq(AllServers), found : SUBSET ClientId]

(* No client has a number beyond the bound, and a caller that awaits a      *)
(* start still has the server it is for before it.                          *)
ManagerInv ==
  /\ ManagerTypeOK
  /\ Len(spawned) <= MaxSpawns
  /\ \A k \in Touches : touch[k].at \in {"joined", "owner"} => touch[k].left # <<>>

LEMMA ManagerStep == ManagerInv /\ [ManagerNext]_managerVars => ManagerInv'
<1> SUFFICES ASSUME ManagerInv, [ManagerNext]_managerVars PROVE ManagerInv'
  OBVIOUS
<1>1. /\ touch \in [Touches -> TouchState] /\ spawned \in Seq(Client) /\ Len(spawned) \in Nat
      /\ MaxSpawns \in Nat /\ \A k \in Touches : ServersOf[k] \in Seq(AllServers)
      /\ 1..Len(spawned) \subseteq ClientId /\ 0 \in ClientId
  BY ManagerAssumption DEF ManagerInv, ManagerTypeOK, TouchState, Client, ClientId
<1>2. ASSUME NEW k \in Touches, NEW t \in TouchState, Goes(k, t),
             t.at \in {"joined", "owner"} => t.left # <<>>,
             ManagerTypeOK /\ Len(spawned') <= MaxSpawns,
             registered' \in [AllServers -> ClientId], spawning' \in [AllServers -> ClientId],
             spawned' \in Seq(Client), UNCHANGED <<brokenServers, disabled>>
      PROVE ManagerInv'
  <2>1. touch' \in [Touches -> TouchState]
    BY <1>1, <1>2 DEF Goes
  <2>2. \A j \in Touches : touch'[j].at \in {"joined", "owner"} => touch'[j].left # <<>>
    BY <1>1, <1>2 DEF Goes, ManagerInv
  <2>3. ManagerTypeOK'
    BY <1>2, <2>1 DEF ManagerTypeOK, TouchState, Client
  <2> QED
    BY <1>2, <2>2, <2>3 DEF ManagerInv
<1>3. ASSUME NEW k \in Touches, touch[k].left # <<>>
      PROVE Tail(touch[k].left) \in Seq(AllServers)
  BY <1>1, <1>3, HeadTailProperties DEF TouchState
<1>4. /\ registered \in [AllServers -> ClientId] /\ spawning \in [AllServers -> ClientId]
      /\ ManagerTypeOK /\ Len(spawned) <= MaxSpawns
  BY DEF ManagerInv, ManagerTypeOK
<1>5. ASSUME NEW k \in Touches, Called(k) PROVE ManagerInv'
  <2> DEFINE t == [touch[k] EXCEPT !.at = IF disabled THEN "answered" ELSE "looking",
                              !.left = ServersOf[k]]
  <2>1. t \in TouchState /\ t.at \notin {"joined", "owner"}
    BY <1>1 DEF TouchState
  <2>2. Goes(k, t) /\ UNCHANGED <<registered, brokenServers, spawning, spawned, disabled>>
    BY <1>5 DEF Called
  <2> HIDE DEF t
  <2> QED
    BY <1>1, <1>2, <1>4, <2>1, <2>2
<1>6. ASSUME NEW k \in Touches, Served(k) PROVE ManagerInv'
  <2> DEFINE t == [touch[k] EXCEPT !.at = "answered"]
  <2>1. t \in TouchState /\ t.at \notin {"joined", "owner"}
    BY <1>1 DEF TouchState
  <2>2. Goes(k, t) /\ UNCHANGED <<registered, brokenServers, spawning, spawned, disabled>>
    BY <1>6 DEF Served
  <2> HIDE DEF t
  <2> QED
    BY <1>1, <1>2, <1>4, <2>1, <2>2
<1>7. ASSUME NEW k \in Touches, JoinedGoesOn(k) \/ OwnerGoesOn(k) PROVE ManagerInv'
  <2> DEFINE t == Found(k)
  <2>1. touch[k].left # <<>>
    BY <1>7 DEF JoinedGoesOn, OwnerGoesOn, ManagerInv
  <2>2. t \in TouchState /\ t.at \notin {"joined", "owner"}
    BY <1>1, <1>3, <2>1 DEF TouchState, Found, Advanced
  <2>3. Goes(k, t) /\ UNCHANGED <<registered, brokenServers, spawned, disabled>>
    BY <1>7 DEF JoinedGoesOn, OwnerGoesOn
  <2>4. spawning' \in [AllServers -> ClientId]
    BY <1>1, <1>4, <1>7 DEF JoinedGoesOn, OwnerGoesOn
  <2> HIDE DEF t
  <2> QED
    BY <1>1, <1>2, <1>4, <2>2, <2>3, <2>4
<1>8. ASSUME NEW k \in Touches, NEW s \in AllServers, PassesOrTakes(k, s) PROVE ManagerInv'
  <2> DEFINE t == [Advanced(k) EXCEPT !.found = IF s \in brokenServers THEN @ ELSE @ \cup {registered[s]}]
  <2>1. touch[k].left # <<>> /\ touch[k].at = "looking"
    BY <1>8 DEF PassesOrTakes, Looking
  <2>2. t \in TouchState /\ t.at \notin {"joined", "owner"}
    BY <1>1, <1>3, <1>4, <2>1 DEF TouchState, Advanced
  <2>3. Goes(k, t) /\ UNCHANGED <<registered, brokenServers, spawning, spawned, disabled>>
    BY <1>8 DEF PassesOrTakes
  <2> HIDE DEF t
  <2> QED
    BY <1>1, <1>2, <1>4, <2>2, <2>3
<1>9. ASSUME NEW k \in Touches, NEW s \in AllServers, Joins(k, s) PROVE ManagerInv'
  <2> DEFINE t == [touch[k] EXCEPT !.at = "joined", !.awaits = spawning[s]]
  <2>1. t \in TouchState /\ t.left # <<>>
    BY <1>1, <1>4, <1>9 DEF TouchState, Joins, Looking
  <2>2. Goes(k, t) /\ UNCHANGED <<registered, brokenServers, spawning, spawned, disabled>>
    BY <1>9 DEF Joins
  <2> HIDE DEF t
  <2> QED
    BY <1>1, <1>2, <1>4, <2>1, <2>2
<1>10. ASSUME NEW k \in Touches, NEW s \in AllServers, Spawns(k, s) PROVE ManagerInv'
  <2> DEFINE t == [touch[k] EXCEPT !.at = "owner", !.awaits = Len(spawned) + 1]
             new == [of |-> s, state |-> "starting"]
  <2>1. Len(spawned) < MaxSpawns /\ Len(spawned) + 1 \in ClientId /\ new \in Client
    BY <1>1, <1>10 DEF Spawns, ClientId, Client
  <2>2. t \in TouchState /\ t.left # <<>>
    BY <1>1, <1>10, <2>1 DEF TouchState, Spawns, Looking
  <2>3. /\ Goes(k, t) /\ UNCHANGED <<registered, brokenServers, disabled>>
        /\ spawned' = Append(spawned, new)
        /\ spawning' = [spawning EXCEPT ![s] = Len(spawned) + 1]
    BY <1>10 DEF Spawns
  <2> HIDE DEF t, new
  <2>4. spawned' \in Seq(Client) /\ Len(spawned') = Len(spawned) + 1
    BY <1>1, <2>1, <2>3, AppendProperties
  <2>5. spawning' \in [AllServers -> ClientId] /\ registered' \in [AllServers -> ClientId]
    BY <1>4, <2>1, <2>3
  <2>6. Len(spawned') <= MaxSpawns
    BY <1>1, <2>1, <2>4
  <2> QED
    BY <1>2, <1>4, <2>2, <2>3, <2>4, <2>5, <2>6
<1>11. ASSUME NEW c \in DOMAIN spawned, StartResolves(c) \/ ClientCrashes(c) PROVE ManagerInv'
  <2>1. c \in 1..Len(spawned) /\ spawned[c] \in Client /\ c \in ClientId
    BY <1>1
  <2>2. \A st \in {"ready", "failed", "over"} :
          [spawned EXCEPT ![c].state = st] \in Seq(Client)
          /\ Len([spawned EXCEPT ![c].state = st]) = Len(spawned)
    <3> TAKE st \in {"ready", "failed", "over"}
    <3>1. [spawned[c] EXCEPT !.state = st] \in Client
      BY <2>1 DEF Client
    <3> QED
      BY <1>1, <2>1, <3>1, ExceptSeq
  <2>3. spawned' \in Seq(Client) /\ Len(spawned') = Len(spawned)
    BY <1>11, <2>2 DEF StartResolves, ClientCrashes
  <2>4. registered' \in [AllServers -> ClientId] /\ brokenServers' \subseteq AllServers
    BY <1>11, <1>4, <2>1 DEF StartResolves, ClientCrashes, Client, ManagerTypeOK
  <2> QED
    BY <1>4, <1>11, <2>3, <2>4 DEF StartResolves, ClientCrashes, ManagerInv, ManagerTypeOK, Client
<1>12. CASE DisposeAll
  <2>1. disabled' \in BOOLEAN
    BY <1>4, <1>12 DEF DisposeAll, ManagerTypeOK
  <2>2. registered' \in [AllServers -> ClientId] /\ spawning' \in [AllServers -> ClientId]
    BY <1>1, <1>12 DEF DisposeAll, NoClients
  <2>3. DOMAIN spawned = 1..Len(spawned) /\ \A c \in 1..Len(spawned) : spawned[c] \in Client
    BY <1>1
  <2>4. spawned' \in [1..Len(spawned) -> Client]
    BY <1>12, <2>3 DEF DisposeAll, Client
  <2>5. spawned' \in Seq(Client) /\ Len(spawned') = Len(spawned)
    BY <1>1, <2>4, SeqDef, LenProperties
  <2> QED
    BY <1>4, <1>12, <2>1, <2>2, <2>5 DEF DisposeAll, ManagerInv, ManagerTypeOK, Client
<1>13. CASE UNCHANGED managerVars
  BY <1>13 DEF managerVars, ManagerInv, ManagerTypeOK, ClientId
<1> QED
  BY <1>5, <1>6, <1>7, <1>8, <1>9, <1>10, <1>11, <1>12, <1>13 DEF ManagerNext, Proceeds

-----------------------------------------------------------------------------
(* The external agents *)

(* What a run keeps of its output, and what it counts as dropped.           *)
Bounded(s) ==
  /\ s.kept <= MaxEvents /\ s.output <= MaxOutput
  /\ s.dropped > 0 => s.kept = MaxEvents

(* The watchdogs end with the process or before it; a run that is answered  *)
(* has given them up, and its process is gone or could not be killed.       *)
Guarded(s) ==
  /\ s.caller \in {"idle", "rejected"} => s.proc = "none" /\ ~s.settled
  /\ s.proc = "none" => s.watch = {} /\ s.caller # "running"
  /\ s.proc = "live" /\ ~s.settled => s.caller = "running"
  /\ s.proc \in {"exited", "closed"} => s.settled
  /\ s.settled => s.watch = {}
  /\ s.caller \in Finished => /\ s.settled \/ s.proc = "none"
                              /\ s.proc \in {"none", "closed"} \/ s.unkillable
  /\ s.caller = "completed" => s.proc = "closed" /\ s.zero /\ ~s.aborted

ExternalInv == ExternalTypeOK /\ \A r \in Runs : Bounded(run[r]) /\ Guarded(run[r])

(* Two states of a run that differ in what was written at most.             *)
SameControl(s, t) ==
  /\ t.caller = s.caller /\ t.proc = s.proc /\ t.watch = s.watch /\ t.settled = s.settled
  /\ t.aborted = s.aborted /\ t.killed = s.killed /\ t.unkillable = s.unkillable
  /\ t.held = s.held /\ t.zero = s.zero

LEMMA ForwardKeeps ==
  ASSUME NEW s \in RunState, Bounded(s), NEW n \in Nat, NEW chunks \in Nat
  PROVE  /\ Forward(s, n, chunks) \in RunState /\ Bounded(Forward(s, n, chunks))
         /\ SameControl(s, Forward(s, n, chunks))
<1> DEFINE room == MaxEvents - s.kept
           fit == IF n <= room THEN n ELSE room
           t == Forward(s, n, chunks)
<1>1. /\ s.kept \in Nat /\ s.dropped \in Nat /\ s.output \in Nat
      /\ MaxEvents \in Nat /\ MaxOutput \in Nat /\ s.kept <= MaxEvents
      /\ s.dropped > 0 => s.kept = MaxEvents
  BY ExternalAgentAssumption DEF RunState, Bounded
<1>2. fit \in Nat /\ n - fit \in Nat /\ s.kept + fit <= MaxEvents
      /\ (s.dropped + (n - fit) > 0 => s.kept + fit = MaxEvents)
  BY <1>1
<1>3. Capped(s.output, chunks) \in Nat /\ Capped(s.output, chunks) <= MaxOutput
  BY <1>1 DEF Capped
<1> DEFINE k == s.kept + fit
           d == s.dropped + (n - fit)
           c == Capped(s.output, chunks)
<1>4. t = [s EXCEPT !.kept = k, !.dropped = d, !.output = c]
  BY DEF Forward
<1>4a. k \in Nat /\ d \in Nat /\ c \in Nat
  BY <1>1, <1>2, <1>3
<1>4b. k <= MaxEvents /\ c <= MaxOutput /\ (d > 0 => k = MaxEvents)
  BY <1>2, <1>3
<1> HIDE DEF t, k, d, c, fit
<1>5. t \in RunState
  BY <1>4, <1>4a DEF RunState
<1>5a. SameControl(s, t) /\ t.kept = k /\ t.dropped = d /\ t.output = c
  BY <1>4 DEF RunState, SameControl
<1>6. Bounded(t)
  BY <1>4b, <1>5a DEF Bounded
<1> QED
  BY <1>5, <1>5a, <1>6 DEF t

LEMMA BecomeKeeps ==
  ASSUME ExternalInv, NEW r \in Runs, NEW t \in RunState, Bounded(t), Guarded(t), Become(r, t)
  PROVE  ExternalInv'
BY DEF ExternalInv, ExternalTypeOK, Become

(* Control is all that Guarded asks about.                                  *)
LEMMA ControlGuards ==
  ASSUME NEW s, NEW t, SameControl(s, t), Guarded(s) PROVE Guarded(t)
BY DEF SameControl, Guarded

LEMMA ExternalStep == ExternalInv /\ [ExternalNext]_externalVars => ExternalInv'
<1> SUFFICES ASSUME ExternalInv, [ExternalNext]_externalVars PROVE ExternalInv'
  OBVIOUS
<1>1. \A r \in Runs : run[r] \in RunState /\ Bounded(run[r]) /\ Guarded(run[r])
  BY DEF ExternalInv, ExternalTypeOK
<1>2. ASSUME NEW p \in Providers, Register(p) PROVE ExternalInv'
  BY <1>2 DEF Register, ExternalInv, ExternalTypeOK
<1>3. CASE CreateHost
  BY <1>3 DEF CreateHost, ExternalInv, ExternalTypeOK
<1>4. ASSUME NEW r \in Runs, RunRejected(r) \/ RunRefused(r) PROVE ExternalInv'
  <2>1. run[r].caller = "idle"
    BY <1>4 DEF RunRejected, RunRefused
  <2>2. PICK c \in {"rejected", "cancelled", "failed"} : Become(r, [run[r] EXCEPT !.caller = c])
    BY <1>4 DEF RunRejected, RunRefused
  <2>3. [run[r] EXCEPT !.caller = c] \in RunState
    BY <1>1 DEF RunState, Finished
  <2>4. Bounded([run[r] EXCEPT !.caller = c]) /\ Guarded([run[r] EXCEPT !.caller = c])
    BY <1>1, <2>1 DEF RunState, Bounded, Guarded, Finished
  <2> QED
    BY <2>2, <2>3, <2>4, BecomeKeeps
<1>5. ASSUME NEW r \in Runs, Spawn(r) PROVE ExternalInv'
  <2>1. PICK w \in SUBSET Watchdogs :
          Become(r, [run[r] EXCEPT !.caller = "running", !.proc = "live", !.watch = w])
    <3> DEFINE w == (IF run[r].aborted THEN {} ELSE {"abort"})
                 \cup (IF RequestOf[r].timeout THEN {"timeout"} ELSE {})
                 \cup (IF RequestOf[r].idle THEN {"idle"} ELSE {})
    <3>1. w \in SUBSET Watchdogs
      BY DEF Watchdogs
    <3>2. Become(r, [run[r] EXCEPT !.caller = "running", !.proc = "live", !.watch = w])
      BY <1>5 DEF Spawn
    <3> QED
      BY <3>1, <3>2
  <2>2. run[r].caller = "idle"
    BY <1>5 DEF Spawn
  <2> DEFINE t == [run[r] EXCEPT !.caller = "running", !.proc = "live", !.watch = w]
  <2>3. t \in RunState
    BY <1>1 DEF RunState
  <2>4. Bounded(t) /\ Guarded(t)
    BY <1>1, <2>2 DEF RunState, Bounded, Guarded, Finished
  <2> HIDE DEF t
  <2>5. Become(r, t)
    BY <2>1 DEF t
  <2> QED
    BY <2>3, <2>4, <2>5, BecomeKeeps
<1>6. ASSUME NEW r \in Runs, run[r].proc \in {"live", "exited"}, run[r].lines < MaxLines,
             NEW n \in Nat, NEW out \in Nat,
             Become(r, Forward(ResetIdle([run[r] EXCEPT !.lines = @ + 1], r), n, out))
      PROVE ExternalInv'
  <2> DEFINE s == [run[r] EXCEPT !.lines = @ + 1]
             u == ResetIdle(s, r)
  <2>1. /\ s \in RunState /\ Bounded(s) /\ SameControl(run[r], s)
    BY <1>1, <1>6, ExternalAgentAssumption DEF RunState, Bounded, SameControl
  <2>2. Guarded(s) /\ s.proc \in {"live", "exited"}
    BY <1>1, <1>6, <2>1, ControlGuards DEF SameControl
  <2> HIDE DEF s
  <2>3. u \in RunState /\ Bounded(u)
    BY <2>1 DEF ResetIdle, RunState, Bounded, Watchdogs
  <2>4. Guarded(u)
    BY <2>1, <2>2 DEF ResetIdle, RunState, Guarded, Finished
  <2> HIDE DEF u
  <2>5. /\ Forward(u, n, out) \in RunState /\ Bounded(Forward(u, n, out))
        /\ SameControl(u, Forward(u, n, out))
    BY <1>6, <2>3, ForwardKeeps
  <2>6. Guarded(Forward(u, n, out))
    BY <2>4, <2>5, ControlGuards
  <2>7. Become(r, Forward(u, n, out))
    BY <1>6 DEF s, u
  <2> QED
    BY <2>5, <2>6, <2>7, BecomeKeeps
<1>7. ASSUME NEW r \in Runs, StderrLine(r) \/ \E l \in Lines : StdoutLine(r, l) PROVE ExternalInv'
  <2>1. CASE StderrLine(r)
    BY <1>6, <2>1 DEF StderrLine
  <2>2. ASSUME NEW l \in Lines, StdoutLine(r, l) PROVE ExternalInv'
    BY <1>6, <2>2 DEF StdoutLine
  <2> QED
    BY <1>7, <2>1, <2>2
(* One event, kill() and a watchdog less.                                   *)
<1>8. ASSUME NEW r \in Runs, NEW w \in Watchdogs, w \in run[r].watch, NEW b \in BOOLEAN,
             b => run[r].caller \in {"idle", "running"},
             Become(r, Kill(Forward([run[r] EXCEPT !.aborted = b \/ @, !.watch = @ \ {w}], 1, 0)))
      PROVE ExternalInv'
  <2> DEFINE s == [run[r] EXCEPT !.aborted = b \/ @, !.watch = @ \ {w}]
             u == Forward(s, 1, 0)
  <2>1. s \in RunState /\ Bounded(s)
    BY <1>1, <1>8 DEF RunState, Bounded
  <2>2. Guarded(s)
    BY <1>1, <1>8 DEF RunState, Guarded, Finished
  <2> HIDE DEF s
  <2>3. u \in RunState /\ Bounded(u) /\ SameControl(s, u)
    BY <2>1, ForwardKeeps
  <2>4. Guarded(u)
    BY <2>2, <2>3, ControlGuards
  <2> HIDE DEF u
  <2>5. Kill(u) \in RunState /\ Bounded(Kill(u)) /\ Guarded(Kill(u))
    <3> DEFINE t == [u EXCEPT !.killed = TRUE]
    <3>1. Kill(u) \in {u, t}
      BY DEF Kill
    <3>2. t \in RunState /\ Bounded(t)
      BY <2>3 DEF RunState, Bounded
    <3>3. Guarded(t)
      BY <2>3, <2>4 DEF RunState, Guarded, Finished
    <3> QED
      BY <2>3, <2>4, <3>1, <3>2, <3>3
  <2>6. Become(r, Kill(u))
    BY <1>8 DEF s, u
  <2> QED
    BY <2>5, <2>6, BecomeKeeps
<1>9. ASSUME NEW r \in Runs, NEW w \in Watchdogs, Timeout(r, w) PROVE ExternalInv'
  <2>1. [run[r] EXCEPT !.aborted = FALSE \/ @, !.watch = @ \ {w}] = [run[r] EXCEPT !.watch = @ \ {w}]
    BY <1>1 DEF RunState
  <2>2. w \in run[r].watch /\ Become(r, Kill(Forward([run[r] EXCEPT !.watch = @ \ {w}], 1, 0)))
    BY <1>9 DEF Timeout
  <2> QED
    BY <1>8, <2>1, <2>2
<1>10. ASSUME NEW r \in Runs, Abort(r) PROVE ExternalInv'
  <2> DEFINE s == [run[r] EXCEPT !.aborted = TRUE]
  <2>1. run[r].caller \in {"idle", "running"}
    BY <1>10 DEF Abort
  <2>2. s \in RunState /\ Bounded(s) /\ Guarded(s) /\ s.watch = run[r].watch
    BY <1>1, <2>1 DEF RunState, Bounded, Guarded, Finished
  <2>3. CASE "abort" \in s.watch
    <3>1. Become(r, Kill(Forward([s EXCEPT !.watch = @ \ {"abort"}], 1, 0)))
      BY <1>10, <2>3 DEF Abort
    <3>2. [s EXCEPT !.watch = @ \ {"abort"}]
          = [run[r] EXCEPT !.aborted = TRUE \/ @, !.watch = @ \ {"abort"}]
      BY <1>1 DEF RunState
    <3> QED
      BY <1>8, <2>1, <2>2, <2>3, <3>1, <3>2 DEF Watchdogs
  <2>4. CASE "abort" \notin s.watch
    <3>1. Become(r, s)
      BY <1>10, <2>4 DEF Abort
    <3> QED
      BY <2>2, <3>1, BecomeKeeps
  <2> QED
    BY <2>3, <2>4
<1>11. ASSUME NEW r \in Runs, Exit(r) PROVE ExternalInv'
  <2>1. PICK zero \in BOOLEAN, held \in BOOLEAN :
          Become(r, Disarmed([run[r] EXCEPT !.proc = "exited", !.zero = zero, !.held = held]))
    BY <1>11 DEF Exit
  <2> DEFINE t == Disarmed([run[r] EXCEPT !.proc = "exited", !.zero = zero, !.held = held])
  <2>2. t \in RunState /\ Bounded(t)
    BY <1>1 DEF Disarmed, RunState, Bounded
  <2>3. Guarded(t)
    BY <1>1, <1>11 DEF Exit, Disarmed, RunState, Guarded, Finished
  <2> HIDE DEF t
  <2>4. Become(r, t)
    BY <2>1 DEF t
  <2> QED
    BY <2>2, <2>3, <2>4, BecomeKeeps
<1>12. ASSUME NEW r \in Runs, LetGo(r) PROVE ExternalInv'
  <2> DEFINE t == [run[r] EXCEPT !.held = FALSE]
  <2>1. t \in RunState /\ Bounded(t) /\ Guarded(t)
    BY <1>1 DEF RunState, Bounded, Guarded, Finished
  <2>2. Become(r, t)
    BY <1>12 DEF LetGo
  <2> QED
    BY <2>1, <2>2, BecomeKeeps
<1>13. ASSUME NEW r \in Runs, Close(r) PROVE ExternalInv'
  <2> DEFINE c == IF run[r].caller = "running" THEN StatusAtClose(run[r]) ELSE run[r].caller
             t == [run[r] EXCEPT !.proc = "closed", !.caller = c]
  <2>1. run[r].proc = "exited"
    BY <1>13 DEF Close
  <2>2. t \in RunState /\ Bounded(t)
    BY <1>1 DEF RunState, Bounded, StatusAtClose, Finished
  <2>3. Guarded(t)
    BY <1>1, <2>1 DEF RunState, Guarded, StatusAtClose, Finished
  <2>4. Become(r, t)
    BY <1>13 DEF Close
  <2> QED
    BY <2>2, <2>3, <2>4, BecomeKeeps
<1>14. ASSUME NEW r \in Runs, SpawnFails(r) \/ KillFails(r) PROVE ExternalInv'
  <2> DEFINE s == Disarmed(run[r])
             u == Forward(s, 1, 0)
  <2>1. s \in RunState /\ Bounded(s)
    BY <1>1 DEF RunState, Bounded, Disarmed
  <2>2. s.settled /\ s.watch = {} /\ s.proc = "live"
    BY <1>1, <1>14 DEF SpawnFails, KillFails, Disarmed, RunState
  <2> HIDE DEF s
  <2>3. u \in RunState /\ Bounded(u) /\ SameControl(s, u)
    BY <2>1, ForwardKeeps
  <2> HIDE DEF u
  <2>4. CASE SpawnFails(r)
    <3> DEFINE t == [u EXCEPT !.proc = "closed", !.caller = "failed"]
    <3>1. Become(r, t)
      BY <2>4 DEF SpawnFails, s, u
    <3>2. t \in RunState /\ Bounded(t)
      BY <2>3 DEF RunState, Bounded, Finished
    <3>3. Guarded(t)
      BY <2>2, <2>3 DEF RunState, Guarded, Finished, SameControl
    <3> QED
      BY <3>1, <3>2, <3>3, BecomeKeeps
  <2>5. CASE KillFails(r)
    <3> DEFINE t == [u EXCEPT !.unkillable = TRUE, !.caller = "failed"]
    <3>1. Become(r, t)
      BY <2>5 DEF KillFails, s, u
    <3>2. t \in RunState /\ Bounded(t)
      BY <2>3 DEF RunState, Bounded, Finished
    <3>3. Guarded(t)
      BY <2>2, <2>3 DEF RunState, Guarded, Finished, SameControl
    <3> QED
      BY <3>1, <3>2, <3>3, BecomeKeeps
  <2> QED
    BY <1>14, <2>4, <2>5
<1>15. CASE UNCHANGED externalVars
  BY <1>15 DEF externalVars, ExternalInv, ExternalTypeOK
<1> QED
  BY <1>2, <1>3, <1>4, <1>5, <1>7, <1>9, <1>10, <1>11, <1>12, <1>13, <1>14, <1>15
     DEF ExternalNext, Driver

LEMMA ExternalHolds == ExternalInv => ExternalTypeOK /\ AnsweredRunsAreOver /\ OutputBounded
<1> SUFFICES ASSUME ExternalInv PROVE AnsweredRunsAreOver /\ OutputBounded
  BY DEF ExternalInv
<1>1. \A r \in Runs : Bounded(run[r]) /\ Guarded(run[r])
  BY DEF ExternalInv
<1>2. AnsweredRunsAreOver
  BY <1>1 DEF AnsweredRunsAreOver, Guarded
<1> QED
  BY <1>1, <1>2 DEF OutputBounded, Bounded

-----------------------------------------------------------------------------
(* The MCP server *)

(* An attempt is what is "connecting"; one that gave up or was disconnected *)
(* leaves no process.                                                       *)
McpInv ==
  /\ McpTypeOK /\ nextId \in Nat
  /\ orphans = 0
  /\ mcpState = "connecting" => connector.await # "none"
  /\ mcpState \in {"disconnected", "error"} => proc # "live"

LEMMA McpStep == McpInv /\ [McpNext]_mcpVars => McpInv'
<1> SUFFICES ASSUME McpInv, [McpNext]_mcpVars PROVE McpInv'
  OBVIOUS
<1> DEFINE Statuses == {"idle", "pending", "answered", "failed"}
           Conn == [await : Await, got : Outcome]
           Refresh == [on : BOOLEAN, got : Outcome, version : 0..MaxChanges]
<1>1. /\ MaxChanges \in Nat /\ MaxAsks \in Nat /\ 0 \in 0..MaxChanges /\ nextId \in Nat
      /\ connector \in Conn /\ refresh \in Refresh /\ mcpTask \in [McpTasks -> Statuses]
      /\ pipe \in Seq(Message)
      /\ pending \subseteq PendingRequest /\ inbox \subseteq PendingRequest
      /\ Owners \subseteq Owner
  BY McpAssumption DEF McpInv, McpTypeOK, Owners, PendingRequest
<1>2. /\ <<>> \in Seq(Message) /\ {} \subseteq PendingRequest
      /\ NoConnector \in Conn /\ NoRefresh \in Refresh
      /\ [NoRefresh EXCEPT !.on = TRUE] \in Refresh
  <2>1. NoConnector \in Conn
    BY DEF NoConnector, Await, Outcome
  <2>2. NoRefresh \in Refresh
    BY <1>1 DEF NoRefresh, Outcome
  <2>3. [NoRefresh EXCEPT !.on = TRUE] \in Refresh
    BY <2>2
  <2> QED
    BY <2>1, <2>2, <2>3
<1>3. ASSUME NEW K, NEW out \in Statuses, Settles(K, out) PROVE mcpTask' \in [McpTasks -> Statuses]
  BY <1>1, <1>3 DEF Settles
<1>4. ASSUME NEW o \in Owner, Send(o)
      PROVE  nextId' \in Nat /\ pending' \subseteq PendingRequest /\ inbox' \subseteq PendingRequest
  BY <1>1, <1>4 DEF Send, PendingRequest
<1>5. ASSUME NEW K, NEW out \in {"result", "error"}, NEW v \in 0..MaxChanges, HandOver(K, out, v)
      PROVE  connector' \in Conn /\ connector'.await = connector.await /\ refresh' \in Refresh
  BY <1>1, <1>5 DEF HandOver, Outcome
<1>6. ASSUME NEW m \in Message PROVE Append(pipe, m) \in Seq(Message)
  BY <1>1, AppendProperties
<1>7. ASSUME NEW k \in Connects, ConnectStarts(k) PROVE McpInv'
  <2>1. mcpTask' \in [McpTasks -> Statuses]
    BY <1>3, <1>7 DEF ConnectStarts
  <2>2. proc # "live"
    BY <1>7 DEF ConnectStarts, McpInv, McpTypeOK
  <2>3. PICK b \in BOOLEAN :
          /\ connected' = b
          /\ proc' = IF b THEN "live" ELSE "none"
          /\ connector' = [await |-> "start", got |-> IF b THEN "result" ELSE "error"]
    BY <1>7 DEF ConnectStarts
  <2>4. connector' \in Conn /\ connector'.await # "none" /\ connected' \in BOOLEAN /\ proc' \in {"live", "none"}
    BY <2>3 DEF Await, Outcome
  <2> QED
    BY <1>1, <1>2, <1>7, <2>1, <2>2, <2>4 DEF ConnectStarts, McpInv, McpTypeOK
<1>8. ASSUME NEW k \in Connects, ConnectJoins(k) PROVE McpInv'
  <2>1. mcpTask' \in [McpTasks -> Statuses]
    BY <1>3, <1>8 DEF ConnectJoins
  <2> QED
    BY <1>8, <2>1 DEF ConnectJoins, McpInv, McpTypeOK
<1>9. ASSUME NEW k \in Calls, CallTool(k) PROVE McpInv'
  <2>1. mcpTask' \in [McpTasks -> Statuses]
    BY <1>3, <1>9 DEF CallTool
  <2>2. nextId' \in Nat /\ pending' \subseteq PendingRequest /\ inbox' \subseteq PendingRequest
    BY <1>1, <1>4, <1>9 DEF CallTool, NoSend, Owner
  <2> QED
    BY <1>9, <2>1, <2>2 DEF CallTool, McpInv, McpTypeOK
<1>10. CASE Disconnect
  <2>1. mcpTask' \in [McpTasks -> Statuses]
    BY <1>3, <1>10 DEF Disconnect, RejectAll
  <2>2. connector' \in Conn /\ refresh' \in Refresh
    BY <1>1, <1>5, <1>10 DEF Disconnect, RejectAll
  <2>3. proc' \in {"none", "gone"}
    BY <1>10 DEF Disconnect, McpInv, McpTypeOK
  <2> QED
    BY <1>1, <1>2, <1>10, <2>1, <2>2, <2>3 DEF Disconnect, RejectAll, McpInv, McpTypeOK
<1>11. CASE ConnectorFails
  <2>1. mcpTask' \in [McpTasks -> Statuses]
    BY <1>3, <1>11 DEF ConnectorFails
  <2>2. refresh' \in Refresh
    BY <1>1, <1>11 DEF ConnectorFails, Outcome
  <2>3. /\ mcpState' \in {"disconnected", "error"} /\ proc' \in {"none", "gone"}
        /\ connected' \in BOOLEAN
    BY <1>11 DEF ConnectorFails, CleanUp, McpInv, McpTypeOK
  <2> QED
    BY <1>1, <1>2, <1>11, <2>1, <2>2, <2>3 DEF ConnectorFails, McpInv, McpTypeOK
<1>12. CASE ConnectorAbandoned
  <2>1. mcpTask' \in [McpTasks -> Statuses] /\ connector' \in Conn
    BY <1>2, <1>3, <1>12 DEF ConnectorAbandoned, ConnectorEnds
  <2> QED
    BY <1>12, <2>1 DEF ConnectorAbandoned, McpInv, McpTypeOK
<1>13. CASE ConnectorStarted
  <2>1. connector' \in Conn /\ connector'.await # "none"
    BY <1>13 DEF ConnectorStarted, Await, Outcome
  <2>2. nextId' \in Nat /\ pending' \subseteq PendingRequest /\ inbox' \subseteq PendingRequest
    BY <1>4, <1>13 DEF ConnectorStarted, Owner
  <2> QED
    BY <1>13, <2>1, <2>2 DEF ConnectorStarted, McpInv, McpTypeOK
<1>14. CASE ConnectorInitialized
  <2>1. connector' \in Conn /\ connector'.await # "none"
    BY <1>14 DEF ConnectorInitialized, Await, Outcome
  <2>2. /\ nextId' \in Nat /\ pending' \subseteq PendingRequest /\ inbox' \subseteq PendingRequest
        /\ refresh' \in Refresh
    BY <1>1, <1>2, <1>4, <1>14 DEF ConnectorInitialized, NoSend, Owner
  <2> QED
    BY <1>14, <2>1, <2>2 DEF ConnectorInitialized, McpInv, McpTypeOK
<1>15. CASE ConnectorListed
  <2>1. mcpTask' \in [McpTasks -> Statuses] /\ connector' \in Conn
    BY <1>2, <1>3, <1>15 DEF ConnectorListed, ConnectorEnds
  <2> QED
    BY <1>15, <2>1 DEF ConnectorListed, McpInv, McpTypeOK
<1>16. CASE RefreshEnds
  <2>1. connector' \in Conn /\ connector'.await = connector.await
    BY <1>1, <1>16 DEF RefreshEnds
  <2>2. tools' \in 0..MaxChanges /\ refresh' \in Refresh
    BY <1>1, <1>2, <1>16 DEF RefreshEnds, McpInv, McpTypeOK
  <2> QED
    BY <1>16, <2>1, <2>2 DEF RefreshEnds, McpInv, McpTypeOK
<1>17. CASE ToolsChange
  <2>1. pipe' \in Seq(Message)
    BY <1>6, <1>17 DEF ToolsChange, Message
  <2>2. serverTools' \in 0..MaxChanges
    BY <1>1, <1>17 DEF ToolsChange, McpInv, McpTypeOK
  <2> QED
    BY <1>17, <2>1, <2>2 DEF ToolsChange, McpInv, McpTypeOK
<1>18. CASE ServerAsks
  <2>1. asks' \in 0..MaxAsks /\ asks + 1 \in Nat
    BY <1>1, <1>18 DEF ServerAsks, McpInv, McpTypeOK
  <2>2. pipe' \in Seq(Message)
    BY <1>6, <1>18, <2>1 DEF ServerAsks, Message
  <2> QED
    BY <1>18, <2>1, <2>2 DEF ServerAsks, McpInv, McpTypeOK
<1>19. ASSUME NEW q \in inbox, NEW ok \in BOOLEAN, Answer(q, ok) PROVE McpInv'
  <2>1. [kind |-> "response", id |-> q.id, of |-> q.of, ok |-> ok, version |-> serverTools] \in Message
    BY <1>1 DEF PendingRequest, Message, McpInv, McpTypeOK
  <2>2. pipe' \in Seq(Message) /\ inbox' \subseteq PendingRequest
    BY <1>1, <1>6, <1>19, <2>1 DEF Answer
  <2> QED
    BY <1>19, <2>2 DEF Answer, McpInv, McpTypeOK
<1>20. CASE Receive
  <2> DEFINE m == Head(pipe)
  <2>1. m \in Message /\ pipe' \in Seq(Message)
    BY <1>1, <1>20, HeadTailProperties DEF Receive
  <2>2. CASE HandleListChanged
    <3>1. /\ nextId' \in Nat /\ pending' \subseteq PendingRequest /\ inbox' \subseteq PendingRequest
          /\ refresh' \in Refresh /\ UNCHANGED <<connector, mcpTask>>
      BY <1>1, <1>2, <1>4, <2>2 DEF HandleListChanged, NoSend, Owner
    <3> QED
      BY <1>20, <2>1, <3>1 DEF Receive, McpInv, McpTypeOK
  <2>3. CASE m.kind # "list_changed" /\ HandleResponse(m)
    <3> DEFINE hit == {q \in pending : q.id = m.id}
               owners == {q.of : q \in hit}
               fine == m.kind = "response" /\ m.ok
               out == IF fine \/ (m.kind = "request" /\ "refresh" \in owners) THEN "result" ELSE "error"
               v == IF m.kind = "response" THEN m.version ELSE 0
    <3>1. v \in 0..MaxChanges /\ out \in {"result", "error"}
      BY <1>1, <2>1 DEF Message
    <3>2. HandOver(owners, out, v) /\ Settles(owners \cap Calls, "answered")
          /\ pending' = pending \ hit /\ UNCHANGED <<nextId, inbox>>
      BY <2>3 DEF HandleResponse
    <3>3. /\ connector' \in Conn /\ connector'.await = connector.await /\ refresh' \in Refresh
          /\ mcpTask' \in [McpTasks -> Statuses]
      BY <1>3, <1>5, <3>1, <3>2
    <3> QED
      BY <1>1, <1>20, <2>1, <3>2, <3>3 DEF Receive, McpInv, McpTypeOK
  <2> QED
    BY <1>20, <2>2, <2>3 DEF Receive
<1>21. ASSUME NEW q \in pending, RequestFails(q) PROVE McpInv'
  <2>1. mcpTask' \in [McpTasks -> Statuses]
    BY <1>3, <1>21 DEF RequestFails
  <2>2. connector' \in Conn /\ connector'.await = connector.await /\ refresh' \in Refresh
    BY <1>1, <1>5, <1>21 DEF RequestFails
  <2> QED
    BY <1>1, <1>21, <2>1, <2>2 DEF RequestFails, McpInv, McpTypeOK
<1>22. CASE ServerEnds
  <2>1. mcpTask' \in [McpTasks -> Statuses]
    BY <1>3, <1>22 DEF ServerEnds, RejectAll
  <2>2. connector' \in Conn /\ connector'.await = connector.await /\ refresh' \in Refresh
    BY <1>1, <1>5, <1>22 DEF ServerEnds, RejectAll
  <2> QED
    BY <1>1, <1>2, <1>22, <2>1, <2>2 DEF ServerEnds, RejectAll, McpInv, McpTypeOK
<1>23. CASE UNCHANGED mcpVars
  BY <1>23 DEF mcpVars, McpInv, McpTypeOK
<1> QED
  BY <1>7, <1>8, <1>9, <1>10, <1>11, <1>12, <1>13, <1>14, <1>15, <1>16, <1>17, <1>18, <1>19,
     <1>20, <1>21, <1>22, <1>23 DEF McpNext, Continue

LEMMA McpHolds == McpInv => McpTypeOK /\ NoServerLeftRunning
BY DEF McpInv, NoServerLeftRunning

-----------------------------------------------------------------------------
(* The remote agent *)

EventRec == [kind : {"text", "completed", "done", "error"}, chunk : Nat]
Piece == [half : {"text", "end"}, event : EventRec]

(* A sequence of pieces that is these events, each with its two pieces.     *)
Carries(pieces, events) ==
  /\ pieces \in Seq(Piece) /\ Len(pieces) = 2 * Len(events)
  /\ \A i \in 1..Len(events) : /\ pieces[2 * i - 1] = [half |-> "text", event |-> events[i]]
                               /\ pieces[2 * i] = [half |-> "end", event |-> events[i]]

(* Events on their way to a caller that has g of the n chunks the handler   *)
(* said: t chunks, which are the next ones, and then only what ends the     *)
(* stream.  All that was said is there while the handler works (busy), and  *)
(* [DONE] is sent when it is done and nothing was lost.                     *)
OnTheWay(all, t, g, n, busy, done) ==
  /\ t \in 0..Len(all) /\ g + t <= n
  /\ \A i \in 1..t : all[i] = Event("text", g + i)
  /\ \A i \in (t + 1)..Len(all) : all[i].kind # "text"
  /\ \A i \in 1..Len(all) : all[i].kind = "done" => done /\ g + t = n
  /\ busy => t = Len(all) /\ g + t = n

Streaming == handler = "running" /\ Streams
Done == handler = "done"

UnderWay ==
  \E events \in Seq(EventRec), t \in Nat :
    /\ Carries(buffer \o socket, events)
    /\ OnTheWay(events \o enqueued, t, Len(got), Len(said), Streaming, Done)
    /\ events \o enqueued # <<>> => answer = "stream"

(* Chunks are numbered in the order in which the handler says them.         *)
Numbered(chunks) == chunks \in Seq(Nat) /\ \A i \in 1..Len(chunks) : chunks[i] = i

RemoteTyped ==
  /\ ask = <<>> \/ \E task \in Asks : ask = <<task>>
  /\ handler \in {"idle", "running", "done", "threw"}
  /\ answer \in {"none", "too large", "unauthorized", "error", "stream", "result"}
  /\ enqueued \in Seq(EventRec) /\ socket \in Seq(Piece) /\ buffer \in Seq(Piece)
  /\ Numbered(said) /\ Numbered(got)

(* What the answer says of the handler, and the client of the answer.       *)
Answered ==
  /\ ask = <<>> <=> client = "idle"
  /\ ask = <<>> => handler = "idle" /\ answer = "none"
  /\ handler = "idle" => answer # "stream" /\ said = <<>> /\ got = <<>>
  /\ answer = "stream" => Streams
  /\ handler = "running" /\ Streams /\ (Task.generator \/ said # <<>>) => answer = "stream"
  /\ answer = "too large" => ~Task.fits
  /\ answer = "unauthorized" => ~Task.authorised
  /\ answer = "result" => ~Streams /\ handler = "done"
  /\ answer = "error" /\ ~Streams => handler = "threw"
  /\ client = "reading" => answer = "stream"
  /\ client \in {"returned", "completed"} => handler = "done" /\ got = said
  /\ client = "threw" => \/ Task.timed \/ ~Task.fits \/ ~Task.authorised
                         \/ ~Streams /\ handler = "threw"

RemoteInv == RemoteTyped /\ Answered /\ UnderWay

LEMMA PieceTypes ==
  /\ \A e \in EventRec : /\ Pieces(e) \in Seq(Piece) /\ Len(Pieces(e)) = 2
                         /\ Pieces(e)[1] = [half |-> "text", event |-> e]
                         /\ Pieces(e)[2] = [half |-> "end", event |-> e]
  /\ \A n \in Nat : Event("text", n) \in EventRec
  /\ \A k \in {"completed", "done", "error"} : Event(k, 0) \in EventRec
<1>1. ASSUME NEW e \in EventRec
      PROVE  /\ Pieces(e) \in Seq(Piece) /\ Len(Pieces(e)) = 2
             /\ Pieces(e)[1] = [half |-> "text", event |-> e]
             /\ Pieces(e)[2] = [half |-> "end", event |-> e]
  <2> DEFINE a == [half |-> "text", event |-> e]
             b == [half |-> "end", event |-> e]
  <2>1. a \in Piece /\ b \in Piece /\ Pieces(e) = <<a, b>>
    BY DEF Piece, Pieces
  <2> HIDE DEF a, b
  <2>2. <<a, b>> \in Seq(Piece) /\ Len(<<a, b>>) = 2 /\ <<a, b>>[1] = a /\ <<a, b>>[2] = b
    BY <2>1
  <2> QED
    BY <2>1, <2>2 DEF a, b
<1> QED
  BY <1>1 DEF Event, EventRec

LEMMA Reassociated ==
  ASSUME NEW s \in Seq(Piece), NEW t \in Seq(Piece), NEW u \in Seq(Piece)
  PROVE  (s \o t) \o u = s \o (t \o u)
OBVIOUS

(* A read moves pieces from the socket to the buffer.                       *)
LEMMA ReadMoves ==
  ASSUME NEW b \in Seq(Piece), NEW s \in Seq(Piece), NEW n \in 1..Len(s)
  PROVE  /\ b \o SubSeq(s, 1, n) \in Seq(Piece) /\ SubSeq(s, n + 1, Len(s)) \in Seq(Piece)
         /\ (b \o SubSeq(s, 1, n)) \o SubSeq(s, n + 1, Len(s)) = b \o s
<1> DEFINE x == SubSeq(s, 1, n)
           y == SubSeq(s, n + 1, Len(s))
<1>1. Len(s) \in Nat /\ \A i \in 1..Len(s) : s[i] \in Piece
  BY LenProperties, ElementOfSeq
<1>2. x \in Seq(Piece)
  BY <1>1, SubSeqProperties
<1>3. y \in Seq(Piece)
  <2>1. n + 1 \in Int /\ Len(s) \in Int /\ \A i \in (n + 1)..Len(s) : s[i] \in Piece
    BY <1>1
  <2> QED
    BY <2>1, SubSeqProperties
<1>4. x \o y = SubSeq(s, 1, Len(s))
  <2>1. 1 \in 1..Len(s) + 1 /\ n \in 0..Len(s) /\ Len(s) \in n..Len(s) /\ 1 - 1 = 0
    BY <1>1
  <2> QED
    BY <2>1, ConcatAdjacentSubSeq
<1>5. x \o y = s
  BY <1>4, SubSeqFull
<1> HIDE DEF x, y
<1>6. (b \o x) \o y = b \o (x \o y)
  BY <1>2, <1>3, Reassociated
<1>7. b \o x \in Seq(Piece)
  BY <1>2, ConcatProperties
<1> QED
  BY <1>3, <1>5, <1>6, <1>7 DEF x, y

(* An event that is sent follows those on their way.                        *)
LEMMA SendOne ==
  ASSUME NEW b \in Seq(Piece), NEW s \in Seq(Piece), NEW events \in Seq(EventRec),
         Carries(b \o s, events), NEW e \in EventRec
  PROVE  /\ s \o Pieces(e) \in Seq(Piece)
         /\ Append(events, e) \in Seq(EventRec)
         /\ Carries(b \o (s \o Pieces(e)), Append(events, e))
<1> DEFINE w == b \o s
           v == w \o Pieces(e)
           more == Append(events, e)
<1>1. /\ Pieces(e) \in Seq(Piece) /\ Len(Pieces(e)) = 2
      /\ Pieces(e)[1] = [half |-> "text", event |-> e]
      /\ Pieces(e)[2] = [half |-> "end", event |-> e]
  BY PieceTypes
<1>2. b \o (s \o Pieces(e)) = v /\ s \o Pieces(e) \in Seq(Piece) /\ w \in Seq(Piece)
  <2>1. b \o (s \o Pieces(e)) = v
    BY <1>1, Reassociated
  <2>2. s \o Pieces(e) \in Seq(Piece)
    BY <1>1, ConcatProperties
  <2>3. w \in Seq(Piece)
    BY ConcatProperties
  <2> QED
    BY <2>1, <2>2, <2>3
<1>3. /\ v \in Seq(Piece) /\ Len(v) = Len(w) + 2
      /\ \A i \in 1..(Len(w) + 2) : v[i] = IF i <= Len(w) THEN w[i] ELSE Pieces(e)[i - Len(w)]
  <2> DEFINE p == Pieces(e)
  <2>1. p \in Seq(Piece) /\ Len(p) = 2 /\ w \in Seq(Piece)
    BY <1>1, <1>2
  <2> HIDE DEF p, w
  <2>2. /\ w \o p \in Seq(Piece) /\ Len(w \o p) = Len(w) + Len(p)
        /\ \A i \in 1..(Len(w) + Len(p)) : (w \o p)[i] = IF i <= Len(w) THEN w[i] ELSE p[i - Len(w)]
    BY <2>1, ConcatProperties
  <2> QED
    BY <2>1, <2>2 DEF p
<1>4. /\ more \in Seq(EventRec) /\ Len(more) = Len(events) + 1
      /\ \A i \in 1..Len(events) : more[i] = events[i]
      /\ more[Len(events) + 1] = e
  BY AppendProperties
<1>5. /\ Len(events) \in Nat /\ Len(w) = 2 * Len(events)
      /\ \A i \in 1..Len(events) : /\ w[2 * i - 1] = [half |-> "text", event |-> events[i]]
                                   /\ w[2 * i] = [half |-> "end", event |-> events[i]]
  BY LenProperties DEF Carries
<1> HIDE DEF w, v, more
<1>6. ASSUME NEW i \in 1..Len(more)
      PROVE  /\ v[2 * i - 1] = [half |-> "text", event |-> more[i]]
             /\ v[2 * i] = [half |-> "end", event |-> more[i]]
  <2>1. CASE i \in 1..Len(events)
    <3>1. 2 * i - 1 \in 1..Len(w) /\ 2 * i \in 1..Len(w)
      BY <1>5, <2>1
    <3>2. v[2 * i - 1] = w[2 * i - 1] /\ v[2 * i] = w[2 * i]
      <4>1. /\ 2 * i - 1 \in 1..(Len(w) + 2) /\ 2 * i \in 1..(Len(w) + 2)
            /\ 2 * i - 1 <= Len(w) /\ 2 * i <= Len(w)
        BY <1>5, <3>1
      <4> QED
        BY <1>3, <4>1
    <3> QED
      BY <1>4, <1>5, <2>1, <3>2
  <2>2. CASE i = Len(events) + 1
    <3>1. 2 * i - 1 = Len(w) + 1 /\ 2 * i = Len(w) + 2
      BY <1>5, <2>2
    <3>2. v[Len(w) + 1] = Pieces(e)[1] /\ v[Len(w) + 2] = Pieces(e)[2]
      <4>1. /\ Len(w) + 1 \in 1..(Len(w) + 2) /\ Len(w) + 2 \in 1..(Len(w) + 2)
            /\ ~(Len(w) + 1 <= Len(w)) /\ ~(Len(w) + 2 <= Len(w))
            /\ Len(w) + 1 - Len(w) = 1 /\ Len(w) + 2 - Len(w) = 2
        BY <1>5
      <4> QED
        BY <1>3, <4>1
    <3> QED
      BY <1>1, <1>4, <2>2, <3>1, <3>2
  <2> QED
    BY <1>4, <1>5, <2>1, <2>2
<1>7. Len(v) = 2 * Len(more)
  BY <1>3, <1>4, <1>5
<1>8. Carries(v, more)
  BY <1>3, <1>6, <1>7 DEF Carries
<1> QED
  BY <1>2, <1>4, <1>8 DEF more

(* The first line that is complete is the first event, however the body     *)
(* was cut.                                                                 *)
LEMMA TakeFirst ==
  ASSUME buffer \in Seq(Piece), socket \in Seq(Piece), NEW events \in Seq(EventRec),
         Carries(buffer \o socket, events), NEW n \in DOMAIN buffer, LineAt(n)
  PROVE  /\ n = 2 /\ events # <<>> /\ buffer[2].event = events[1]
         /\ SubSeq(buffer, 3, Len(buffer)) \in Seq(Piece)
         /\ Tail(events) \in Seq(EventRec)
         /\ Carries(SubSeq(buffer, 3, Len(buffer)) \o socket, Tail(events))
<1> DEFINE w == buffer \o socket
           rest == SubSeq(buffer, 3, Len(buffer))
           v == rest \o socket
           tl == Tail(events)
<1>1. /\ Len(buffer) \in Nat /\ Len(socket) \in Nat /\ Len(events) \in Nat
      /\ n \in 1..Len(buffer) /\ \A i \in 1..Len(buffer) : buffer[i] \in Piece
  BY LenProperties, ElementOfSeq
<1>2. /\ w \in Seq(Piece) /\ Len(w) = Len(buffer) + Len(socket)
      /\ \A i \in 1..(Len(buffer) + Len(socket)) :
           w[i] = IF i <= Len(buffer) THEN buffer[i] ELSE socket[i - Len(buffer)]
  BY ConcatProperties
<1>3. /\ Len(w) = 2 * Len(events)
      /\ \A i \in 1..Len(events) : /\ w[2 * i - 1] = [half |-> "text", event |-> events[i]]
                                   /\ w[2 * i] = [half |-> "end", event |-> events[i]]
  BY DEF Carries
<1> HIDE DEF w
<1>4. Len(events) >= 1
  BY <1>1, <1>2, <1>3
<1>5. w[1] = [half |-> "text", event |-> events[1]] /\ w[2] = [half |-> "end", event |-> events[1]]
  <2>1. 1 \in 1..Len(events) /\ 2 * 1 - 1 = 1 /\ 2 * 1 = 2
    BY <1>1, <1>4
  <2> QED
    BY <1>3, <2>1
<1>6. buffer[1] = w[1] /\ (Len(buffer) >= 2 => buffer[2] = w[2])
  BY <1>1, <1>2
<1>7. buffer[n].half = "end" /\ \A i \in 1..(n - 1) : buffer[i].half = "text"
  BY DEF LineAt
<1>8. n = 2
  <2>1. n # 1
    BY <1>5, <1>6, <1>7
  <2>2. ~(n > 2)
    <3>1. n > 2 => Len(buffer) >= 2 /\ 2 \in 1..(n - 1)
      BY <1>1
    <3> QED
      BY <1>5, <1>6, <1>7, <3>1
  <2> QED
    BY <1>1, <2>1, <2>2
<1>9. events # <<>>
  BY <1>4
<1>10. buffer[2].event = events[1]
  BY <1>1, <1>5, <1>6, <1>8
<1>11. /\ rest \in Seq(Piece) /\ Len(rest) = Len(buffer) - 2
       /\ \A i \in 1..(Len(buffer) - 2) : rest[i] = buffer[i + 2]
  <2>1. \A i \in 3..Len(buffer) : buffer[i] \in Piece
    BY <1>1
  <2>2. /\ rest \in Seq(Piece)
        /\ Len(rest) = IF 3 <= Len(buffer) THEN Len(buffer) - 3 + 1 ELSE 0
        /\ \A i \in 1..(Len(buffer) - 3 + 1) : rest[i] = buffer[3 + i - 1]
    BY <1>1, <2>1, SubSeqProperties
  <2>3. Len(buffer) >= 2 /\ Len(buffer) - 3 + 1 = Len(buffer) - 2
    BY <1>1, <1>8
  <2> HIDE DEF rest
  <2>4. Len(rest) = Len(buffer) - 2
    <3>1. CASE 3 <= Len(buffer)
      BY <2>2, <2>3, <3>1
    <3>2. CASE ~(3 <= Len(buffer))
      <4>1. Len(buffer) = 2
        BY <1>1, <2>3, <3>2
      <4> QED
        BY <2>2, <3>2, <4>1
    <3> QED
      BY <3>1, <3>2
  <2>5. ASSUME NEW i \in 1..(Len(buffer) - 2) PROVE rest[i] = buffer[i + 2]
    <3>1. i \in 1..(Len(buffer) - 3 + 1) /\ 3 + i - 1 = i + 2
      BY <1>1, <2>3
    <3> QED
      BY <2>2, <3>1
  <2> QED
    BY <2>2, <2>4, <2>5
<1> HIDE DEF rest
<1>12. /\ v \in Seq(Piece) /\ Len(v) = Len(rest) + Len(socket)
       /\ \A i \in 1..(Len(rest) + Len(socket)) :
            v[i] = IF i <= Len(rest) THEN rest[i] ELSE socket[i - Len(rest)]
  BY <1>11, ConcatProperties
<1> HIDE DEF v
<1>13. Len(v) = Len(w) - 2 /\ \A i \in 1..Len(v) : v[i] = w[i + 2]
  <2>1. Len(v) = Len(w) - 2
    BY <1>1, <1>2, <1>11, <1>12
  <2>2. ASSUME NEW i \in 1..Len(v) PROVE v[i] = w[i + 2]
    <3>0. PICK a \in Nat, b \in Nat, c \in Nat : a = Len(buffer) /\ b = Len(socket) /\ c = Len(rest)
      BY <1>1, <1>11, LenProperties
    <3>a. c = a - 2 /\ i \in 1..(c + b)
      BY <1>11, <1>12, <3>0
    <3>b. i + 2 \in 1..(a + b) /\ (i <= c <=> i + 2 <= a) /\ i - c = i + 2 - a
      BY <3>a
    <3>1. i + 2 \in 1..(Len(buffer) + Len(socket)) /\ (i <= Len(rest) <=> i + 2 <= Len(buffer))
          /\ i - Len(rest) = i + 2 - Len(buffer)
      BY <3>0, <3>b
    <3>2. CASE i <= Len(rest)
      <4>1. i \in 1..(Len(buffer) - 2)
        BY <1>1, <1>11, <3>2
      <4> QED
        BY <1>2, <1>11, <1>12, <3>1, <3>2, <4>1
    <3>3. CASE ~(i <= Len(rest))
      <4>1. v[i] = socket[i - Len(rest)]
        BY <1>12, <3>3
      <4>2. w[i + 2] = socket[i + 2 - Len(buffer)]
        BY <1>2, <3>1, <3>3
      <4> QED
        BY <3>1, <4>1, <4>2
    <3> QED
      BY <3>2, <3>3
  <2> QED
    BY <2>1, <2>2
<1>14. /\ tl \in Seq(EventRec) /\ Len(tl) = Len(events) - 1
       /\ \A i \in 1..Len(tl) : tl[i] = events[i + 1]
  BY <1>9, HeadTailProperties
<1> HIDE DEF tl
<1>15. ASSUME NEW i \in 1..Len(tl)
       PROVE  /\ v[2 * i - 1] = [half |-> "text", event |-> tl[i]]
              /\ v[2 * i] = [half |-> "end", event |-> tl[i]]
  <2>1. /\ i + 1 \in 1..Len(events) /\ 2 * i - 1 \in 1..Len(v) /\ 2 * i \in 1..Len(v)
        /\ 2 * i - 1 + 2 = 2 * (i + 1) - 1 /\ 2 * i + 2 = 2 * (i + 1)
    <3>1. i \in Nat /\ i >= 1 /\ i <= Len(events) - 1 /\ Len(v) = 2 * Len(events) - 2
      BY <1>1, <1>3, <1>13, <1>14
    <3> QED
      BY <1>1, <3>1
  <2>2. v[2 * i - 1] = w[2 * (i + 1) - 1] /\ v[2 * i] = w[2 * (i + 1)]
    BY <1>13, <2>1
  <2> QED
    BY <1>3, <1>14, <2>1, <2>2
<1>16. Len(v) = 2 * Len(tl)
  BY <1>1, <1>3, <1>13, <1>14
<1>17. Carries(v, tl)
  BY <1>12, <1>15, <1>16 DEF Carries
<1> QED
  BY <1>8, <1>9, <1>10, <1>11, <1>14, <1>17 DEF v, rest, tl

(* The first event reaches the caller: the next chunk, or none any more.    *)
LEMMA Arrives ==
  ASSUME NEW all \in Seq(EventRec), all # <<>>, NEW t \in Nat, NEW g \in Nat, NEW n \in Nat,
         NEW busy \in BOOLEAN, NEW done \in BOOLEAN, OnTheWay(all, t, g, n, busy, done)
  PROVE  /\ all[1].kind = "text" =>
              t > 0 /\ all[1] = Event("text", g + 1) /\ OnTheWay(Tail(all), t - 1, g + 1, n, busy, done)
         /\ all[1].kind # "text" => t = 0 /\ OnTheWay(Tail(all), 0, g, n, busy, done)
         /\ all[1].kind = "done" => done /\ g = n
<1>1. Len(all) \in Nat /\ Len(all) >= 1 /\ 1 \in 1..Len(all)
  BY EmptySeq
<1>2. Len(Tail(all)) = Len(all) - 1 /\ \A i \in 1..(Len(all) - 1) : Tail(all)[i] = all[i + 1]
  BY HeadTailProperties
<1> DEFINE tl == Tail(all)
<1> HIDE DEF tl
<1>3. /\ t \in 0..Len(all) /\ g + t <= n
      /\ \A i \in 1..t : all[i] = Event("text", g + i)
      /\ \A i \in (t + 1)..Len(all) : all[i].kind # "text"
      /\ \A i \in 1..Len(all) : all[i].kind = "done" => done /\ g + t = n
      /\ busy => t = Len(all) /\ g + t = n
  BY DEF OnTheWay
<1>4. \A i \in 1..Len(tl) : i + 1 \in 1..Len(all) /\ tl[i] = all[i + 1]
  BY <1>1, <1>2 DEF tl
<1>5. Len(tl) = Len(all) - 1 /\ Len(tl) \in Nat
  BY <1>1, <1>2 DEF tl
<1>6. CASE all[1].kind = "text"
  <2>1. t > 0
    BY <1>1, <1>3, <1>6
  <2>2. 1 \in 1..t
    BY <2>1
  <2>3. all[1] = Event("text", g + 1)
    BY <1>3, <2>2
  <2>4. \A i \in 1..(t - 1) : tl[i] = Event("text", g + 1 + i)
    <3> TAKE i \in 1..(t - 1)
    <3>1. i + 1 \in 1..t /\ i \in 1..Len(tl) /\ g + (i + 1) = g + 1 + i
      BY <1>1, <1>3, <1>5
    <3> QED
      BY <1>3, <1>4, <3>1
  <2>5. \A i \in t..Len(tl) : tl[i].kind # "text"
    <3> TAKE i \in t..Len(tl)
    <3>1. i + 1 \in (t + 1)..Len(all) /\ i \in 1..Len(tl)
      BY <1>1, <1>5, <2>1
    <3> QED
      BY <1>3, <1>4, <3>1
  <2>6. \A i \in 1..Len(tl) : tl[i].kind = "done" => done /\ g + 1 + (t - 1) = n
    BY <1>1, <1>3, <1>4
  <2>7. t - 1 \in 0..Len(tl) /\ g + 1 + (t - 1) <= n /\ t - 1 + 1 = t
    BY <1>3, <1>5, <2>1
  <2>8. busy => t - 1 = Len(tl) /\ g + 1 + (t - 1) = n
    BY <1>3, <1>5, <2>1
  <2>9. OnTheWay(tl, t - 1, g + 1, n, busy, done)
    BY <2>4, <2>5, <2>6, <2>7, <2>8 DEF OnTheWay
  <2> QED
    BY <1>6, <2>1, <2>3, <2>9 DEF Event, tl
<1>7. CASE all[1].kind # "text"
  <2>1. t = 0
    <3>1. t > 0 => 1 \in 1..t
      OBVIOUS
    <3>2. Event("text", g + 1).kind = "text"
      BY DEF Event
    <3>3. ~(t > 0)
      BY <1>3, <1>7, <3>1, <3>2
    <3> QED
      BY <3>3
  <2>2. ~busy
    BY <1>1, <1>3, <2>1
  <2>3. \A i \in 1..Len(tl) : tl[i].kind # "text"
    <3> TAKE i \in 1..Len(tl)
    <3>1. i + 1 \in (t + 1)..Len(all)
      BY <1>1, <1>5, <2>1
    <3> QED
      BY <1>3, <1>4, <3>1
  <2>4. \A i \in 1..Len(tl) : tl[i].kind = "done" => done /\ g + 0 = n
    BY <1>3, <1>4, <2>1
  <2>5. g + 0 <= n /\ 0 \in 0..Len(tl) /\ 0 + 1 = 1
    BY <1>3, <1>5, <2>1
  <2>6. OnTheWay(tl, 0, g, n, busy, done)
    BY <2>2, <2>3, <2>4, <2>5 DEF OnTheWay
  <2>7. all[1].kind = "done" => done /\ g = n
    BY <1>1, <1>3, <2>1
  <2> QED
    BY <1>7, <2>1, <2>6, <2>7 DEF tl
<1> QED
  BY <1>6, <1>7

(* Said while the handler works: it is the next chunk.                      *)
LEMMA Says ==
  ASSUME NEW all \in Seq(EventRec), NEW t \in Nat, NEW g \in Nat, NEW n \in Nat,
         OnTheWay(all, t, g, n, TRUE, FALSE)
  PROVE  OnTheWay(Append(all, Event("text", n + 1)), t + 1, g, n + 1, TRUE, FALSE)
<1> DEFINE e == Event("text", n + 1)
           more == Append(all, e)
<1>1. e \in EventRec
  BY PieceTypes
<1>2. /\ Len(all) \in Nat /\ Len(more) = Len(all) + 1
      /\ \A i \in 1..Len(all) : more[i] = all[i]
      /\ more[Len(all) + 1] = e
  BY <1>1, AppendProperties, LenProperties
<1> HIDE DEF more
<1>3. /\ t = Len(all) /\ g + t = n
      /\ \A i \in 1..t : all[i] = Event("text", g + i)
  BY DEF OnTheWay
<1>4. \A i \in 1..(t + 1) : more[i] = Event("text", g + i)
  <2> TAKE i \in 1..(t + 1)
  <2>1. CASE i \in 1..t
    BY <1>2, <1>3, <2>1
  <2>2. CASE i = t + 1
    <3>1. g + (t + 1) = n + 1
      BY <1>3
    <3> QED
      BY <1>2, <1>3, <2>2, <3>1
  <2> QED
    BY <2>1, <2>2
<1>5. \A i \in 1..Len(more) : more[i].kind # "done"
  BY <1>2, <1>3, <1>4 DEF Event
<1>6. t + 1 = Len(more) /\ g + (t + 1) = n + 1 /\ t + 1 \in 0..Len(more)
  BY <1>2, <1>3
<1>7. \A i \in (t + 1 + 1)..Len(more) : FALSE
  BY <1>6
<1> QED
  BY <1>4, <1>5, <1>6, <1>7 DEF OnTheWay, more

(* What ends a stream follows the chunks.                                   *)
LEMMA Ends ==
  ASSUME NEW all \in Seq(EventRec), NEW t \in Nat, NEW g \in Nat, NEW n \in Nat,
         NEW done \in BOOLEAN, OnTheWay(all, t, g, n, FALSE, done),
         NEW e \in EventRec, e.kind # "text", e.kind = "done" => done /\ g + t = n
  PROVE  OnTheWay(Append(all, e), t, g, n, FALSE, done)
<1> DEFINE more == Append(all, e)
<1>2. /\ Len(all) \in Nat /\ Len(more) = Len(all) + 1
      /\ \A i \in 1..Len(all) : more[i] = all[i]
      /\ more[Len(all) + 1] = e
  BY AppendProperties, LenProperties
<1> HIDE DEF more
<1>3. /\ t \in 0..Len(all) /\ g + t <= n
      /\ \A i \in 1..t : all[i] = Event("text", g + i)
      /\ \A i \in (t + 1)..Len(all) : all[i].kind # "text"
      /\ \A i \in 1..Len(all) : all[i].kind = "done" => done /\ g + t = n
  BY DEF OnTheWay
<1>4. t \in 0..Len(more) /\ \A i \in 1..t : more[i] = Event("text", g + i)
  <2>1. \A i \in 1..t : i \in 1..Len(all)
    BY <1>2, <1>3
  <2> QED
    BY <1>2, <1>3, <2>1
<1>5. \A i \in (t + 1)..Len(more) : more[i].kind # "text"
  <2> TAKE i \in (t + 1)..Len(more)
  <2>1. (i \in (t + 1)..Len(all) /\ i \in 1..Len(all)) \/ i = Len(all) + 1
    BY <1>2, <1>3
  <2> QED
    BY <1>2, <1>3, <2>1
<1>6. \A i \in 1..Len(more) : more[i].kind = "done" => done /\ g + t = n
  <2> TAKE i \in 1..Len(more)
  <2>1. i \in 1..Len(all) \/ i = Len(all) + 1
    BY <1>2
  <2> QED
    BY <1>2, <1>3, <2>1
<1> QED
  BY <1>3, <1>4, <1>5, <1>6 DEF OnTheWay, more

(* What was not sent is lost: the chunks that were are still the next ones. *)
LEMMA Lost ==
  ASSUME NEW events \in Seq(EventRec), NEW q \in Seq(EventRec), NEW t \in Nat,
         NEW g \in Nat, NEW n \in Nat, OnTheWay(events \o q, t, g, n, TRUE, FALSE)
  PROVE  OnTheWay(events, Len(events), g, n, FALSE, FALSE)
<1> DEFINE all == events \o q
<1>1. /\ Len(events) \in Nat /\ Len(q) \in Nat /\ Len(all) = Len(events) + Len(q)
      /\ \A i \in 1..(Len(events) + Len(q)) : all[i] = IF i <= Len(events) THEN events[i] ELSE q[i - Len(events)]
  BY ConcatProperties, LenProperties
<1>2. /\ t = Len(all) /\ g + t = n
      /\ \A i \in 1..t : all[i] = Event("text", g + i)
  BY DEF OnTheWay
<1> HIDE DEF all
<1>3. \A i \in 1..Len(events) : events[i] = Event("text", g + i)
  <2> TAKE i \in 1..Len(events)
  <2>1. i \in 1..t /\ i \in 1..(Len(events) + Len(q)) /\ i <= Len(events)
    BY <1>1, <1>2
  <2> QED
    BY <1>1, <1>2, <2>1
<1>4. \A i \in 1..Len(events) : events[i].kind # "done"
  <2> TAKE i \in 1..Len(events)
  <2>1. Event("text", g + i).kind = "text"
    BY DEF Event
  <2> QED
    BY <1>3, <2>1
<1>5. Len(events) \in 0..Len(events) /\ g + Len(events) <= n
      /\ \A i \in (Len(events) + 1)..Len(events) : FALSE
  BY <1>1, <1>2
<1> QED
  BY <1>3, <1>4, <1>5 DEF OnTheWay

(* The head of the queue is sent: the order of the events stays.            *)
LEMMA Pumped ==
  ASSUME NEW events \in Seq(EventRec), NEW q \in Seq(EventRec), q # <<>>
  PROVE  Append(events, Head(q)) \o Tail(q) = events \o q
<1> DEFINE x == Append(events, Head(q))
           y == Tail(q)
<1>1. /\ Head(q) \in EventRec /\ Head(q) = q[1] /\ y \in Seq(EventRec) /\ Len(y) = Len(q) - 1
      /\ \A i \in 1..Len(y) : y[i] = q[i + 1]
  BY HeadTailProperties
<1>2. /\ x \in Seq(EventRec) /\ Len(x) = Len(events) + 1
      /\ \A i \in 1..Len(events) : x[i] = events[i]
      /\ x[Len(events) + 1] = q[1]
  BY <1>1, AppendProperties
<1>3. Len(events) \in Nat /\ Len(q) \in Nat /\ Len(q) >= 1
  BY LenProperties, EmptySeq
<1> HIDE DEF x, y
<1>4. /\ x \o y \in Seq(EventRec) /\ Len(x \o y) = Len(x) + Len(y)
      /\ \A i \in 1..(Len(x) + Len(y)) : (x \o y)[i] = IF i <= Len(x) THEN x[i] ELSE y[i - Len(x)]
  BY <1>1, <1>2, ConcatProperties
<1>5. /\ events \o q \in Seq(EventRec) /\ Len(events \o q) = Len(events) + Len(q)
      /\ \A i \in 1..(Len(events) + Len(q)) :
           (events \o q)[i] = IF i <= Len(events) THEN events[i] ELSE q[i - Len(events)]
  BY ConcatProperties
<1>6. Len(x \o y) = Len(events \o q)
  BY <1>1, <1>2, <1>3, <1>4, <1>5
<1>7. \A i \in 1..Len(x \o y) : (x \o y)[i] = (events \o q)[i]
  <2> TAKE i \in 1..Len(x \o y)
  <2>0. i \in 1..(Len(x) + Len(y)) /\ i \in 1..(Len(events) + Len(q))
    BY <1>4, <1>5, <1>6
  <2>1. CASE i <= Len(events)
    <3>1. i <= Len(x) /\ i \in 1..Len(events)
      BY <1>2, <1>3, <2>0, <2>1
    <3> QED
      BY <1>2, <1>4, <1>5, <2>0, <2>1, <3>1
  <2>2. CASE i = Len(events) + 1
    <3>1. i <= Len(x) /\ ~(i <= Len(events)) /\ i - Len(events) = 1
      BY <1>2, <1>3, <2>2
    <3> QED
      BY <1>2, <1>4, <1>5, <2>0, <2>2, <3>1
  <2>3. CASE i > Len(events) + 1
    <3>1. /\ ~(i <= Len(x)) /\ ~(i <= Len(events)) /\ i - Len(x) \in 1..Len(y)
          /\ i - Len(x) + 1 = i - Len(events)
      BY <1>1, <1>2, <1>3, <2>0, <2>3
    <3>2. (x \o y)[i] = y[i - Len(x)] /\ (events \o q)[i] = q[i - Len(events)]
      BY <1>4, <1>5, <2>0, <3>1
    <3> QED
      BY <1>1, <3>1, <3>2
  <2> QED
    BY <1>3, <2>0, <2>1, <2>2, <2>3
<1>8. x \o y = events \o q
  BY <1>4, <1>5, <1>6, <1>7, SeqEqual
<1> QED
  BY <1>8 DEF x, y

LEMMA RemoteStep == RemoteInv /\ [RemoteNext]_remoteVars => RemoteInv'
<1> SUFFICES ASSUME RemoteInv, [RemoteNext]_remoteVars PROVE RemoteInv'
  OBVIOUS
<1>1. RemoteTyped /\ Answered
  BY DEF RemoteInv
<1>2. PICK events \in Seq(EventRec), t \in Nat :
        /\ Carries(buffer \o socket, events)
        /\ OnTheWay(events \o enqueued, t, Len(got), Len(said), Streaming, Done)
        /\ events \o enqueued # <<>> => answer = "stream"
  BY DEF RemoteInv, UnderWay
<1> DEFINE all == events \o enqueued
           g == Len(got)
           n == Len(said)
<1>3. /\ enqueued \in Seq(EventRec) /\ socket \in Seq(Piece) /\ buffer \in Seq(Piece)
      /\ said \in Seq(Nat) /\ got \in Seq(Nat) /\ g \in Nat /\ n \in Nat
      /\ \A i \in 1..n : said[i] = i
      /\ \A i \in 1..g : got[i] = i
  BY <1>1, LenProperties DEF RemoteTyped, Numbered
<1>4. all \in Seq(EventRec) /\ Len(all) \in Nat
  BY <1>3, ConcatProperties, LenProperties
<1>5. t \in 0..Len(all) /\ g + t <= n
  BY <1>2 DEF OnTheWay
<1>6. ASSUME NEW ev \in Seq(EventRec), NEW u \in Nat,
             Carries(buffer' \o socket', ev),
             OnTheWay(ev \o enqueued', u, Len(got'), Len(said'), Streaming', Done'),
             ev \o enqueued' # <<>> => answer' = "stream"
      PROVE  UnderWay'
  BY <1>6 DEF UnderWay
(* What neither says, sends nor takes anything.                             *)
<1>7. ASSUME UNCHANGED <<enqueued, socket, buffer, got, said>>, all # <<>> => answer' = "stream",
             Streaming' \in BOOLEAN, Streaming' => Streaming \/ (all = <<>> /\ g = n), Done => Done'
      PROVE  UnderWay'
  <2>1. OnTheWay(all, t, g, n, Streaming', Done')
    BY <1>2, <1>4, <1>5, <1>7 DEF OnTheWay
  <2> QED
    BY <1>2, <1>6, <1>7, <2>1
<1>8. CASE Ask
  <2>1. RemoteTyped'
    BY <1>1, <1>8 DEF Ask, RemoteTyped, Numbered
  <2>2. ask = <<>> /\ client = "idle" /\ client' = "waiting" /\ ask' # <<>> /\ handler = "idle" /\ answer = "none"
    BY <1>1, <1>8 DEF Ask, Answered
  <2>3. Answered'
    BY <1>1, <1>8, <2>2 DEF Ask, Answered
  <2>4. (Streaming' = FALSE) /\ (Done = FALSE)
    BY <1>8, <2>2 DEF Ask, Streaming, Done
  <2>5. UNCHANGED <<enqueued, socket, buffer, got, said>> /\ (all # <<>> => answer' = "stream")
    BY <1>2, <1>8 DEF Ask
  <2>6. UnderWay'
    BY <1>7, <2>4, <2>5
  <2> QED
    BY <2>1, <2>3, <2>6 DEF RemoteInv
<1>9. CASE Refuse
  <2>1. /\ handler = "idle" /\ ask # <<>> /\ answer = "none"
        /\ UNCHANGED <<ask, handler, said, enqueued, socket, buffer, got, client>>
    BY <1>9 DEF Refuse, Unserved
  <2>2. RemoteTyped'
    BY <1>1, <1>9, <2>1 DEF Refuse, RemoteTyped, Numbered
  <2>3. Answered'
    BY <1>1, <1>9, <2>1 DEF Refuse, Answered, Streams, Task
  <2>4. all = <<>> /\ (Streaming' = FALSE) /\ (Done = FALSE)
    BY <1>2, <2>1 DEF Streaming, Done
  <2>5. UnderWay'
    BY <1>7, <2>1, <2>4
  <2> QED
    BY <2>2, <2>3, <2>5 DEF RemoteInv
<1>10. CASE CallHandler
  <2>1. /\ handler = "idle" /\ ask # <<>> /\ answer = "none" /\ handler' = "running"
        /\ answer' = IF Streams /\ Task.generator THEN "stream" ELSE answer
        /\ UNCHANGED <<ask, said, enqueued, socket, buffer, got, client>>
    BY <1>10 DEF CallHandler, Unserved
  <2>2. RemoteTyped'
    BY <1>1, <2>1 DEF RemoteTyped, Numbered
  <2>3. Answered'
    BY <1>1, <2>1 DEF Answered, Streams, Task
  <2>4. all = <<>> /\ got = said /\ ~Done
    BY <1>1, <1>2, <2>1 DEF Answered, Done
  <2>5. UnderWay'
    BY <1>7, <2>1, <2>4 DEF Streaming
  <2> QED
    BY <2>2, <2>3, <2>5 DEF RemoteInv
<1>11. CASE HandlerSays
  <2>1. /\ handler = "running" /\ said' = Append(said, n + 1)
        /\ enqueued' = IF Streams THEN Append(enqueued, Event("text", n + 1)) ELSE enqueued
        /\ answer' = IF Streams THEN "stream" ELSE answer
        /\ UNCHANGED <<ask, handler, socket, buffer, got, client>>
    BY <1>11 DEF HandlerSays
  <2>2. /\ said' \in Seq(Nat) /\ Len(said') = n + 1 /\ \A i \in 1..n : said'[i] = said[i]
        /\ said'[n + 1] = n + 1 /\ said' # <<>>
    <3>1. n + 1 \in Nat /\ said' = Append(said, n + 1)
      BY <1>3, <2>1
    <3> QED
      BY <1>3, <3>1, AppendProperties
  <2>3. Numbered(said')
    <3>1. \A i \in 1..(n + 1) : said'[i] = i
      <4> TAKE i \in 1..(n + 1)
      <4>0. n \in Nat
        BY <1>3
      <4>1. i \in 1..n \/ i = n + 1
        BY <4>0
      <4> QED
        BY <1>3, <2>2, <4>1
    <3> QED
      BY <2>2, <3>1 DEF Numbered
  <2>4. Event("text", n + 1) \in EventRec
    BY <1>3, PieceTypes
  <2>5. enqueued' \in Seq(EventRec)
    BY <1>3, <2>1, <2>4, AppendProperties
  <2>6. RemoteTyped'
    BY <1>1, <2>1, <2>3, <2>5 DEF RemoteTyped, Numbered
  <2>7. Answered'
    BY <1>1, <2>1, <2>2 DEF Answered, Streams, Task
  <2>8. CASE Streams
    <3>1. Streaming /\ ~Done /\ Streaming' /\ ~Done' /\ OnTheWay(all, t, g, n, TRUE, FALSE)
      <4>1. (Streaming = TRUE) /\ (Done = FALSE)
        BY <2>1, <2>8 DEF Streaming, Done
      <4>2. Streaming' /\ ~Done'
        BY <2>1, <2>8 DEF Streaming, Done, Streams, Task
      <4> QED
        BY <1>2, <4>1, <4>2
    <3>2. OnTheWay(Append(all, Event("text", n + 1)), t + 1, g, n + 1, TRUE, FALSE)
      BY <1>3, <1>4, <3>1, Says
    <3>3. events \o enqueued' = Append(all, Event("text", n + 1))
      BY <1>3, <2>1, <2>4, <2>8
    <3>4. (Streaming' = TRUE) /\ (Done' = FALSE)
      BY <3>1 DEF Streaming, Done
    <3>5. OnTheWay(events \o enqueued', t + 1, Len(got'), Len(said'), Streaming', Done')
      BY <2>1, <2>2, <3>2, <3>3, <3>4
    <3>6. UnderWay'
      BY <1>2, <1>6, <2>1, <2>8, <3>5
    <3> QED
      BY <2>6, <2>7, <3>6 DEF RemoteInv
  <2>9. CASE ~Streams
    <3>1. all = <<>> /\ enqueued' = enqueued
      BY <1>1, <1>2, <2>1, <2>9 DEF Answered
    <3>2. (Streaming' = FALSE) /\ (Done' = FALSE)
      BY <2>1, <2>9 DEF Streaming, Done, Streams, Task
    <3>3. OnTheWay(all, t, g, n + 1, FALSE, FALSE)
      BY <1>3, <1>4, <1>5, <3>1 DEF OnTheWay
    <3>4. OnTheWay(events \o enqueued', t, Len(got'), Len(said'), Streaming', Done')
      BY <2>1, <2>2, <3>1, <3>2, <3>3
    <3>5. UnderWay'
      BY <1>2, <1>6, <2>1, <3>1, <3>4
    <3> QED
      BY <2>6, <2>7, <3>5 DEF RemoteInv
  <2> QED
    BY <2>8, <2>9
<1>12. CASE HandlerEnds
  <2> DEFINE c == Event("completed", 0)
             d == Event("done", 0)
  <2>1. /\ handler = "running" /\ handler' = "done" /\ (Task.generator \/ said # <<>>)
        /\ UNCHANGED <<ask, said, socket, buffer, got, client>>
    BY <1>12 DEF HandlerEnds
  <2>2. Streams => enqueued' = enqueued \o <<c, d>> /\ UNCHANGED answer
    BY <1>12 DEF HandlerEnds
  <2>3. ~Streams => answer' = "result" /\ UNCHANGED enqueued
    BY <1>12 DEF HandlerEnds
  <2>4. c \in EventRec /\ d \in EventRec /\ c.kind = "completed" /\ d.kind = "done"
    <3>1. c \in EventRec /\ d \in EventRec
      BY PieceTypes
    <3> QED
      BY <3>1 DEF Event
  <2> HIDE DEF c, d
  <2>5. enqueued \o <<c, d>> = Append(Append(enqueued, c), d)
    BY <1>3, <2>4
  <2>6. Append(Append(enqueued, c), d) \in Seq(EventRec)
    BY <1>3, <2>4
  <2>7. RemoteTyped'
    BY <1>1, <2>1, <2>2, <2>3, <2>5, <2>6 DEF RemoteTyped, Numbered
  <2>8. Answered'
    BY <1>1, <2>1, <2>2, <2>3 DEF Answered, Streams, Task
  <2>9. (Streaming' = FALSE) /\ (Done' = TRUE) /\ (Done = FALSE)
    BY <2>1 DEF Streaming, Done
  <2>10. CASE Streams
    <3>1. Streaming = TRUE
      BY <2>1, <2>10 DEF Streaming
    <3>2. OnTheWay(all, t, g, n, TRUE, FALSE)
      BY <1>2, <2>9, <3>1
    <3>3. OnTheWay(all, t, g, n, FALSE, TRUE) /\ g + t = n
      BY <3>2 DEF OnTheWay
    <3>4. OnTheWay(Append(all, c), t, g, n, FALSE, TRUE) /\ Append(all, c) \in Seq(EventRec)
      <4>1. all \in Seq(EventRec) /\ OnTheWay(all, t, g, n, FALSE, TRUE) /\ g \in Nat /\ n \in Nat
        BY <1>3, <1>4, <3>3
      <4> HIDE DEF all, g, n
      <4>2. c.kind # "text" /\ c.kind # "done"
        BY <2>4
      <4>3. OnTheWay(Append(all, c), t, g, n, FALSE, TRUE)
        BY <2>4, <4>1, <4>2, Ends
      <4> QED
        BY <2>4, <4>1, <4>3, AppendProperties
    <3>5. OnTheWay(Append(Append(all, c), d), t, g, n, FALSE, TRUE)
      BY <1>3, <2>4, <3>3, <3>4, Ends
    <3>6. events \o enqueued' = Append(Append(all, c), d)
      <4>1. events \o Append(enqueued, c) = Append(all, c) /\ Append(enqueued, c) \in Seq(EventRec)
        BY <1>3, <2>4
      <4>2. events \o Append(Append(enqueued, c), d) = Append(events \o Append(enqueued, c), d)
        BY <2>4, <4>1
      <4> QED
        BY <2>2, <2>5, <2>10, <4>1, <4>2
    <3>7. answer' = "stream"
      BY <1>1, <2>1, <2>2, <2>10 DEF Answered
    <3>8. OnTheWay(events \o enqueued', t, Len(got'), Len(said'), Streaming', Done')
      BY <2>1, <2>9, <3>5, <3>6
    <3>9. UnderWay'
      BY <1>2, <1>6, <2>1, <3>7, <3>8
    <3> QED
      BY <2>7, <2>8, <3>9 DEF RemoteInv
  <2>11. CASE ~Streams
    <3>1. all = <<>> /\ enqueued' = enqueued
      BY <1>1, <1>2, <2>1, <2>3, <2>11 DEF Answered
    <3>2. UnderWay'
      BY <1>7, <2>1, <2>9, <3>1
    <3> QED
      BY <2>7, <2>8, <3>2 DEF RemoteInv
  <2> QED
    BY <2>10, <2>11
<1>13. CASE HandlerThrows
  <2> DEFINE e == Event("error", 0)
  <2>1. /\ handler = "running" /\ handler' = "threw"
        /\ UNCHANGED <<ask, said, buffer, got, client>>
    BY <1>13 DEF HandlerThrows
  <2>2. e \in EventRec /\ e.kind = "error"
    <3>1. e \in EventRec
      BY PieceTypes
    <3> QED
      BY <3>1 DEF Event
  <2>3. (Streaming' = FALSE) /\ (Done' = FALSE) /\ (Done = FALSE)
    BY <2>1 DEF Streaming, Done
  <2>4. CASE answer = "stream"
    <3>1. /\ enqueued' = <<>> /\ UNCHANGED answer
          /\ socket' = IF enqueued = <<>> THEN socket \o Pieces(e) ELSE socket
      BY <1>13, <2>4 DEF HandlerThrows
    <3>2. /\ socket \o Pieces(e) \in Seq(Piece) /\ Append(events, e) \in Seq(EventRec)
          /\ Carries(buffer \o (socket \o Pieces(e)), Append(events, e))
      BY <1>2, <1>3, <2>2, SendOne
    <3>3. RemoteTyped'
      <4>1. enqueued' \in Seq(EventRec) /\ socket' \in Seq(Piece) /\ answer' = answer
        BY <1>3, <3>1, <3>2, EmptySeq
      <4> QED
        BY <1>1, <2>1, <4>1 DEF RemoteTyped, Numbered
    <3>4. Answered'
      BY <1>1, <2>1, <3>1 DEF Answered, Streams, Task
    <3>5. Streaming = TRUE
      BY <1>1, <2>1, <2>4 DEF Answered, Streaming
    <3>6. OnTheWay(events, Len(events), g, n, FALSE, FALSE) /\ Len(events) \in Nat
      <4>1. OnTheWay(events \o enqueued, t, g, n, TRUE, FALSE)
        BY <1>2, <2>3, <3>5
      <4> QED
        BY <1>3, <4>1, Lost, LenProperties
    <3> HIDE DEF e
    <3>7. OnTheWay(Append(events, e), Len(events), g, n, FALSE, FALSE)
      BY <1>3, <2>2, <3>6, Ends
    <3>8. /\ events \o enqueued' = events
          /\ Append(events, e) \o enqueued' = Append(events, e)
      BY <3>1, <3>2, ConcatEmptySeq
    <3>9. CASE enqueued = <<>>
      BY <1>6, <2>1, <2>3, <2>4, <3>1, <3>2, <3>3, <3>4, <3>7, <3>8, <3>6, <3>9 DEF RemoteInv
    <3>10. CASE enqueued # <<>>
      <4>1. UnderWay'
        BY <1>2, <1>6, <2>1, <2>3, <2>4, <3>1, <3>6, <3>8, <3>10
      <4> QED
        BY <3>3, <3>4, <4>1 DEF RemoteInv
    <3> QED
      BY <3>9, <3>10
  <2>5. CASE answer # "stream"
    <3>1. answer' = "error" /\ UNCHANGED <<enqueued, socket>>
      BY <1>13, <2>5 DEF HandlerThrows
    <3>2. RemoteTyped'
      BY <1>1, <2>1, <3>1 DEF RemoteTyped, Numbered
    <3>3. Answered'
      BY <1>1, <2>1, <2>5, <3>1 DEF Answered, Streams, Task
    <3>4. UnderWay'
      BY <1>2, <1>7, <2>1, <2>3, <2>5, <3>1
    <3> QED
      BY <3>2, <3>3, <3>4 DEF RemoteInv
  <2> QED
    BY <2>4, <2>5
<1>14. CASE Pump
  <2>1. /\ enqueued # <<>> /\ socket' = socket \o Pieces(Head(enqueued)) /\ enqueued' = Tail(enqueued)
        /\ UNCHANGED <<ask, handler, said, answer, buffer, got, client>>
    BY <1>14 DEF Pump
  <2>2. Head(enqueued) \in EventRec /\ Tail(enqueued) \in Seq(EventRec)
    BY <1>3, <2>1, HeadTailProperties
  <2>3. /\ socket' \in Seq(Piece) /\ Append(events, Head(enqueued)) \in Seq(EventRec)
        /\ Carries(buffer' \o socket', Append(events, Head(enqueued)))
    BY <1>2, <1>3, <2>1, <2>2, SendOne
  <2>4. Append(events, Head(enqueued)) \o enqueued' = all
    BY <1>3, <2>1, Pumped
  <2>5. RemoteTyped'
    BY <1>1, <2>1, <2>2, <2>3 DEF RemoteTyped, Numbered
  <2>6. Answered'
    BY <1>1, <2>1 DEF Answered, Streams, Task
  <2>7. (Streaming' = Streaming) /\ (Done' = Done)
    BY <2>1 DEF Streaming, Done, Streams, Task
  <2>8. UnderWay'
    BY <1>2, <1>6, <2>1, <2>3, <2>4, <2>7
  <2> QED
    BY <2>5, <2>6, <2>8 DEF RemoteInv
<1>15. CASE HearAnswer
  <2>1. /\ client = "waiting" /\ answer # "none"
        /\ UNCHANGED <<ask, handler, said, answer, enqueued, socket, buffer>>
        /\ got' = IF answer = "result" THEN said ELSE got
        /\ client' = CASE answer \in {"too large", "unauthorized"} -> "threw"
                 [] answer = "error" -> IF Streams THEN "ended" ELSE "threw"
                 [] answer = "result" -> "returned"
                 [] answer = "stream" -> "reading"
    BY <1>15 DEF HearAnswer
  <2>2. RemoteTyped'
    BY <1>1, <2>1 DEF RemoteTyped, Numbered
  <2>3. Answered'
    BY <1>1, <2>1 DEF RemoteTyped, Answered, Streams, Task
  <2>4. (Streaming' = Streaming) /\ (Done' = Done)
    BY <2>1 DEF Streaming, Done, Streams, Task
  <2>5. CASE answer = "result"
    <3>1. all = <<>> /\ (Streaming = FALSE) /\ got' = said
      BY <1>1, <1>2, <2>1, <2>5 DEF Answered, Streaming
    <3>2. OnTheWay(all, 0, n, n, FALSE, Done)
      BY <1>3, <1>4, <3>1 DEF OnTheWay
    <3>3. UnderWay'
      BY <1>2, <1>6, <2>1, <2>4, <3>1, <3>2
    <3> QED
      BY <2>2, <2>3, <3>3 DEF RemoteInv
  <2>6. CASE answer # "result"
    <3>1. UnderWay'
      BY <1>2, <1>6, <2>1, <2>4, <2>6
    <3> QED
      BY <2>2, <2>3, <3>1 DEF RemoteInv
  <2> QED
    BY <2>5, <2>6
<1>16. CASE Read
  <2>1. UNCHANGED <<ask, handler, said, answer, enqueued, got, client>>
    BY <1>16 DEF Read
  <2>2. PICK m \in 1..Len(socket) :
          /\ buffer' = buffer \o SubSeq(socket, 1, m)
          /\ socket' = SubSeq(socket, m + 1, Len(socket))
    BY <1>16 DEF Read
  <2>3. buffer' \in Seq(Piece) /\ socket' \in Seq(Piece) /\ buffer' \o socket' = buffer \o socket
    BY <1>3, <2>2, ReadMoves
  <2>4. RemoteTyped'
    BY <1>1, <2>1, <2>3 DEF RemoteTyped, Numbered
  <2>5. Answered'
    BY <1>1, <2>1 DEF Answered, Streams, Task
  <2>6. (Streaming' = Streaming) /\ (Done' = Done)
    BY <2>1 DEF Streaming, Done, Streams, Task
  <2>7. UnderWay'
    BY <1>2, <1>6, <2>1, <2>3, <2>6
  <2> QED
    BY <2>4, <2>5, <2>7 DEF RemoteInv
<1>17. CASE TakeLine
  <2>1. client = "reading" /\ UNCHANGED <<ask, handler, said, answer, enqueued, socket>>
    BY <1>17 DEF TakeLine
  <2>2. PICK m \in DOMAIN buffer :
          LET event == buffer[m].event
              kind == IF m = 1 THEN "none" ELSE event.kind IN
          /\ LineAt(m)
          /\ buffer' = SubSeq(buffer, m + 1, Len(buffer))
          /\ got' = IF kind = "text" THEN Append(got, event.chunk) ELSE got
          /\ client' = IF kind = "done" THEN "completed" ELSE client
    BY <1>17 DEF TakeLine
  <2>3. /\ m = 2 /\ events # <<>> /\ buffer[2].event = events[1]
        /\ SubSeq(buffer, 3, Len(buffer)) \in Seq(Piece)
        /\ Tail(events) \in Seq(EventRec)
        /\ Carries(SubSeq(buffer, 3, Len(buffer)) \o socket, Tail(events))
    BY <1>2, <1>3, <2>2, TakeFirst
  <2> DEFINE ev == events[1]
  <2>4. /\ buffer' = SubSeq(buffer, 3, Len(buffer))
        /\ got' = IF ev.kind = "text" THEN Append(got, ev.chunk) ELSE got
        /\ client' = IF ev.kind = "done" THEN "completed" ELSE client
    BY <2>2, <2>3
  <2>5. all # <<>> /\ all[1] = ev /\ Tail(all) = Tail(events) \o enqueued
    <3>1. Len(events) \in Nat /\ Len(events) >= 1 /\ Len(enqueued) \in Nat
      BY <1>3, <2>3, EmptySeq, LenProperties
    <3>2. /\ Len(all) = Len(events) + Len(enqueued)
          /\ \A i \in 1..(Len(events) + Len(enqueued)) :
               all[i] = IF i <= Len(events) THEN events[i] ELSE enqueued[i - Len(events)]
      BY <1>3, ConcatProperties
    <3>3. all # <<>> /\ all[1] = ev
      BY <3>1, <3>2
    <3>4. /\ Tail(all) \in Seq(EventRec) /\ Len(Tail(all)) = Len(all) - 1
          /\ \A i \in 1..Len(Tail(all)) : Tail(all)[i] = all[i + 1]
      BY <1>4, <3>3, HeadTailProperties
    <3>5. /\ Len(Tail(events)) = Len(events) - 1
          /\ \A i \in 1..Len(Tail(events)) : Tail(events)[i] = events[i + 1]
      BY <2>3, HeadTailProperties
    <3> DEFINE x == Tail(all)
               y == Tail(events)
               z == y \o enqueued
    <3>6. /\ z \in Seq(EventRec) /\ Len(z) = Len(y) + Len(enqueued)
          /\ \A i \in 1..(Len(y) + Len(enqueued)) : z[i] = IF i <= Len(y) THEN y[i] ELSE enqueued[i - Len(y)]
      BY <1>3, <2>3, ConcatProperties
    <3> HIDE DEF x, y, z
    <3>7. Len(x) = Len(z)
      BY <3>1, <3>2, <3>4, <3>5, <3>6 DEF x, y
    <3>8. \A i \in 1..Len(x) : x[i] = z[i]
      <4> TAKE i \in 1..Len(x)
      <4>1. /\ i \in 1..(Len(y) + Len(enqueued)) /\ i + 1 \in 1..(Len(events) + Len(enqueued))
            /\ (i <= Len(y) <=> i + 1 <= Len(events)) /\ i + 1 - Len(events) = i - Len(y)
        <5>1. /\ Len(y) = Len(events) - 1 /\ Len(y) \in Nat /\ i \in Nat
              /\ i >= 1 /\ i <= Len(y) + Len(enqueued)
          BY <3>1, <3>5, <3>6, <3>7 DEF y
        <5> QED
          BY <3>1, <5>1
      <4>2. x[i] = all[i + 1]
        BY <3>4 DEF x
      <4>3. CASE i <= Len(y)
        <5>1. i \in 1..Len(y)
          BY <3>1, <3>5, <4>1, <4>3 DEF y
        <5> QED
          BY <3>2, <3>5, <3>6, <4>1, <4>2, <4>3, <5>1 DEF y
      <4>4. CASE ~(i <= Len(y))
        BY <3>2, <3>6, <4>1, <4>2, <4>4
      <4> QED
        BY <4>3, <4>4
    <3>9. x = z
      BY <3>4, <3>6, <3>7, <3>8, SeqEqual DEF x
    <3> QED
      BY <3>3, <3>9 DEF x, y, z
  <2>6. Streaming \in BOOLEAN /\ Done \in BOOLEAN
    BY DEF Streaming, Done
  <2>7. /\ all[1].kind = "text" =>
             t > 0 /\ all[1] = Event("text", g + 1) /\ OnTheWay(Tail(all), t - 1, g + 1, n, Streaming, Done)
        /\ all[1].kind # "text" => t = 0 /\ OnTheWay(Tail(all), 0, g, n, Streaming, Done)
        /\ all[1].kind = "done" => Done /\ g = n
    <3>1. OnTheWay(all, t, g, n, Streaming, Done) /\ all \in Seq(EventRec) /\ all # <<>>
          /\ g \in Nat /\ n \in Nat
      BY <1>2, <1>3, <1>4, <2>5
    <3> HIDE DEF all, g, n
    <3> QED
      BY <2>6, <3>1, Arrives
  <2>8. (Streaming' = Streaming) /\ (Done' = Done) /\ answer' = "stream"
    BY <1>1, <2>1 DEF Streaming, Done, Streams, Task, Answered
  <2>9. CASE ev.kind = "text"
    <3>1. ev = Event("text", g + 1) /\ ev.chunk = g + 1
      BY <2>5, <2>7, <2>9 DEF Event
    <3>2. got' = Append(got, g + 1) /\ client' = client
      BY <2>4, <2>9, <3>1
    <3>3. /\ got' \in Seq(Nat) /\ Len(got') = g + 1
          /\ \A i \in 1..g : got'[i] = got[i]
          /\ got'[g + 1] = g + 1
      BY <1>3, <3>2, AppendProperties
    <3>4. \A i \in 1..Len(got') : got'[i] = i
      <4> TAKE i \in 1..Len(got')
      <4>1. i \in 1..g \/ i = g + 1
        BY <1>3, <3>3
      <4> QED
        BY <1>3, <3>3, <4>1
    <3>5. RemoteTyped'
      BY <1>1, <2>1, <2>3, <2>4, <3>3, <3>4 DEF RemoteTyped, Numbered
    <3>6. Answered'
      BY <1>1, <2>1, <3>2 DEF Answered, Streams, Task
    <3>7. OnTheWay(Tail(events) \o enqueued', t - 1, Len(got'), Len(said'), Streaming', Done') /\ t - 1 \in Nat
      <4>1. t > 0 /\ OnTheWay(Tail(all), t - 1, g + 1, n, Streaming, Done)
        BY <2>5, <2>7, <2>9
      <4>2. Tail(all) = Tail(events) \o enqueued' /\ Len(got') = g + 1 /\ Len(said') = n
        BY <2>1, <2>5, <3>3
      <4>3. t - 1 \in Nat
        BY <4>1
      <4> QED
        BY <2>8, <4>1, <4>2, <4>3
    <3>8. UnderWay'
      BY <1>6, <2>1, <2>3, <2>4, <2>8, <3>7
    <3> QED
      BY <3>5, <3>6, <3>8 DEF RemoteInv
  <2>10. CASE ev.kind # "text"
    <3>1. got' = got
      BY <2>4, <2>10
    <3>2. RemoteTyped'
      BY <1>1, <2>1, <2>3, <2>4, <3>1 DEF RemoteTyped, Numbered
    <3>3. client' = "completed" => handler = "done" /\ got = said
      <4>1. client' = "completed" => Done /\ g = n
        BY <2>1, <2>4, <2>5, <2>7
      <4>2. g = n => got = said
        BY <1>3, SeqEqual
      <4> QED
        BY <4>1, <4>2 DEF Done
    <3>4. client' \in {"reading", "completed"}
      BY <2>1, <2>4
    <3>5. Answered'
      BY <1>1, <2>1, <2>8, <3>1, <3>3, <3>4 DEF Answered, Streams, Task
    <3>6. OnTheWay(Tail(events) \o enqueued', 0, Len(got'), Len(said'), Streaming', Done')
      BY <2>1, <2>5, <2>7, <2>8, <2>10, <3>1
    <3>7. UnderWay'
      BY <1>6, <2>1, <2>3, <2>4, <2>8, <3>6
    <3> QED
      BY <3>2, <3>5, <3>7 DEF RemoteInv
  <2> QED
    BY <2>9, <2>10
<1>18. CASE ReadEnds \/ TimeIsUp \/ Leave
  <2>1. UNCHANGED <<ask, handler, said, answer, enqueued, socket, buffer, got>>
    BY <1>18 DEF ReadEnds, TimeIsUp, Leave
  <2>2. /\ client \in {"waiting", "reading"} /\ client' \in {"ended", "threw", "left"}
        /\ client' = "threw" => Task.timed
    BY <1>18 DEF ReadEnds, TimeIsUp, Leave
  <2>3. RemoteTyped'
    BY <1>1, <2>1 DEF RemoteTyped, Numbered
  <2>4. Answered'
    BY <1>1, <2>1, <2>2 DEF Answered, Streams, Task
  <2>5. (Streaming' = Streaming) /\ (Done' = Done)
    BY <2>1 DEF Streaming, Done, Streams, Task
  <2>6. UnderWay'
    BY <1>2, <1>6, <2>1, <2>5
  <2> QED
    BY <2>3, <2>4, <2>6 DEF RemoteInv
<1>19. CASE UNCHANGED remoteVars
  <2>1. UNCHANGED <<ask, handler, said, answer, enqueued, socket, buffer, got, client>>
    BY <1>19 DEF remoteVars
  <2>2. RemoteTyped' /\ Answered'
    BY <1>1, <2>1 DEF RemoteTyped, Numbered, Answered, Streams, Task
  <2>3. (Streaming' = Streaming) /\ (Done' = Done)
    BY <2>1 DEF Streaming, Done, Streams, Task
  <2>4. UnderWay'
    BY <1>2, <1>6, <2>1, <2>3
  <2> QED
    BY <2>2, <2>4 DEF RemoteInv
<1> QED
  BY <1>8, <1>9, <1>10, <1>11, <1>12, <1>13, <1>14, <1>15, <1>16, <1>17, <1>18, <1>19 DEF RemoteNext

LEMMA RemoteHolds == RemoteInv => RemoteAnswersTrue
<1> SUFFICES ASSUME RemoteInv PROVE RemoteAnswersTrue
  OBVIOUS
<1>1. PICK events \in Seq(EventRec), t \in Nat :
        OnTheWay(events \o enqueued, t, Len(got), Len(said), Streaming, Done)
  BY DEF RemoteInv, UnderWay
<1>2. /\ got \in Seq(Nat) /\ said \in Seq(Nat) /\ Len(got) \in Nat /\ Len(said) \in Nat
      /\ \A i \in 1..Len(got) : got[i] = i
      /\ \A i \in 1..Len(said) : said[i] = i
  BY LenProperties DEF RemoteInv, RemoteTyped, Numbered
<1>3. Len(got) <= Len(said)
  <2>1. Len(got) + t <= Len(said)
    BY <1>1 DEF OnTheWay
  <2> QED
    BY <1>2, <2>1
<1> DEFINE g == Len(got)
<1>4. /\ SubSeq(got, 1, g) \in Seq(Nat) /\ Len(SubSeq(got, 1, g)) = g
      /\ \A i \in 1..g : SubSeq(got, 1, g)[i] = i
  BY <1>2, SubSeqFull
<1>5. /\ SubSeq(said, 1, g) \in Seq(Nat) /\ Len(SubSeq(said, 1, g)) = g
      /\ \A i \in 1..g : SubSeq(said, 1, g)[i] = i
  <2>1. /\ 1 \in Int /\ g \in Int /\ \A i \in 1..g : said[i] \in Nat /\ said[i] = i
        /\ g - 1 + 1 = g /\ (1 <= g \/ g = 0) /\ \A i \in 1..g : 1 + i - 1 = i
    BY <1>2, <1>3
  <2>2. /\ SubSeq(said, 1, g) \in Seq(Nat)
        /\ Len(SubSeq(said, 1, g)) = IF 1 <= g THEN g - 1 + 1 ELSE 0
        /\ \A i \in 1..(g - 1 + 1) : SubSeq(said, 1, g)[i] = said[1 + i - 1]
    BY <2>1, SubSeqProperties
  <2> QED
    BY <2>1, <2>2
<1>6. SubSeq(got, 1, g) = SubSeq(said, 1, g)
  BY <1>4, <1>5, SeqEqual
<1>7. IsPrefix(got, said)
  BY <1>3, <1>6 DEF IsPrefix
<1> QED
  BY <1>7 DEF RemoteAnswersTrue, RemoteInv, Answered

-----------------------------------------------------------------------------
(* All of them *)

ClientsInv == ExternalInv /\ McpInv /\ LspInv /\ ManagerInv /\ RemoteInv

LEMMA ClientsInit == ClientInit => ClientsInv
<1> SUFFICES ASSUME ClientInit PROVE ClientsInv
  OBVIOUS
<1>1. ExternalInv
  BY ExternalAgentAssumption
     DEF ClientInit, ExternalInit, ExternalInv, ExternalTypeOK, RunState, Bounded, Guarded, Finished, Watchdogs
<1>2. McpInv
  <2>1. /\ mcpState = "disconnected" /\ connector = NoConnector /\ refresh = NoRefresh
        /\ connected = FALSE /\ proc = "none" /\ orphans = 0
        /\ nextId = 1 /\ pending = {} /\ inbox = {} /\ pipe = <<>>
        /\ tools = 0 /\ serverTools = 0 /\ asks = 0 /\ chunk = FALSE
        /\ mcpTask = [k \in McpTasks |-> "idle"]
    BY DEF ClientInit, McpInit
  <2>2. /\ 0 \in 0..MaxChanges /\ 0 \in 0..MaxAsks /\ 1 \in Nat /\ 0 \in Nat /\ <<>> \in Seq(Message)
    BY McpAssumption
  <2>3. NoConnector \in [await : Await, got : Outcome]
    BY DEF NoConnector, Await, Outcome
  <2>4. NoRefresh \in [on : BOOLEAN, got : Outcome, version : 0..MaxChanges]
    BY <2>2 DEF NoRefresh, Outcome
  <2>5. mcpTask \in [McpTasks -> {"idle", "pending", "answered", "failed"}]
    BY <2>1
  <2>6. McpTypeOK
    BY <2>1, <2>2, <2>3, <2>4, <2>5 DEF McpTypeOK
  <2> QED
    BY <2>1, <2>2, <2>6 DEF McpInv
<1>3. LspInv
  <2>1. /\ lspState = "disconnected" /\ live = FALSE /\ fileVersions = <<>> /\ cache = <<>>
        /\ server = NoDocuments /\ lspTask = [k \in Tasks |-> "idle"]
    BY DEF ClientInit, LspInit
  <2>2. /\ <<>> \in Seq([file : Files, version : Nat]) /\ <<>> \in Seq(Files) /\ Len(<<>>) = 0
        /\ MaxTracked \in Nat
    BY LspAssumption
  <2>3. LspTypeOK
    <3>1. server \in [Files -> Int]
      BY <2>1 DEF NoDocuments
    <3>2. lspTask \in [Tasks -> {"idle", "answered", "failed"} \cup Waiting]
      BY <2>1
    <3> QED
      BY <2>1, <2>2, <3>1, <3>2 DEF LspTypeOK
  <2> QED
    BY <2>1, <2>2, <2>3 DEF LspInv
<1>4. ManagerInv
  <2> DEFINE t == [at |-> "idle", awaits |-> 0, left |-> <<>>, found |-> {}]
  <2>1. /\ registered = NoClients /\ spawning = NoClients
        /\ brokenServers = {} /\ spawned = <<>> /\ disabled = FALSE
        /\ touch = [k \in Touches |-> t]
    BY DEF ClientInit, ManagerInit
  <2>2. 0 \in ClientId /\ MaxSpawns \in Nat /\ Len(<<>>) = 0 /\ <<>> \in Seq(Client) /\ <<>> \in Seq(AllServers)
    BY ManagerAssumption DEF ClientId
  <2>3. t \in TouchState /\ t.at = "idle"
    BY <2>2 DEF TouchState
  <2> HIDE DEF t
  <2>4. touch \in [Touches -> TouchState] /\ NoClients \in [AllServers -> ClientId]
    BY <2>1, <2>2, <2>3 DEF NoClients
  <2>5. ManagerTypeOK
    BY <2>1, <2>2, <2>4 DEF ManagerTypeOK, TouchState, Client
  <2> QED
    BY <2>1, <2>2, <2>3, <2>5 DEF ManagerInv
<1>5. RemoteInv
  <2>1. /\ ask = <<>> /\ handler = "idle" /\ said = <<>> /\ answer = "none" /\ enqueued = <<>>
        /\ socket = <<>> /\ buffer = <<>> /\ got = <<>> /\ client = "idle"
    BY DEF ClientInit, RemoteInit
  <2>2. /\ <<>> \in Seq(EventRec) /\ <<>> \in Seq(Piece) /\ <<>> \in Seq(Nat) /\ Len(<<>>) = 0
        /\ <<>> \o <<>> = <<>>
    OBVIOUS
  <2>3. RemoteTyped /\ Answered
    BY <2>1, <2>2 DEF RemoteTyped, Numbered, Answered
  <2>4. Carries(<<>>, <<>>)
    BY <2>2 DEF Carries
  <2>5. (Streaming = FALSE) /\ (Done = FALSE)
    BY <2>1 DEF Streaming, Done
  <2>6. OnTheWay(<<>>, 0, 0, 0, FALSE, FALSE)
    BY <2>2 DEF OnTheWay
  <2>7. UnderWay
    BY <2>1, <2>2, <2>4, <2>5, <2>6 DEF UnderWay
  <2> QED
    BY <2>3, <2>7 DEF RemoteInv
<1> QED
  BY <1>1, <1>2, <1>3, <1>4, <1>5 DEF ClientsInv

LEMMA ClientsStep == ClientsInv /\ [ClientNext]_clientVars => ClientsInv'
<1>1. [ClientNext]_clientVars =>
        /\ [ExternalNext]_externalVars /\ [McpNext]_mcpVars /\ [LspNext]_lspVars
        /\ [ManagerNext]_managerVars /\ [RemoteNext]_remoteVars
  BY DEF ClientNext, clientVars, localVars
<1> QED
  BY <1>1, ExternalStep, McpStep, LspStep, ManagerStep, RemoteStep DEF ClientsInv

LEMMA ClientsKeep == ClientSpec => []ClientsInv
<1>1. ClientInit => ClientsInv
  BY ClientsInit
<1>2. ClientsInv /\ [ClientNext]_clientVars => ClientsInv'
  BY ClientsStep
<1> QED
  BY <1>1, <1>2, PTL DEF ClientSpec

(* lsp/client.ts:13: the documents of a language server that is ready are   *)
(* in step with what this very process was told, for any documents, calls   *)
(* and cap, through crashes, stops, restarts and evictions.                 *)
THEOREM DocumentsStayInStep == ClientSpec => []DocumentsInStep
<1>1. ClientsInv => DocumentsInStep
  BY LspHolds DEF ClientsInv
<1> QED
  BY <1>1, ClientsKeep, PTL

(* Whoever was answered, given up or disconnected has left no process       *)
(* behind, what is kept of a process is bounded, and what the caller of a   *)
(* remote agent has is the beginning of what was said, however the body was *)
(* cut: for any runs, servers, calls, limits and lengths.                   *)
THEOREM ClientsAreSound == ClientSpec => []ClientsSound
<1>1. ClientsInv => ClientsSound
  BY ExternalHolds, McpHolds, RemoteHolds DEF ClientsInv, ClientsSound, LspInv, ManagerInv
<1> QED
  BY <1>1, ClientsKeep, PTL

-----------------------------------------------------------------------------
(***************************************************************************)
(* That the clients settle once.  A step makes one call that was idle, or  *)
(* settles some that are pending, as SettleOnce allows; and what a pending *)
(* call waits for is there: an entry of a table, or a start in flight.     *)
(***************************************************************************)
Status == {"idle", "pending", "answered", "failed"}

SettlesSome(S, old, new) ==
  \/ new = old
  \/ \E R \in SUBSET {r \in S : old[r] = "pending"} : \E how \in [R -> {"answered", "failed"}] :
       R # {} /\ new = [r \in S |-> IF r \in R THEN how[r] ELSE old[r]]
AsksOne(S, old, new) ==
  \E r \in S : old[r] = "idle" /\ \E s \in {"pending", "answered", "failed"} : new = [old EXCEPT ![r] = s]
SettlesOrAsks(S, old, new) == SettlesSome(S, old, new) \/ AsksOne(S, old, new)

LEMMA SettlingIsAllowed ==
  ASSUME NEW S, NEW old \in [S -> Status], NEW new \in [S -> Status],
         \A r \in S : new[r] = old[r] \/ (old[r] = "pending" /\ new[r] \in {"answered", "failed"})
  PROVE  SettlesOrAsks(S, old, new)
<1> DEFINE R == {r \in S : new[r] # old[r]}
           how == [r \in R |-> new[r]]
<1>1. R \in SUBSET {r \in S : old[r] = "pending"} /\ how \in [R -> {"answered", "failed"}]
  OBVIOUS
<1>2. new = [r \in S |-> IF r \in R THEN how[r] ELSE old[r]]
  <2>1. \A r \in S : new[r] = IF r \in R THEN how[r] ELSE old[r]
    OBVIOUS
  <2> HIDE DEF R, how
  <2>2. new = [r \in S |-> new[r]]
    OBVIOUS
  <2> QED BY <2>1, <2>2
<1>3. R = {} => new = old
  <2>1. R = {} => \A r \in S : new[r] = old[r]
    OBVIOUS
  <2>2. new = [r \in S |-> new[r]] /\ old = [r \in S |-> old[r]]
    OBVIOUS
  <2> HIDE DEF R, how
  <2> QED BY <2>1, <2>2
<1> HIDE DEF R, how
<1> QED BY <1>1, <1>2, <1>3 DEF SettlesSome, SettlesOrAsks

(* One call changes as it may; all the others stay.                        *)
LEMMA OneIsAllowed ==
  ASSUME NEW S, NEW old \in [S -> Status], NEW r \in S, NEW s \in Status, NEW new, new = [old EXCEPT ![r] = s],
         old[r] = "idle" \/ (old[r] = "pending" /\ s # "idle")
  PROVE  SettlesOrAsks(S, old, new)
<1>0. new \in [S -> Status] /\ new[r] = s /\ \A q \in S : q # r => new[q] = old[q]
  OBVIOUS
<1>1. CASE old[r] = "idle" /\ s # "idle"
  BY <1>1 DEF SettlesOrAsks, AsksOne, Status
<1>2. CASE ~(old[r] = "idle" /\ s # "idle")
  <2>1. \A q \in S : new[q] = old[q] \/ (old[q] = "pending" /\ new[q] \in {"answered", "failed"})
    BY <1>0, <1>2 DEF Status
  <2> HIDE DEF Status
  <2> QED BY <1>0, <2>1, SettlingIsAllowed
<1> QED BY <1>1, <1>2

(* The language server: a start in flight is what a starting call waits    *)
(* for; the other calls have timers of their own.                          *)
LspStatus == [k \in Tasks |-> IF lspTask[k] \in Waiting THEN "pending" ELSE lspTask[k]]
LspAsks == /\ lspTask \in [Tasks -> {"idle", "answered", "failed"} \cup Waiting]
           /\ lspState \in {"disconnected", "connecting", "ready", "broken"}
           /\ \A k \in Tasks : lspTask[k] = "starting" => lspState = "connecting"

LEMMA LspStatusTyped == LspAsks => LspStatus \in [Tasks -> Status]
BY DEF LspAsks, LspStatus, Status, Waiting

LEMMA LspSettling ==
  ASSUME LspAsks, lspState' \in {"disconnected", "connecting", "ready", "broken"},
         lspTask' \in [Tasks -> {"idle", "answered", "failed"} \cup Waiting],
         \A k \in Tasks : lspTask'[k] = "starting" => lspState' = "connecting",
         \A k \in Tasks : lspTask'[k] = lspTask[k] \/ (lspTask[k] \in Waiting /\ lspTask'[k] # "idle")
  PROVE  LspAsks' /\ SettlesOrAsks(Tasks, LspStatus, LspStatus')
<1>1. LspAsks'
  BY DEF LspAsks
<1>2. LspStatus \in [Tasks -> Status] /\ LspStatus' \in [Tasks -> Status]
  BY <1>1, LspStatusTyped DEF LspAsks, LspStatus, Status, Waiting
<1>3. \A k \in Tasks : \/ LspStatus'[k] = LspStatus[k]
                       \/ LspStatus[k] = "pending" /\ LspStatus'[k] \in {"answered", "failed"}
  BY DEF LspStatus, Waiting
<1> HIDE DEF Status
<1> QED BY <1>1, <1>2, <1>3, SettlingIsAllowed

LEMMA LspAsking ==
  ASSUME LspAsks, lspState' \in {"disconnected", "connecting", "ready", "broken"},
         NEW k \in Tasks, NEW s \in {"idle", "answered", "failed"} \cup Waiting,
         lspTask[k] = "idle", lspTask' = [lspTask EXCEPT ![k] = s],
         s = "starting" => lspState' = "connecting",
         lspState = "connecting" => lspState' = "connecting"
  PROVE  LspAsks' /\ SettlesOrAsks(Tasks, LspStatus, LspStatus')
<1>1. LspAsks'
  BY DEF LspAsks
<1> DEFINE st == IF s \in Waiting THEN "pending" ELSE s
<1>2. st \in Status
  BY DEF Status, Waiting
<1>3. LspStatus' = [LspStatus EXCEPT ![k] = st]
  BY DEF LspAsks, LspStatus
<1>4. LspStatus[k] = "idle"
  BY DEF LspStatus, Waiting
<1> HIDE DEF st, Status
<1> QED BY <1>1, <1>2, <1>3, <1>4, LspStatusTyped, OneIsAllowed

LEMMA LspAsksOn == LspAsks /\ [LspNext]_lspVars => LspAsks' /\ SettlesOrAsks(Tasks, LspStatus, LspStatus')
<1> SUFFICES ASSUME LspAsks, [LspNext]_lspVars PROVE LspAsks' /\ SettlesOrAsks(Tasks, LspStatus, LspStatus')
  OBVIOUS
<1>0. lspState' \in {"disconnected", "connecting", "ready", "broken"}
  BY DEF LspNext, lspVars, LspAsks, StartAnswered, StartSpawns, Touch, RequestMethod, RequestEnds, WaiterResolved,
         Initialized, InitializeFails, Stop, ProcessEnds, Publish
<1>1. ASSUME NEW k \in Tasks, StartAnswered(k) \/ StartSpawns(k) \/ Touch(k) \/ RequestMethod(k)
      PROVE  LspAsks' /\ SettlesOrAsks(Tasks, LspStatus, LspStatus')
  <2>1. /\ lspTask[k] = "idle"
        /\ \E s \in {"idle", "answered", "failed"} \cup Waiting :
             /\ lspTask' = [lspTask EXCEPT ![k] = s]
             /\ s = "starting" => lspState' = "connecting"
             /\ lspState = "connecting" => lspState' = "connecting"
    <3>1. CASE StartAnswered(k)
      <4>1. lspTask[k] = "idle" /\ lspState' = lspState
        BY <3>1 DEF StartAnswered
      <4>2. CASE lspState = "ready"
        BY <3>1, <4>1, <4>2 DEF StartAnswered
      <4>3. CASE lspState = "broken"
        BY <3>1, <4>1, <4>3 DEF StartAnswered
      <4>4. CASE lspState \notin {"ready", "broken"}
        <5>1. lspTask' = [lspTask EXCEPT ![k] = "starting"]
          BY <3>1, <4>4 DEF StartAnswered
        <5>2. lspState = "connecting"
          BY <3>1, <4>4 DEF StartAnswered, LspAsks
        <5> QED BY <4>1, <5>1, <5>2 DEF Waiting
      <4> QED BY <4>2, <4>3, <4>4
    <3>2. CASE StartSpawns(k)
      BY <3>2 DEF StartSpawns, Waiting
    <3>3. CASE Touch(k)
      <4>1. lspTask[k] = "idle" /\ lspState' = lspState
        BY <3>3 DEF Touch
      <4>2. lspTask' = [lspTask EXCEPT ![k] = "waiting"] \/ lspTask' = [lspTask EXCEPT ![k] = "answered"]
        BY <3>3 DEF Touch
      <4> QED BY <4>1, <4>2 DEF Waiting
    <3>4. CASE RequestMethod(k)
      <4>1. lspTask[k] = "idle" /\ lspState' = lspState
        BY <3>4 DEF RequestMethod
      <4>2. lspTask' = [lspTask EXCEPT ![k] = "requesting"] \/ lspTask' = [lspTask EXCEPT ![k] = "answered"]
        BY <3>4 DEF RequestMethod, Sends
      <4> QED BY <4>1, <4>2 DEF Waiting
    <3> QED BY <1>1, <3>1, <3>2, <3>3, <3>4
  <2> QED BY <1>0, <2>1, LspAsking
<1>2. ASSUME InitializeFails \/ Stop \/ ProcessEnds
      PROVE  LspAsks' /\ SettlesOrAsks(Tasks, LspStatus, LspStatus')
  <2>1. LetAllGo
    BY <1>2 DEF InitializeFails, Stop, ProcessEnds
  <2> QED BY <2>1, <1>0, LspSettling DEF LetAllGo, SettleTasks, At, LspAsks, Waiting
<1>3. ASSUME Initialized PROVE LspAsks' /\ SettlesOrAsks(Tasks, LspStatus, LspStatus')
  BY <1>3, <1>0, LspSettling DEF Initialized, SettleTasks, At, LspAsks, Waiting
<1>4. ASSUME NEW k \in Tasks, RequestEnds(k) \/ WaiterResolved(k)
      PROVE  LspAsks' /\ SettlesOrAsks(Tasks, LspStatus, LspStatus')
  <2>1. lspTask[k] \in Waiting /\ SettleTasks({k}, {}) /\ lspState' = lspState
    BY <1>4 DEF RequestEnds, WaiterResolved, Waiting
  <2> QED BY <2>1, <1>0, LspSettling DEF SettleTasks, LspAsks, Waiting
<1>5. ASSUME NEW f \in Files, Publish(f) PROVE LspAsks' /\ SettlesOrAsks(Tasks, LspStatus, LspStatus')
  BY <1>5, <1>0, LspSettling DEF Publish, LspAsks, Waiting
<1>6. ASSUME UNCHANGED lspVars PROVE LspAsks' /\ SettlesOrAsks(Tasks, LspStatus, LspStatus')
  BY <1>6, <1>0, LspSettling DEF lspVars, LspAsks
<1> QED BY <1>1, <1>2, <1>3, <1>4, <1>5, <1>6 DEF LspNext

(* The manager: a call that joined or made a start waits for a client that *)
(* was made.                                                               *)
ManagerStatus ==
  [k \in Touches |-> IF touch[k].at \in {"idle", "answered"} THEN touch[k].at ELSE "pending"]
ManagerAsks ==
  /\ touch \in [Touches -> TouchState] /\ Len(spawned) \in Nat
  /\ \A s \in AllServers : spawning[s] \in 0..Len(spawned)
  /\ \A k \in Touches : touch[k].at \in {"joined", "owner"} => touch[k].awaits \in 1..Len(spawned)

LEMMA ManagerStatusTyped == ManagerAsks => ManagerStatus \in [Touches -> Status]
BY DEF ManagerAsks, ManagerStatus, Status

LEMMA ManagerGoes ==
  ASSUME ManagerAsks, NEW k \in Touches, NEW t \in TouchState, Goes(k, t),
         Len(spawned') \in Nat, Len(spawned') >= Len(spawned),
         \A s \in AllServers : spawning'[s] \in 0..Len(spawned'),
         t.at \in {"joined", "owner"} => t.awaits \in 1..Len(spawned'),
         touch[k].at = "idle" \/ (touch[k].at # "answered" /\ t.at # "idle")
  PROVE  ManagerAsks' /\ SettlesOrAsks(Touches, ManagerStatus, ManagerStatus')
<1>1. touch' = [touch EXCEPT ![k] = t] /\ touch' \in [Touches -> TouchState] /\ touch'[k] = t
      /\ \A j \in Touches : j # k => touch'[j] = touch[j]
  BY DEF Goes, ManagerAsks
<1>2. ManagerAsks'
  <2>1. \A j \in Touches : touch'[j].at \in {"joined", "owner"} => touch'[j].awaits \in 1..Len(spawned')
    <3> SUFFICES ASSUME NEW j \in Touches, j # k, touch[j].at \in {"joined", "owner"}
                 PROVE  touch[j].awaits \in 1..Len(spawned')
      BY <1>1
    <3> QED BY DEF ManagerAsks
  <2> QED BY <1>1, <2>1 DEF ManagerAsks
<1> DEFINE st == IF t.at \in {"idle", "answered"} THEN t.at ELSE "pending"
<1>3. ManagerStatus' = [ManagerStatus EXCEPT ![k] = st]
  BY <1>1 DEF ManagerStatus
<1>4. st \in Status /\ ManagerStatus \in [Touches -> Status]
  BY ManagerStatusTyped DEF Status
<1>5. ManagerStatus[k] = "idle" \/ (ManagerStatus[k] = "pending" /\ st # "idle")
  BY DEF ManagerStatus
<1> HIDE DEF st, Status
<1> QED BY <1>2, <1>3, <1>4, <1>5, OneIsAllowed

LEMMA ManagerAsksOn ==
  ManagerInv /\ ManagerAsks /\ [ManagerNext]_managerVars =>
    ManagerAsks' /\ SettlesOrAsks(Touches, ManagerStatus, ManagerStatus')
<1> SUFFICES ASSUME ManagerInv, ManagerAsks, [ManagerNext]_managerVars
             PROVE  ManagerAsks' /\ SettlesOrAsks(Touches, ManagerStatus, ManagerStatus')
  OBVIOUS
<1>0. /\ \A k \in Touches : touch[k] \in TouchState /\ ServersOf[k] \in Seq(AllServers)
      /\ Len(spawned) \in Nat /\ 1..Len(spawned) \subseteq ClientId /\ 0 \in ClientId
      /\ registered \in [AllServers -> ClientId] /\ spawning \in [AllServers -> ClientId]
      /\ Len(spawned) <= MaxSpawns /\ MaxSpawns \in Nat /\ spawned \in Seq(Client)
      /\ \A k \in Touches : touch[k].at \in {"joined", "owner"} => touch[k].left # <<>>
  BY ManagerAssumption DEF ManagerInv, ManagerTypeOK, ManagerAsks, TouchState, ClientId, Client
<1>1. ASSUME NEW k \in Touches, Called(k) PROVE ManagerAsks' /\ SettlesOrAsks(Touches, ManagerStatus, ManagerStatus')
  <2> DEFINE t == [touch[k] EXCEPT !.at = IF disabled THEN "answered" ELSE "looking", !.left = ServersOf[k]]
  <2>1. t \in TouchState /\ t.at \in {"answered", "looking"}
    BY <1>0 DEF TouchState
  <2>2. Goes(k, t) /\ UNCHANGED <<spawned, spawning>> /\ touch[k].at = "idle"
    BY <1>1 DEF Called
  <2> HIDE DEF t
  <2> QED BY <1>0, <2>1, <2>2, ManagerGoes DEF ManagerAsks
<1>2. ASSUME NEW k \in Touches, Served(k) PROVE ManagerAsks' /\ SettlesOrAsks(Touches, ManagerStatus, ManagerStatus')
  <2> DEFINE t == [touch[k] EXCEPT !.at = "answered"]
  <2>1. t \in TouchState /\ t.at = "answered"
    BY <1>0 DEF TouchState
  <2>2. Goes(k, t) /\ UNCHANGED <<spawned, spawning>> /\ touch[k].at = "looking"
    BY <1>2 DEF Served
  <2> HIDE DEF t
  <2> QED BY <1>0, <2>1, <2>2, ManagerGoes DEF ManagerAsks
<1>3. ASSUME NEW k \in Touches, touch[k].left # <<>>
      PROVE  /\ Advanced(k) \in TouchState /\ Advanced(k).at = touch[k].at
             /\ Head(touch[k].left) \in AllServers
  <2>1. touch[k].left \in Seq(AllServers)
    BY <1>0 DEF TouchState
  <2>2. Tail(touch[k].left) \in Seq(AllServers) /\ Head(touch[k].left) \in AllServers
    BY <1>3, <2>1
  <2> QED BY <1>0, <2>2 DEF Advanced, TouchState
<1>4. ASSUME NEW k \in Touches, NEW s \in AllServers, PassesOrTakes(k, s)
      PROVE  ManagerAsks' /\ SettlesOrAsks(Touches, ManagerStatus, ManagerStatus')
  <2> DEFINE t == [Advanced(k) EXCEPT !.found = IF s \in brokenServers THEN @ ELSE @ \cup {registered[s]}]
  <2>1. Goes(k, t) /\ UNCHANGED <<spawned, spawning>> /\ touch[k].at = "looking" /\ touch[k].left # <<>>
    BY <1>4 DEF PassesOrTakes, Looking
  <2>2. t \in TouchState /\ t.at = "looking"
    BY <1>0, <1>3, <2>1 DEF TouchState
  <2> HIDE DEF t
  <2> QED BY <1>0, <2>1, <2>2, ManagerGoes DEF ManagerAsks
<1>5. ASSUME NEW k \in Touches, NEW s \in AllServers, Joins(k, s)
      PROVE  ManagerAsks' /\ SettlesOrAsks(Touches, ManagerStatus, ManagerStatus')
  <2> DEFINE t == [touch[k] EXCEPT !.at = "joined", !.awaits = spawning[s]]
  <2>1. Goes(k, t) /\ UNCHANGED <<spawned, spawning>> /\ touch[k].at = "looking" /\ spawning[s] # 0
    BY <1>5 DEF Joins, Looking
  <2>2. t \in TouchState /\ t.at = "joined" /\ t.awaits = spawning[s]
    BY <1>0 DEF TouchState
  <2>3. spawning[s] \in 1..Len(spawned)
    BY <2>1 DEF ManagerAsks
  <2> HIDE DEF t
  <2> QED BY <1>0, <2>1, <2>2, <2>3, ManagerGoes DEF ManagerAsks
<1>6. ASSUME NEW k \in Touches, NEW s \in AllServers, Spawns(k, s)
      PROVE  ManagerAsks' /\ SettlesOrAsks(Touches, ManagerStatus, ManagerStatus')
  <2> DEFINE n == Len(spawned) + 1
             t == [touch[k] EXCEPT !.at = "owner", !.awaits = n]
  <2>1. /\ Goes(k, t) /\ spawning' = [spawning EXCEPT ![s] = n]
        /\ spawned' = Append(spawned, [of |-> s, state |-> "starting"])
        /\ touch[k].at = "looking" /\ Len(spawned) < MaxSpawns
    BY <1>6 DEF Spawns, Looking
  <2>2. n \in ClientId /\ n \in Nat /\ Len(spawned') = n /\ n > Len(spawned) /\ n \in 1..n
    BY <1>0, <2>1 DEF ClientId
  <2> HIDE DEF n
  <2>3. t \in TouchState /\ t.at = "owner" /\ t.awaits = n
    BY <1>0, <2>2 DEF TouchState
  <2> HIDE DEF t
  <2>4. \A u \in AllServers : spawning'[u] \in 0..Len(spawned')
    <3>1. \A u \in AllServers : spawning[u] \in 0..Len(spawned)
      BY DEF ManagerAsks
    <3>2. 0..Len(spawned) \subseteq 0..n /\ n \in 0..n
      BY <1>0, <2>2
    <3> QED BY <1>0, <2>1, <2>2, <3>1, <3>2
  <2>5. Len(spawned') \in Nat /\ Len(spawned') >= Len(spawned)
    BY <1>0, <2>2
  <2> QED BY <2>1, <2>2, <2>3, <2>4, <2>5, ManagerGoes
<1>7. ASSUME NEW k \in Touches, JoinedGoesOn(k) \/ OwnerGoesOn(k)
      PROVE  ManagerAsks' /\ SettlesOrAsks(Touches, ManagerStatus, ManagerStatus')
  <2>1. /\ touch[k].at \in {"joined", "owner"} /\ Goes(k, Found(k)) /\ spawned' = spawned
        /\ spawning' = spawning \/ spawning' = [spawning EXCEPT ![Head(touch[k].left)] = 0]
    BY <1>7 DEF JoinedGoesOn, OwnerGoesOn
  <2>2. Found(k) \in TouchState /\ Found(k).at = "looking"
    <3>1. Advanced(k) \in TouchState /\ touch[k].awaits \in ClientId
      BY <1>0, <1>3, <2>1 DEF TouchState
    <3> QED BY <1>0, <3>1 DEF Found, TouchState
  <2>3. \A u \in AllServers : spawning'[u] \in 0..Len(spawned')
    BY <1>0, <2>1 DEF ManagerAsks
  <2>4. Len(spawned') \in Nat /\ Len(spawned') >= Len(spawned)
    BY <1>0, <2>1
  <2> QED BY <2>1, <2>2, <2>3, <2>4, ManagerGoes
<1>8. ASSUME touch' = touch, Len(spawned') = Len(spawned), \A s \in AllServers : spawning'[s] \in {spawning[s], 0}
      PROVE  ManagerAsks' /\ SettlesOrAsks(Touches, ManagerStatus, ManagerStatus')
  <2>1. \A s \in AllServers : spawning'[s] \in 0..Len(spawned')
    BY <1>0, <1>8 DEF ManagerAsks
  <2>2. ManagerAsks' /\ ManagerStatus' = ManagerStatus
    BY <1>8, <2>1 DEF ManagerAsks, ManagerStatus
  <2> QED BY <2>2 DEF SettlesOrAsks, SettlesSome
<1>9. ASSUME NEW c \in DOMAIN spawned, StartResolves(c) \/ ClientCrashes(c)
      PROVE  ManagerAsks' /\ SettlesOrAsks(Touches, ManagerStatus, ManagerStatus')
  <2>1. touch' = touch /\ spawning' = spawning
    BY <1>9 DEF StartResolves, ClientCrashes
  <2>2. Len(spawned') = Len(spawned)
    <3>1. \E e : spawned' = [spawned EXCEPT ![c] = e]
      BY <1>9 DEF StartResolves, ClientCrashes
    <3> QED BY <1>0, <3>1
  <2> QED BY <1>8, <2>1, <2>2
<1>10. ASSUME DisposeAll PROVE ManagerAsks' /\ SettlesOrAsks(Touches, ManagerStatus, ManagerStatus')
  <2>1. touch' = touch /\ spawning' = NoClients
    BY <1>10 DEF DisposeAll
  <2>2. DOMAIN spawned' = DOMAIN spawned /\ DOMAIN spawned = 1..Len(spawned)
    BY <1>0, <1>10 DEF DisposeAll
  <2>3. Len(spawned') = Len(spawned)
    <3>1. ManagerTypeOK'
      BY <1>10, ManagerStep DEF ManagerNext, ManagerInv
    <3> QED BY <1>0, <2>2, <3>1 DEF ManagerTypeOK
  <2> QED BY <1>8, <2>1, <2>3 DEF NoClients
<1>11. ASSUME UNCHANGED managerVars PROVE ManagerAsks' /\ SettlesOrAsks(Touches, ManagerStatus, ManagerStatus')
  BY <1>8, <1>11 DEF managerVars
<1> QED BY <1>1, <1>2, <1>4, <1>5, <1>6, <1>7, <1>9, <1>10, <1>11 DEF ManagerNext, Proceeds

(* The MCP client: a pending connect() waits for the attempt in flight, a  *)
(* pending callTool() has one entry in the table of requests, and there    *)
(* are entries of calls only while the client is ready.                    *)
McpAsks ==
  /\ mcpTask \in [McpTasks -> Status]
  /\ \A k \in Calls : mcpTask[k] = "pending" <=> \E q \in pending : q.of = k
  /\ \A q, u \in pending : q.of \in Calls /\ q.of = u.of => q = u
  /\ \A q \in pending : q.of \in Calls => mcpState = "ready"
  /\ \A k \in Connects : mcpTask[k] = "pending" => connector.await # "none"

LEMMA McpSettling ==
  ASSUME McpAsks, NEW K, NEW how \in {"answered", "failed"}, Settles(K, how),
         \A k \in K \cap McpTasks : mcpTask[k] = "pending"
  PROVE  mcpTask' \in [McpTasks -> Status] /\ SettlesOrAsks(McpTasks, mcpTask, mcpTask')
<1>1. mcpTask' \in [McpTasks -> Status] /\ mcpTask \in [McpTasks -> Status]
  BY DEF Settles, McpAsks, Status
<1>2. \A k \in McpTasks : \/ mcpTask'[k] = mcpTask[k]
                          \/ mcpTask[k] = "pending" /\ mcpTask'[k] \in {"answered", "failed"}
  BY DEF Settles
<1> HIDE DEF Status
<1> QED BY <1>1, <1>2, SettlingIsAllowed

LEMMA McpAsking ==
  ASSUME McpAsks, NEW k \in McpTasks, mcpTask[k] = "idle", NEW s \in {"pending", "answered", "failed"},
         Settles({k}, s)
  PROVE  mcpTask' \in [McpTasks -> Status] /\ SettlesOrAsks(McpTasks, mcpTask, mcpTask')
<1>1. mcpTask \in [McpTasks -> Status] /\ s \in Status
  BY DEF McpAsks, Status
<1> HIDE DEF Status
<1>2. mcpTask' = [mcpTask EXCEPT ![k] = s]
  BY <1>1 DEF Settles
<1> QED BY <1>1, <1>2, OneIsAllowed

(* The entries of calls stay, and no call changes.                         *)
LEMMA McpCallsStay ==
  ASSUME McpAsks, mcpTask' = mcpTask, mcpState' = mcpState \/ mcpState # "ready",
         \A q : q.of \in Calls => (q \in pending' <=> q \in pending),
         connector.await # "none" => connector'.await # "none"
  PROVE  McpAsks' /\ SettlesOrAsks(McpTasks, mcpTask, mcpTask')
BY DEF McpAsks, SettlesOrAsks, SettlesSome

(* The table is emptied and its calls fail.                                *)
LEMMA McpCallsFail ==
  ASSUME McpAsks, NEW J, J \subseteq Joined, Settles(J \cup (Owners \cap Calls), "failed"), pending' = {},
         connector'.await = "none" => connector.await = "none" \/ J = Joined
  PROVE  McpAsks' /\ SettlesOrAsks(McpTasks, mcpTask, mcpTask')
<1> DEFINE K == J \cup (Owners \cap Calls)
<1>1. \A k \in K \cap McpTasks : mcpTask[k] = "pending"
  BY DEF McpAsks, Owners, Joined
<1>2. mcpTask' \in [McpTasks -> Status] /\ SettlesOrAsks(McpTasks, mcpTask, mcpTask')
  BY <1>1, McpSettling
<1>3. \A k \in Calls : mcpTask'[k] # "pending"
  BY DEF McpAsks, Owners, Settles, McpTasks
<1>4. \A k \in Connects : mcpTask'[k] = "pending" => mcpTask[k] = "pending" /\ k \notin J
  BY DEF Settles, McpTasks
<1>5. \A k \in Connects : mcpTask'[k] = "pending" => connector'.await # "none"
  BY <1>4 DEF McpAsks, Joined
<1> QED BY <1>2, <1>3, <1>5 DEF McpAsks

(* Some entries are taken out and the calls they are of settled.           *)
LEMMA McpSomeSettle ==
  ASSUME McpAsks, NEW hit, hit \subseteq pending, pending' = pending \ hit, NEW how \in {"answered", "failed"},
         Settles({q.of : q \in hit} \cap Calls, how), mcpState' = mcpState,
         connector.await # "none" => connector'.await # "none"
  PROVE  McpAsks' /\ SettlesOrAsks(McpTasks, mcpTask, mcpTask')
<1> DEFINE K == {q.of : q \in hit} \cap Calls
<1>1. \A k \in K \cap McpTasks : mcpTask[k] = "pending"
  BY DEF McpAsks
<1>2. mcpTask' \in [McpTasks -> Status] /\ SettlesOrAsks(McpTasks, mcpTask, mcpTask')
  BY <1>1, McpSettling
<1>3. ASSUME NEW k \in Calls PROVE mcpTask'[k] = "pending" <=> \E q \in pending' : q.of = k
  <2>1. CASE k \in K
    <3>1. mcpTask'[k] # "pending"
      BY <2>1 DEF Settles, McpTasks
    <3>2. PICK q \in hit : q.of = k
      BY <2>1
    <3>3. \A u \in pending : u.of = k => u = q
      BY <3>2 DEF McpAsks
    <3> QED BY <3>1, <3>2, <3>3
  <2>2. CASE k \notin K
    <3>1. mcpTask'[k] = mcpTask[k]
      BY <2>2 DEF Settles, McpTasks
    <3>2. \A q \in pending : q.of = k => q \notin hit
      BY <2>2
    <3> QED BY <3>1, <3>2 DEF McpAsks
  <2> QED BY <2>1, <2>2
<1>4. \A k \in Connects : mcpTask'[k] = mcpTask[k]
  BY McpAssumption DEF Settles, McpTasks
<1> QED BY <1>2, <1>3, <1>4 DEF McpAsks

LEMMA McpAsksOn ==
  McpInv /\ McpAsks /\ [McpNext]_mcpVars => McpAsks' /\ SettlesOrAsks(McpTasks, mcpTask, mcpTask')
<1> DEFINE Goal == McpAsks' /\ SettlesOrAsks(McpTasks, mcpTask, mcpTask')
<1> SUFFICES ASSUME McpInv, McpAsks, [McpNext]_mcpVars PROVE Goal
  OBVIOUS
<1>0. connector \in [await : Await, got : Outcome] /\ McpTasks = Connects \cup Calls
      /\ "connector" \notin Calls /\ "refresh" \notin Calls /\ Connects \cap Calls = {}
  BY McpAssumption DEF McpInv, McpTypeOK, McpTasks
<1> HIDE DEF Goal
<1>h. ASSUME NEW owners, NEW o, NEW v, HandOver(owners, o, v) PROVE connector'.await = connector.await
  BY <1>0, <1>h DEF HandOver
<1>s. ASSUME NEW o, Send(o), o \notin Calls PROVE \A q : q.of \in Calls => (q \in pending' <=> q \in pending)
  BY <1>s DEF Send
<1>1. ASSUME NEW k \in Connects, ConnectStarts(k) PROVE Goal
  <2>1. /\ mcpTask[k] = "idle" /\ mcpState # "ready" /\ pending' = {} /\ Settles({k}, "pending")
        /\ connector'.await = "start"
    BY <1>1 DEF ConnectStarts
  <2>2. mcpTask' \in [McpTasks -> Status] /\ SettlesOrAsks(McpTasks, mcpTask, mcpTask')
    BY <1>0, <2>1, McpAsking
  <2>3. \A j \in Calls : mcpTask'[j] # "pending"
    BY <1>0, <2>1 DEF Settles, McpAsks
  <2> QED BY <2>1, <2>2, <2>3 DEF Goal, McpAsks
<1>2. ASSUME NEW k \in Connects, ConnectJoins(k) PROVE Goal
  <2> DEFINE s == IF connector.await # "none" THEN "pending" ELSE "answered"
  <2>1. mcpTask[k] = "idle" /\ Settles({k}, s) /\ UNCHANGED <<mcpState, connector, pending>>
    BY <1>2 DEF ConnectJoins
  <2>2. mcpTask' \in [McpTasks -> Status] /\ SettlesOrAsks(McpTasks, mcpTask, mcpTask')
    BY <1>0, <2>1, McpAsking
  <2>3. \A j \in Calls : mcpTask'[j] = mcpTask[j]
    BY <1>0, <2>1 DEF Settles
  <2>4. \A j \in Connects : mcpTask'[j] = "pending" => connector'.await # "none"
    BY <1>0, <2>1 DEF Settles, McpAsks
  <2> QED BY <2>1, <2>2, <2>3, <2>4 DEF Goal, McpAsks
<1>3. ASSUME NEW k \in Calls, CallTool(k) PROVE Goal
  <2>1. mcpTask[k] = "idle" /\ UNCHANGED <<mcpState, connector>>
    BY <1>3 DEF CallTool
  <2>2. CASE connected /\ mcpState = "ready"
    <3>1. pending' = pending \cup {[id |-> nextId, of |-> k]} /\ Settles({k}, "pending")
      BY <1>3, <2>2 DEF CallTool, Send
    <3>2. mcpTask' \in [McpTasks -> Status] /\ SettlesOrAsks(McpTasks, mcpTask, mcpTask')
      BY <1>0, <2>1, <3>1, McpAsking
    <3>3. mcpTask'[k] = "pending" /\ \A j \in McpTasks : j # k => mcpTask'[j] = mcpTask[j]
      BY <1>0, <3>1 DEF Settles
    <3>4. \A q \in pending : q.of # k
      BY <2>1 DEF McpAsks
    <3>5. \A j \in Calls : mcpTask'[j] = "pending" <=> \E q \in pending' : q.of = j
      <4> SUFFICES ASSUME NEW j \in Calls PROVE mcpTask'[j] = "pending" <=> \E q \in pending' : q.of = j
        OBVIOUS
      <4>1. CASE j = k
        <5>1. [id |-> nextId, of |-> k].of = k /\ [id |-> nextId, of |-> k] \in pending'
          BY <3>1
        <5> QED BY <3>3, <4>1, <5>1
      <4>2. CASE j # k
        <5>1. mcpTask'[j] = mcpTask[j]
          BY <1>0, <3>3, <4>2
        <5>2. \A q : q.of = j => (q \in pending' <=> q \in pending)
          BY <3>1, <4>2
        <5> QED BY <5>1, <5>2 DEF McpAsks
      <4> QED BY <4>1, <4>2
    <3>6. \A q, u \in pending' : q.of \in Calls /\ q.of = u.of => q = u
      BY <3>1, <3>4 DEF McpAsks
    <3>7. \A j \in Connects : mcpTask'[j] = mcpTask[j]
      BY <1>0, <3>3
    <3> QED BY <2>1, <2>2, <3>2, <3>5, <3>6, <3>7 DEF Goal, McpAsks
  <2>3. CASE ~(connected /\ mcpState = "ready")
    <3>1. pending' = pending /\ Settles({k}, "failed")
      BY <1>3, <2>3 DEF CallTool, NoSend
    <3>2. mcpTask' \in [McpTasks -> Status] /\ SettlesOrAsks(McpTasks, mcpTask, mcpTask')
      BY <1>0, <2>1, <3>1, McpAsking
    <3>3. mcpTask'[k] = "failed" /\ \A j \in McpTasks : j # k => mcpTask'[j] = mcpTask[j]
      BY <1>0, <3>1 DEF Settles
    <3>4. \A j \in Calls : mcpTask'[j] = "pending" <=> \E q \in pending' : q.of = j
      BY <1>0, <2>1, <3>1, <3>3 DEF McpAsks
    <3>5. \A j \in Connects : mcpTask'[j] = mcpTask[j]
      BY <1>0, <3>3
    <3> QED BY <2>1, <3>1, <3>2, <3>4, <3>5 DEF Goal, McpAsks
  <2> QED BY <2>2, <2>3
<1>4. ASSUME Disconnect \/ ServerEnds PROVE Goal
  <2>1. pending' = {} /\ Settles(Owners \cap Calls, "failed") /\ connector'.await = connector.await
    BY <1>4, <1>h DEF Disconnect, ServerEnds, RejectAll
  <2>2. Settles({} \cup (Owners \cap Calls), "failed") /\ {} \subseteq Joined
    BY <2>1 DEF Settles
  <2> QED BY <2>1, <2>2, McpCallsFail DEF Goal
<1>5. ASSUME ConnectorFails PROVE Goal
  BY <1>5, McpCallsFail DEF ConnectorFails, Goal
<1>6. ASSUME ConnectorAbandoned \/ ConnectorListed PROVE Goal
  <2>1. /\ Settles(Joined, "answered") /\ pending' = pending /\ mcpState' \in {mcpState, "ready"}
    BY <1>6 DEF ConnectorAbandoned, ConnectorListed, ConnectorEnds
  <2>2. \A k \in Joined \cap McpTasks : mcpTask[k] = "pending"
    BY DEF Joined
  <2>3. mcpTask' \in [McpTasks -> Status] /\ SettlesOrAsks(McpTasks, mcpTask, mcpTask')
    BY <2>1, <2>2, McpSettling
  <2>4. \A k \in Connects : mcpTask'[k] # "pending"
    BY <1>0, <2>1 DEF Settles, Joined
  <2>5. \A k \in Calls : mcpTask'[k] = mcpTask[k]
    BY <1>0, <2>1 DEF Settles, Joined
  <2> QED BY <2>1, <2>3, <2>4, <2>5 DEF Goal, McpAsks
<1>7. ASSUME ConnectorStarted \/ ConnectorInitialized PROVE Goal
  <2>1. mcpTask' = mcpTask /\ mcpState' = mcpState /\ connector'.await # "none"
    BY <1>7 DEF ConnectorStarted, ConnectorInitialized
  <2>2. \A q : q.of \in Calls => (q \in pending' <=> q \in pending)
    BY <1>0, <1>7, <1>s DEF ConnectorStarted, ConnectorInitialized, NoSend
  <2> QED BY <2>1, <2>2, McpCallsStay DEF Goal
<1>8. ASSUME RefreshEnds PROVE Goal
  <2>1. mcpTask' = mcpTask /\ mcpState' = mcpState /\ pending' = pending
    BY <1>8 DEF RefreshEnds
  <2>2. connector'.await = connector.await
    BY <1>0, <1>8 DEF RefreshEnds
  <2> QED BY <2>1, <2>2, McpCallsStay DEF Goal
<1>9. ASSUME \/ ToolsChange \/ ServerAsks \/ \E q \in inbox, ok \in BOOLEAN : Answer(q, ok)
             \/ UNCHANGED mcpVars
      PROVE  Goal
  <2>1. UNCHANGED <<mcpTask, mcpState, pending, connector>>
    BY <1>9 DEF ToolsChange, ServerAsks, Answer, mcpVars
  <2> QED BY <2>1, McpCallsStay DEF Goal
<1>10. ASSUME Receive PROVE Goal
  <2>1. mcpState' = mcpState
    BY <1>10 DEF Receive
  <2>2. CASE Head(pipe).kind = "list_changed"
    <3>1. HandleListChanged
      BY <1>10, <2>2 DEF Receive
    <3>2. \A q : q.of \in Calls => (q \in pending' <=> q \in pending)
      BY <1>0, <3>1, <1>s DEF HandleListChanged, NoSend
    <3>3. mcpTask' = mcpTask /\ connector' = connector
      BY <3>1 DEF HandleListChanged
    <3> QED BY <2>1, <3>2, <3>3, McpCallsStay DEF Goal
  <2>3. CASE Head(pipe).kind # "list_changed"
    <3>1. HandleResponse(Head(pipe))
      BY <1>10, <2>3 DEF Receive
    <3> DEFINE hit == {q \in pending : q.id = Head(pipe).id}
    <3>2. /\ pending' = pending \ hit /\ Settles({q.of : q \in hit} \cap Calls, "answered")
          /\ \E o, v : HandOver({q.of : q \in hit}, o, v)
      BY <3>1 DEF HandleResponse
    <3>3. connector'.await = connector.await
      BY <1>h, <3>2
    <3> HIDE DEF hit
    <3>4. hit \subseteq pending
      BY DEF hit
    <3> QED BY <2>1, <3>2, <3>3, <3>4, McpSomeSettle DEF Goal
  <2> QED BY <2>2, <2>3
<1>11. ASSUME NEW q \in pending, RequestFails(q) PROVE Goal
  <2>1. /\ pending' = pending \ {q} /\ Settles({q.of} \cap Calls, "failed") /\ mcpState' = mcpState
        /\ connector'.await = connector.await
    BY <1>11, <1>h DEF RequestFails
  <2>2. {u.of : u \in {q}} = {q.of} /\ {q} \subseteq pending
    OBVIOUS
  <2> QED BY <2>1, <2>2, McpSomeSettle DEF Goal
<1> QED BY <1>1, <1>2, <1>3, <1>4, <1>5, <1>6, <1>7, <1>8, <1>9, <1>10, <1>11 DEF McpNext, Continue

ClientsAsk == LspAsks /\ ManagerAsks /\ McpAsks

LEMMA ClientsAskAtFirst == ClientInit => ClientsAsk /\ Promise!Init /\ Promised!Init /\ Answering!Init
<1> SUFFICES ASSUME ClientInit PROVE ClientsAsk /\ Promise!Init /\ Promised!Init /\ Answering!Init
  OBVIOUS
<1>1. LspAsks /\ Promised!Init
  BY DEF ClientInit, LspInit, LspAsks, Promised!Init, Waiting
<1>2. McpAsks /\ Promise!Init
  <2>1. mcpTask = [k \in McpTasks |-> "idle"] /\ pending = {}
    BY DEF ClientInit, McpInit
  <2>2. mcpTask \in [McpTasks -> Status] /\ \A k \in McpTasks : mcpTask[k] = "idle"
    BY <2>1 DEF Status
  <2>3. \A k \in Calls \cup Connects : mcpTask[k] # "pending"
    BY <2>2 DEF McpTasks
  <2>4. Promise!Init
    BY <2>1 DEF Promise!Init
  <2> HIDE DEF Status
  <2> QED BY <2>1, <2>2, <2>3, <2>4 DEF McpAsks
<1>3. ManagerAsks /\ Answering!Init
  <2>1. ManagerTypeOK
    BY ClientsInit DEF ClientsInv, ManagerInv
  <2>2. spawned = <<>> /\ spawning = [s \in AllServers |-> 0] /\ \A k \in Touches : touch[k].at = "idle"
    BY DEF ClientInit, ManagerInit, NoClients
  <2> QED BY <2>1, <2>2 DEF ManagerTypeOK, ManagerAsks, TouchState, Answering!Init
<1> QED BY <1>1, <1>2, <1>3 DEF ClientsAsk

LEMMA ClientsAskOn ==
  ClientsInv /\ ClientsAsk /\ [ClientNext]_clientVars =>
    /\ ClientsAsk' /\ SettlesOrAsks(McpTasks, mcpTask, mcpTask')
    /\ SettlesOrAsks(Tasks, LspStatus, LspStatus') /\ SettlesOrAsks(Touches, ManagerStatus, ManagerStatus')
<1>1. [ClientNext]_clientVars => [McpNext]_mcpVars /\ [LspNext]_lspVars /\ [ManagerNext]_managerVars
  BY DEF ClientNext, clientVars, localVars
<1> QED BY <1>1, McpAsksOn, LspAsksOn, ManagerAsksOn DEF ClientsInv, ClientsAsk

(* What a call that is not settled waits for is there, and it will end: an  *)
(* attempt to connect, an entry of the table with its timer, a start.       *)
PendingIsAwaited ==
  /\ \A k \in Connects : mcpTask[k] = "pending" => connector.await # "none"
  /\ \A k \in Calls : mcpTask[k] = "pending" => \E q \in pending : q.of = k
  /\ \A k \in Tasks : lspTask[k] = "starting" => lspState = "connecting"
  /\ \A k \in Touches : touch[k].at \in {"joined", "owner"} => touch[k].awaits \in DOMAIN spawned

(* The MCP client, the client of a language server and its manager never    *)
(* settle a call twice, nor one that was not made, nor do they take an      *)
(* answer back: each step is one that SettleOnce allows; and no call that   *)
(* is pending loses what will settle it, in crashes, stops, restarts and    *)
(* late answers (mcp/transport.ts:65-314, mcp/client.ts:127-242,            *)
(* lsp/client.ts:100-501, lsp/index.ts:89-316).                             *)
THEOREM ClientsAnswerOnce ==
  ClientSpec =>
    /\ Promise!Init /\ [][Promise!Next]_mcpTask
    /\ Promised!Init /\ [][Promised!Next]_LspStatus
    /\ Answering!Init /\ [][Answering!Next]_ManagerStatus
    /\ []PendingIsAwaited
<1>1. SettlesOrAsks(McpTasks, mcpTask, mcpTask') => [Promise!Next]_mcpTask
  BY DEF SettlesOrAsks, SettlesSome, AsksOne, Promise!Next, Promise!Settle, Promise!Settled, Promise!Ask
<1>2. SettlesOrAsks(Tasks, LspStatus, LspStatus') => [Promised!Next]_LspStatus
  BY DEF SettlesOrAsks, SettlesSome, AsksOne, LspStatus, Promised!Next, Promised!Settle, Promised!Settled, Promised!Ask
<1>3. SettlesOrAsks(Touches, ManagerStatus, ManagerStatus') => [Answering!Next]_ManagerStatus
  BY DEF SettlesOrAsks, SettlesSome, AsksOne, ManagerStatus,
         Answering!Next, Answering!Settle, Answering!Settled, Answering!Ask
<1>4. ClientsInv /\ ClientsAsk => PendingIsAwaited
  BY DEF ClientsInv, ManagerInv, ManagerTypeOK, ClientsAsk, LspAsks, ManagerAsks, McpAsks, PendingIsAwaited
<1>5. ClientSpec => ClientInit /\ [][ClientNext]_clientVars
  BY DEF ClientSpec
<1>6. ClientSpec => []ClientsInv /\ []ClientsAsk
  BY <1>5, ClientsKeep, ClientsAskAtFirst, ClientsAskOn, PTL
<1> QED
  BY <1>1, <1>2, <1>3, <1>4, <1>5, <1>6, ClientsAskAtFirst, ClientsAskOn, PTL
=============================================================================
