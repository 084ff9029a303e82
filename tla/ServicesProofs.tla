---------------------------- MODULE ServicesProofs ----------------------------
(***************************************************************************)
(* Proofs about the execution of a node and about the services it leans    *)
(* on, for any number of calls, keys, steps, files and bounds.             *)
(*                                                                         *)
(* Node execution: the inductive invariant adds two facts to the checked   *)
(* ones.  HalfOpenIsCool: without it the step that admits a probe while    *)
(* the stored state already is half_open could not be related to the last  *)
(* failure.  SleeperMayRetry: a retry loop that sleeps has an attempt      *)
(* left, without which the wake-up could count past MaxAttempts.           *)
(*                                                                         *)
(* Then the stores: sessions and artifacts, whose backends implement       *)
(* AtomicStore; tools that are loaded from files; items of the long-term   *)
(* store; and checkpoints, read entry by entry.  Each has an invariant of  *)
(* its own, since they share no state.                                     *)
(*                                                                         *)
(* Last, those who tell others: the matcher of topics finds what the       *)
(* reference finds, by the least segment that could differ; a delivery     *)
(* keeps its place among the publications under way; a listener of once()  *)
(* is in one place at a time; the dead letters are the end of their        *)
(* history; what a writer queued is newer than what any reader got; and a  *)
(* ring holds all that was put but for what was dropped or refused.  And   *)
(* requests and waits are settled as SettleOnce says, step by step.        *)
(***************************************************************************)
EXTENDS NodeExecution, MCServices, FiniteSetTheorems, SequenceTheorems, TLAPS


(* half_open is only entered after resetAfter, and every failure leaves it. *)
HalfOpenIsCool ==
  cbState = "half_open" => now - lastFailureTime >= ResetAfter

(* Only a loop with attempts left goes to sleep. *)
SleeperMayRetry ==
  \A c \in Calls : loop[c] = "sleeping" => attempt[c] < MaxAttempts

NodeInv ==
  /\ TypeOK
  /\ ClosedIffBelowThreshold
  /\ ProbeFlagHasOwner
  /\ HalfOpenIsCool
  /\ SleeperMayRetry

-----------------------------------------------------------------------------
(* The breaker's settle handlers, whatever call runs them. *)

LEMMA StateNowFacts ==
  ASSUME TypeOK
  PROVE  /\ StateNow \in CircuitState
         /\ StateNow = "closed" <=> cbState = "closed"
         /\ StateNow = "half_open" /\ cbState # "half_open" =>
              now - lastFailureTime >= ResetAfter
         /\ cbState = "half_open" => StateNow = "half_open"
BY DEF TypeOK, StateNow, CircuitState

LEMMA OnSuccessKeeps ==
  ASSUME NodeInv, OnSuccess, now' = now
  PROVE  /\ cbState' \in CircuitState /\ consecutiveFailures' \in Nat
         /\ lastFailureTime' \in 0..MaxTime /\ probeInFlight' \in BOOLEAN
         /\ ClosedIffBelowThreshold' /\ ProbeFlagHasOwner' /\ HalfOpenIsCool'
<1>1. cbState' = "closed" /\ consecutiveFailures' = 0 /\ probeInFlight' = FALSE
      /\ lastFailureTime' = lastFailureTime
  BY DEF OnSuccess
<1>2. consecutiveFailures' < Threshold
  BY <1>1, NodeExecutionAssumption
<1> QED BY <1>1, <1>2 DEF NodeInv, TypeOK, CircuitState, ClosedIffBelowThreshold,
             ProbeFlagHasOwner, HalfOpenIsCool

LEMMA OnFailureKeeps ==
  ASSUME NodeInv, OnFailure, now' = now
  PROVE  /\ cbState' \in CircuitState /\ consecutiveFailures' \in Nat
         /\ lastFailureTime' \in 0..MaxTime /\ probeInFlight' \in BOOLEAN
         /\ ClosedIffBelowThreshold' /\ ProbeFlagHasOwner' /\ HalfOpenIsCool'
<1>1. /\ probeInFlight' = FALSE
      /\ consecutiveFailures' = consecutiveFailures + 1
      /\ lastFailureTime' = now
      /\ cbState' = IF cbState = "half_open" \/ consecutiveFailures + 1 >= Threshold
                      THEN "open" ELSE cbState
  BY DEF OnFailure
<1>2. consecutiveFailures \in Nat /\ cbState \in CircuitState /\ now \in 0..MaxTime
      /\ Threshold \in Nat
  BY NodeExecutionAssumption DEF NodeInv, TypeOK
<1>3. (cbState' = "closed") <=> (consecutiveFailures' < Threshold)
  BY <1>1, <1>2 DEF NodeInv, ClosedIffBelowThreshold, CircuitState
<1>4. cbState' # "half_open"
  BY <1>1
<1>5. probeInFlight' \in BOOLEAN /\ ProbeFlagHasOwner'
  BY <1>1 DEF ProbeFlagHasOwner
<1>6. consecutiveFailures' \in Nat /\ lastFailureTime' \in 0..MaxTime
  BY <1>1, <1>2
<1>7. cbState' \in CircuitState
  BY <1>1, <1>2 DEF CircuitState
<1> QED BY <1>3, <1>4, <1>5, <1>6, <1>7 DEF ClosedIffBelowThreshold, HalfOpenIsCool

(* A settled call leaves breaker and cache alone; a waiting one runs a handler. *)
LEMMA SettleSuccessKeeps ==
  ASSUME NodeInv, NEW c \in Calls, SettleSuccess(c), now' = now, isProbe' = isProbe
  PROVE  /\ cbState' \in CircuitState /\ consecutiveFailures' \in Nat
         /\ lastFailureTime' \in 0..MaxTime /\ probeInFlight' \in BOOLEAN
         /\ nodeCache' \in CacheEntry
         /\ pc' \in [Calls -> {"idle", "waiting", "settled"}]
         /\ outcome' \in [Calls -> Outcome]
         /\ ClosedIffBelowThreshold' /\ ProbeFlagHasOwner' /\ HalfOpenIsCool'
<1>1. CASE pc[c] = "waiting"
  <2>1. OnSuccess
    BY <1>1 DEF SettleSuccess
  <2>2. nodeCache' \in CacheEntry
    BY <1>1, NodeExecutionAssumption
       DEF SettleSuccess, Store, NodeInv, TypeOK, CacheEntry
  <2>3. pc' \in [Calls -> {"idle", "waiting", "settled"}] /\ outcome' \in [Calls -> Outcome]
    BY <1>1 DEF SettleSuccess, Settle, NodeInv, TypeOK, Outcome
  <2> QED BY <2>1, <2>2, <2>3, OnSuccessKeeps
<1>2. CASE pc[c] # "waiting"
  <2>1. UNCHANGED <<breakerVars, nodeCache, pc, outcome>>
    BY <1>2 DEF SettleSuccess
  <2> QED BY <2>1 DEF NodeInv, TypeOK, breakerVars, ClosedIffBelowThreshold,
               ProbeFlagHasOwner, HalfOpenIsCool
<1> QED BY <1>1, <1>2

LEMMA SettleFailureKeeps ==
  ASSUME NodeInv, NEW c \in Calls, NEW o \in Outcome, SettleFailure(c, o),
         now' = now, isProbe' = isProbe
  PROVE  /\ cbState' \in CircuitState /\ consecutiveFailures' \in Nat
         /\ lastFailureTime' \in 0..MaxTime /\ probeInFlight' \in BOOLEAN
         /\ nodeCache' \in CacheEntry
         /\ pc' \in [Calls -> {"idle", "waiting", "settled"}]
         /\ outcome' \in [Calls -> Outcome]
         /\ ClosedIffBelowThreshold' /\ ProbeFlagHasOwner' /\ HalfOpenIsCool'
<1>1. CASE pc[c] = "waiting"
  <2>1. OnFailure
    BY <1>1 DEF SettleFailure
  <2>2. nodeCache' \in CacheEntry
    BY <1>1 DEF SettleFailure, NodeInv, TypeOK
  <2>3. pc' \in [Calls -> {"idle", "waiting", "settled"}] /\ outcome' \in [Calls -> Outcome]
    BY <1>1 DEF SettleFailure, Settle, NodeInv, TypeOK
  <2> QED BY <2>1, <2>2, <2>3, OnFailureKeeps
<1>2. CASE pc[c] # "waiting"
  <2>1. UNCHANGED <<breakerVars, nodeCache, pc, outcome>>
    BY <1>2 DEF SettleFailure
  <2> QED BY <2>1 DEF NodeInv, TypeOK, breakerVars, ClosedIffBelowThreshold,
               ProbeFlagHasOwner, HalfOpenIsCool
<1> QED BY <1>1, <1>2

(* A call that settles before it was admitted owns no probe. *)
LEMMA IdleSettleKeepsOwner ==
  ASSUME NodeInv, NEW c \in Calls, NEW o \in Outcome, pc[c] = "idle", Settle(c, o),
         isProbe' = isProbe, probeInFlight' = probeInFlight,
         cbState' = cbState \/ cbState' = StateNow
  PROVE  /\ ProbeFlagHasOwner'
         /\ pc' \in [Calls -> {"idle", "waiting", "settled"}]
         /\ outcome' \in [Calls -> Outcome]
<1>1. /\ pc' \in [Calls -> {"idle", "waiting", "settled"}]
      /\ outcome' \in [Calls -> Outcome]
      /\ \A d \in Calls : pc[d] = "waiting" => pc'[d] = "waiting"
  BY DEF Settle, NodeInv, TypeOK
<1>2. cbState = "half_open" => cbState' = "half_open"
  BY StateNowFacts DEF NodeInv
<1> QED BY <1>1, <1>2 DEF NodeInv, ProbeFlagHasOwner

-----------------------------------------------------------------------------
LEMMA InitEstablishes == Init => NodeInv
<1> SUFFICES ASSUME Init PROVE NodeInv
  OBVIOUS
<1>1. TypeOK
  <2>1. nodeCache \in CacheEntry
    BY DEF Init, CacheEntry, NoEntry
  <2>2. outcome \in [Calls -> Outcome] /\ loop \in [Calls -> LoopState]
    BY DEF Init, Outcome, LoopState
  <2>3. probeInFlight \in BOOLEAN
    BY DEF Init
  <2>4. /\ now \in 0..MaxTime /\ lastFailureTime \in 0..MaxTime
        /\ consecutiveFailures \in Nat
        /\ attempt \in [Calls -> 0..MaxAttempts]
    BY NodeExecutionAssumption DEF Init
  <2>5. /\ pc \in [Calls -> {"idle", "waiting", "settled"}]
        /\ isProbe \in [Calls -> BOOLEAN] /\ raised \in [Calls -> BOOLEAN]
        /\ cbState \in CircuitState
    BY DEF Init, CircuitState
  <2> QED BY <2>1, <2>2, <2>3, <2>4, <2>5 DEF TypeOK
<1>2. ClosedIffBelowThreshold
  BY NodeExecutionAssumption DEF Init, ClosedIffBelowThreshold
<1> QED BY <1>1, <1>2 DEF Init, NodeInv, ProbeFlagHasOwner, HalfOpenIsCool, SleeperMayRetry

LEMMA NextPreserves == NodeInv /\ [Next]_vars => NodeInv'
<1> SUFFICES ASSUME NodeInv, [Next]_vars PROVE NodeInv'
  OBVIOUS
<1> USE NodeExecutionAssumption
<1>1. CASE Tick
  BY <1>1 DEF Tick, SleeperMayRetry, NodeInv, TypeOK, breakerVars, loopVars, ClosedIffBelowThreshold,
              ProbeFlagHasOwner, HalfOpenIsCool
<1>2. CASE Reset
  <2>1. /\ cbState' = "closed" /\ consecutiveFailures' = 0
        /\ lastFailureTime' = 0 /\ probeInFlight' = FALSE
        /\ UNCHANGED <<now, nodeCache, pc, outcome, isProbe, loop, attempt, raised>>
    BY <1>2 DEF Reset, loopVars
  <2>2. TypeOK'
    <3>1. probeInFlight' \in BOOLEAN /\ cbState' \in CircuitState
      BY <2>1 DEF CircuitState
    <3>2. consecutiveFailures' \in Nat /\ lastFailureTime' \in 0..MaxTime
      BY <2>1
    <3> QED BY <2>1, <3>1, <3>2 DEF NodeInv, TypeOK
  <2>3. ClosedIffBelowThreshold'
    BY <2>1 DEF ClosedIffBelowThreshold
  <2> QED BY <2>1, <2>2, <2>3 DEF NodeInv, ProbeFlagHasOwner, HalfOpenIsCool, SleeperMayRetry
<1>3. ASSUME NEW c \in Calls, ReturnCached(c) PROVE NodeInv'
  <2>1. pc[c] = "idle" /\ Settle(c, "cached") /\ "cached" \in Outcome
    BY <1>3 DEF ReturnCached, Outcome
  <2>2. UNCHANGED <<now, cbState, consecutiveFailures, lastFailureTime,
                    probeInFlight, nodeCache, isProbe, loop, attempt, raised>>
    BY <1>3 DEF ReturnCached, breakerVars, loopVars
  <2> QED BY <2>1, <2>2, IdleSettleKeepsOwner
          DEF NodeInv, TypeOK, ClosedIffBelowThreshold, HalfOpenIsCool, SleeperMayRetry
<1>4. ASSUME NEW c \in Calls, InputBlocked(c) PROVE NodeInv'
  <2>1. pc[c] = "idle" /\ Settle(c, "blocked") /\ "blocked" \in Outcome
    BY <1>4 DEF InputBlocked, Outcome
  <2>2. UNCHANGED <<now, cbState, consecutiveFailures, lastFailureTime,
                    probeInFlight, isProbe, loop, attempt, raised>>
    BY <1>4 DEF InputBlocked, breakerVars, loopVars
  <2>3. nodeCache' \in CacheEntry
    BY <1>4 DEF InputBlocked, CacheMiss, NoEntry, CacheEntry, NodeInv, TypeOK
  <2> QED BY <2>1, <2>2, <2>3, IdleSettleKeepsOwner
          DEF NodeInv, TypeOK, ClosedIffBelowThreshold, HalfOpenIsCool, SleeperMayRetry
<1>5. ASSUME NEW c \in Calls, RejectOpen(c) PROVE NodeInv'
  <2>1. pc[c] = "idle" /\ cbState' = StateNow
    BY <1>5 DEF RejectOpen
  <2>2. PICK o \in Outcome : Settle(c, o)
    BY <1>5 DEF RejectOpen, Outcome
  <2>3. nodeCache' \in CacheEntry
    BY <1>5 DEF RejectOpen, CacheMiss, Store, NoEntry, CacheEntry, NodeInv, TypeOK
  <2>4. UNCHANGED <<now, consecutiveFailures, lastFailureTime, probeInFlight,
                    isProbe, loop, attempt, raised>>
    BY <1>5 DEF RejectOpen, loopVars
  <2>5. ClosedIffBelowThreshold' /\ HalfOpenIsCool' /\ cbState' \in CircuitState
    BY <2>1, <2>4, StateNowFacts DEF NodeInv, ClosedIffBelowThreshold, HalfOpenIsCool
  <2> QED BY <2>1, <2>2, <2>3, <2>4, <2>5, IdleSettleKeepsOwner
          DEF NodeInv, TypeOK, SleeperMayRetry
<1>6. ASSUME NEW c \in Calls, Admit(c) PROVE NodeInv'
  <2>1. /\ pc[c] = "idle" /\ ~Refuses /\ cbState' = StateNow
        /\ probeInFlight' = (probeInFlight \/ StateNow = "half_open")
        /\ isProbe' = [isProbe EXCEPT ![c] = (StateNow = "half_open")]
        /\ pc' = [pc EXCEPT ![c] = "waiting"]
        /\ UNCHANGED <<now, consecutiveFailures, lastFailureTime, outcome, raised>>
    BY <1>6 DEF Admit
  <2>2. nodeCache' \in CacheEntry /\ loop' \in [Calls -> LoopState]
        /\ attempt' \in [Calls -> 0..MaxAttempts] /\ SleeperMayRetry'
    BY <1>6 DEF Admit, CacheMiss, NoEntry, CacheEntry, NodeInv, TypeOK, LoopState,
                SleeperMayRetry
  <2>3. ClosedIffBelowThreshold' /\ HalfOpenIsCool' /\ cbState' \in CircuitState
    BY <2>1, StateNowFacts DEF NodeInv, ClosedIffBelowThreshold, HalfOpenIsCool
  <2>4. /\ pc' \in [Calls -> {"idle", "waiting", "settled"}]
        /\ isProbe' \in [Calls -> BOOLEAN]
        /\ pc'[c] = "waiting" /\ isProbe'[c] = (StateNow = "half_open")
    BY <2>1 DEF NodeInv, TypeOK
  <2>5. probeInFlight => StateNow = "half_open"
    BY StateNowFacts DEF NodeInv, ProbeFlagHasOwner
  <2>6. ProbeFlagHasOwner' /\ probeInFlight' \in BOOLEAN
    BY <2>1, <2>4, <2>5 DEF ProbeFlagHasOwner
  <2> QED BY <2>1, <2>2, <2>3, <2>4, <2>6 DEF NodeInv, TypeOK
<1>7. ASSUME NEW c \in Calls, FnSucceeds(c) PROVE NodeInv'
  <2>1. SettleSuccess(c) /\ UNCHANGED <<now, isProbe, attempt, raised>>
    BY <1>7 DEF FnSucceeds
  <2>2. loop' \in [Calls -> LoopState] /\ SleeperMayRetry'
    BY <1>7 DEF FnSucceeds, NodeInv, TypeOK, LoopState, SleeperMayRetry
  <2> QED BY <2>1, <2>2, SettleSuccessKeeps DEF NodeInv, TypeOK
<1>8. ASSUME NEW c \in Calls, NEW r \in FnResult, FnThrows(c, r) PROVE NodeInv'
  <2>1. UNCHANGED <<now, isProbe, attempt>>
    BY <1>8 DEF FnThrows
  <2>2. loop' \in [Calls -> LoopState] /\ raised' \in [Calls -> BOOLEAN]
    BY <1>8 DEF FnThrows, NodeInv, TypeOK, LoopState
  <2>5. SleeperMayRetry'
    BY <1>8, <2>1 DEF FnThrows, WillRetry, NodeInv, TypeOK, SleeperMayRetry
  <2>3. CASE WillRetry(c, r)
    <3>1. UNCHANGED <<breakerVars, nodeCache, pc, outcome>>
      BY <1>8, <2>3 DEF FnThrows
    <3> QED BY <2>1, <2>2, <2>5, <3>1 DEF NodeInv, TypeOK, breakerVars,
                 ClosedIffBelowThreshold, ProbeFlagHasOwner, HalfOpenIsCool
  <2>4. CASE ~WillRetry(c, r)
    <3>1. SettleFailure(c, ThrownAs(r))
      BY <1>8, <2>4 DEF FnThrows
    <3>2. ThrownAs(r) \in Outcome
      BY DEF ThrownAs, Outcome
    <3> QED BY <2>1, <2>2, <2>5, <3>1, <3>2, SettleFailureKeeps DEF NodeInv, TypeOK
  <2> QED BY <2>3, <2>4
<1>9. ASSUME NEW c \in Calls, RetryWakes(c) PROVE NodeInv'
  <2>1. loop[c] = "sleeping" /\ attempt[c] < MaxAttempts
    BY <1>9 DEF RetryWakes, NodeInv, SleeperMayRetry
  <2>2. /\ loop' = [loop EXCEPT ![c] = "running"]
        /\ attempt' = [attempt EXCEPT ![c] = @ + 1]
        /\ UNCHANGED <<now, cbState, consecutiveFailures, lastFailureTime,
                       probeInFlight, nodeCache, pc, outcome, isProbe, raised>>
    BY <1>9 DEF RetryWakes, breakerVars
  <2>3. attempt' \in [Calls -> 0..MaxAttempts] /\ loop' \in [Calls -> LoopState]
        /\ SleeperMayRetry'
    BY <2>1, <2>2 DEF NodeInv, TypeOK, LoopState, SleeperMayRetry
  <2> QED BY <2>2, <2>3 DEF NodeInv, TypeOK, ClosedIffBelowThreshold,
               ProbeFlagHasOwner, HalfOpenIsCool
<1>10. ASSUME NEW c \in Calls, Timeout(c) PROVE NodeInv'
  <2>1. SettleFailure(c, "timeout") /\ "timeout" \in Outcome
        /\ UNCHANGED <<now, isProbe, loop, attempt, raised>>
    BY <1>10 DEF Timeout, Outcome, loopVars
  <2> QED BY <2>1, SettleFailureKeeps DEF NodeInv, TypeOK, SleeperMayRetry
<1>11. CASE UNCHANGED vars
  BY <1>11 DEF vars, breakerVars, loopVars, NodeInv, TypeOK, ClosedIffBelowThreshold,
               ProbeFlagHasOwner, HalfOpenIsCool, SleeperMayRetry
<1> QED BY <1>1, <1>2, <1>3, <1>4, <1>5, <1>6, <1>7, <1>8, <1>9, <1>10, <1>11
        DEF Next, Work

-----------------------------------------------------------------------------
(* The strengthened invariant holds in every reachable state. *)
THEOREM InvariantHolds == Spec => []NodeInv
BY InitEstablishes, NextPreserves, PTL DEF Spec

(* Type correctness of breaker, cache and calls (executeNode). *)
THEOREM TypeCorrect == Spec => []TypeOK
<1>1. NodeInv => TypeOK
  BY DEF NodeInv
<1> QED BY <1>1, InvariantHolds, PTL

(* The breaker is closed exactly while its counter is below the threshold, *)
(* for any number of stale calls settling in any order.                     *)
THEOREM BreakerConsistent == Spec => []ClosedIffBelowThreshold
<1>1. NodeInv => ClosedIffBelowThreshold
  BY DEF NodeInv
<1> QED BY <1>1, InvariantHolds, PTL

(* A set probe flag belongs to a probe that is still awaited. *)
THEOREM ProbeFlagOwned == Spec => []ProbeFlagHasOwner
<1>1. NodeInv => ProbeFlagHasOwner
  BY DEF NodeInv
<1> QED BY <1>1, InvariantHolds, PTL

(* The breaker stays sound, for any number of calls (CircuitBreaker).       *)
THEOREM BreakerIsSound == Spec => []BreakerSound
<1>1. NodeInv => BreakerSound
  BY DEF NodeInv, BreakerSound
<1> QED BY <1>1, InvariantHolds, PTL

(* The step of NoAdmissionWhileCooling. *)
LEMMA AdmissionIsCool ==
  ASSUME NodeInv, [Next]_vars, NEW d \in Calls, pc[d] = "idle", pc'[d] = "waiting"
  PROVE  consecutiveFailures < Threshold \/ now - lastFailureTime >= ResetAfter
<1>1. Admit(d)
  BY DEF Next, Work, vars, Tick, Reset, ReturnCached, InputBlocked, RejectOpen, Admit,
     FnSucceeds, FnThrows, RetryWakes, Timeout, SettleSuccess, SettleFailure, Settle,
     NodeInv, TypeOK
<1>2. StateNow # "open"
  BY <1>1 DEF Admit, Refuses
<1>3. CASE StateNow = "closed"
  BY <1>3, StateNowFacts DEF NodeInv, ClosedIffBelowThreshold
<1>4. CASE StateNow = "half_open"
  BY <1>4, StateNowFacts DEF NodeInv, HalfOpenIsCool
<1> QED BY <1>2, <1>3, <1>4, StateNowFacts DEF NodeInv, CircuitState

(* After the breaker tripped, no call reaches the node function before the  *)
(* cool-down has passed (CircuitBreaker.execute).                           *)
THEOREM CoolDownRespected == Spec => NoAdmissionWhileCooling
<1>1. NodeInv /\ [Next]_vars =>
        [\A c \in Calls :
           pc[c] = "idle" /\ pc'[c] = "waiting" =>
             \/ consecutiveFailures < Threshold
             \/ now - lastFailureTime >= ResetAfter]_vars
  BY AdmissionIsCool
<1> QED BY <1>1, InvariantHolds, PTL DEF Spec, NoAdmissionWhileCooling

(* The step of LateAnswerIgnored. *)
LEMMA LateAnswerStep ==
  ASSUME NodeInv, [Next]_vars, NEW d \in Calls, pc[d] = "settled", loop'[d] # loop[d]
  PROVE  outcome'[d] = outcome[d] /\ UNCHANGED <<breakerVars, nodeCache>>
<1>1. FnSucceeds(d) \/ (\E r \in FnResult : FnThrows(d, r)) \/ RetryWakes(d)
  BY DEF Next, Work, vars, loopVars, Tick, Reset, ReturnCached, InputBlocked, RejectOpen,
     Admit, FnSucceeds, FnThrows, RetryWakes, Timeout, NodeInv, TypeOK
<1>2. CASE FnSucceeds(d)
  BY <1>2 DEF FnSucceeds, SettleSuccess
<1>3. CASE \E r \in FnResult : FnThrows(d, r)
  BY <1>3 DEF FnThrows, SettleFailure
<1>4. CASE RetryWakes(d)
  BY <1>4 DEF RetryWakes
<1> QED BY <1>1, <1>2, <1>3, <1>4

(* An answer after the timeout changes nothing that is shared. *)
THEOREM LateAnswersIgnored == Spec => LateAnswerIgnored
<1>1. NodeInv /\ [Next]_vars =>
        [\A c \in Calls :
           pc[c] = "settled" /\ loop'[c] # loop[c] =>
             /\ outcome'[c] = outcome[c]
             /\ UNCHANGED <<breakerVars, nodeCache>>]_vars
  BY LateAnswerStep
<1> QED BY <1>1, InvariantHolds, PTL DEF Spec, LateAnswerIgnored

-----------------------------------------------------------------------------
(* Proof that every backend keeps the promise.  A caller that has read the  *)
(* file holds the lock, so nobody replaces the file before it does: what it *)
(* read is still the content.                                               *)
OfStage(c) ==
  /\ At(c, "selected") => backend = "postgres" /\ caller[c].op = "create"
  /\ At(c, "queued") => backend = "file"
  /\ At(c, "loaded") \/ At(c, "written") =>
       backend = "file" /\ HasLock(c) /\ caller[c].file = table /\ Fits(c)

SessionInv == SessionTypeOK /\ \A c \in Callers : OfStage(c)

(* A call that goes to another stage keeps what it asked; the others stay.  *)
LEMMA GoingTo ==
  ASSUME SessionTypeOK, NEW c \in Callers, caller[c] # None, NEW s \in Stages, GoTo(c, s)
  PROVE  /\ caller' \in [Callers -> StoreCalls \cup {None}]
         /\ caller'[c] = [caller[c] EXCEPT !.at = s] /\ caller'[c] # None /\ caller'[c].at = s
         /\ caller'[c].op = caller[c].op /\ caller'[c].key = caller[c].key
         /\ caller'[c].value = caller[c].value /\ caller'[c].file = caller[c].file
         /\ \A d \in Callers \ {c} : caller'[d] = caller[d]
<1>1. caller[c] \in StoreCalls /\ caller \in [Callers -> StoreCalls \cup {None}]
  BY DEF SessionTypeOK
<1>2. caller'[c] = [caller[c] EXCEPT !.at = s] /\ \A d \in Callers \ {c} : caller'[d] = caller[d]
  BY <1>1 DEF GoTo
<1>3. [caller[c] EXCEPT !.at = s] \in StoreCalls
  BY <1>1 DEF StoreCalls
<1>4. caller'[c] # None
  BY <1>2, <1>3, SessionStoreAssumption
<1>5. /\ caller'[c].at = s /\ caller'[c].op = caller[c].op /\ caller'[c].key = caller[c].key
      /\ caller'[c].value = caller[c].value /\ caller'[c].file = caller[c].file
  BY <1>1, <1>2 DEF StoreCalls
<1>6. caller' \in [Callers -> StoreCalls \cup {None}]
  BY <1>1, <1>3 DEF GoTo
<1> QED
  BY <1>2, <1>4, <1>5, <1>6

LEMMA WithTyped ==
  ASSUME SessionTypeOK, NEW c \in Callers, caller[c] # None,
         NEW rows \in [Keys -> Values \cup {None}]
  PROVE  With(rows, c) \in [Keys -> Values \cup {None}]
<1>1. caller[c] \in StoreCalls
  BY DEF SessionTypeOK
<1> QED
  BY <1>1 DEF With, StoreCalls

LEMMA SessionInitially == SessionInit => SessionInv
BY SessionStoreAssumption DEF SessionInit, SessionInv, SessionTypeOK, NoRows, OfStage, At

LEMMA SessionStep == SessionInv /\ [SessionNext]_sessionVars => SessionInv'
<1> SUFFICES ASSUME SessionInv, [SessionNext]_sessionVars PROVE SessionInv'
  OBVIOUS
<1>0. SessionTypeOK /\ \A d \in Callers : OfStage(d)
  BY DEF SessionInv
<1>1. ASSUME NEW c \in Callers, caller[c] # None, NEW s \in Stages \ {"selected", "queued", "loaded", "written"},
             GoTo(c, s), UNCHANGED <<backend, holds, calls>>, table' \in [Keys -> Values \cup {None}],
             lock' \in Seq(Callers),
             \/ backend # "file"
             \/ lock # <<>> /\ HasLock(c)
      PROVE  SessionInv'
  <2>1. /\ caller' \in [Callers -> StoreCalls \cup {None}] /\ caller'[c].at = s
        /\ \A d \in Callers \ {c} : caller'[d] = caller[d]
    BY <1>0, <1>1, GoingTo
  <2>2. OfStage(c)'
    BY <1>1, <2>1 DEF OfStage, At
  <2>3. ASSUME NEW d \in Callers \ {c} PROVE OfStage(d)'
    BY <1>0, <1>1, <2>1 DEF OfStage, At, HasLock
  <2>4. SessionTypeOK'
    BY <1>0, <1>1, <2>1 DEF SessionTypeOK
  <2> QED
    BY <2>2, <2>3, <2>4 DEF SessionInv
<1>2. ASSUME NEW c \in Callers, CallerStep(c) PROVE SessionInv'
  <2>1. ASSUME NEW op \in OpsOf[holds], NEW k \in Keys, NEW v \in Values, Call(c, op, k, v) PROVE SessionInv'
    <3> DEFINE new == [op |-> op, key |-> k, value |-> v, file |-> NoRows,
                       at |-> IF backend = "file" THEN "queued" ELSE "called"]
    <3>1. caller' = [caller EXCEPT ![c] = new] /\ UNCHANGED <<backend, holds, table>> /\ calls' = calls + 1
      BY <2>1 DEF Call
    <3>2. new \in StoreCalls
      BY <1>0 DEF StoreCalls, NoRows, Stages, Finals, OpsOf, SessionTypeOK
    <3>3. lock' \in Seq(Callers) /\ \A d \in Callers : HasLock(d) => HasLock(d)'
      BY <1>0, <2>1 DEF Call, SessionTypeOK, HasLock
    <3>4. caller'[c].at \in {"queued", "called"} /\ (caller'[c].at = "queued" => backend = "file")
      BY <1>0, <3>1 DEF SessionTypeOK
    <3>5. SessionTypeOK'
      BY <1>0, <3>1, <3>2, <3>3 DEF SessionTypeOK
    <3>6. ASSUME NEW d \in Callers PROVE OfStage(d)'
      <4>1. CASE d = c
        BY <3>1, <3>4, <4>1 DEF OfStage, At
      <4>2. CASE d # c
        <5>1. caller'[d] = caller[d]
          BY <1>0, <3>1, <4>2 DEF SessionTypeOK
        <5> QED
          BY <1>0, <3>1, <3>3, <5>1 DEF OfStage, At, Fits, Free
      <4> QED
        BY <4>1, <4>2
    <3> QED
      BY <3>5, <3>6 DEF SessionInv
  <2>2. CASE AnswerAtOnce(c) \/ Update(c) \/ Upsert(c) \/ Insert(c) \/ AnswerIsLost(c) \/ QueryFails(c)
    <3>1. caller[c] # None /\ backend # "file" /\ UNCHANGED <<backend, holds, lock, calls>>
      BY <1>0, <2>2 DEF AnswerAtOnce, Update, Upsert, Insert, AnswerIsLost, QueryFails, PerformNow, At, OfStage
    <3>2. table' = table \/ table' = With(table, c)
      BY <2>2 DEF AnswerAtOnce, Update, Upsert, Insert, AnswerIsLost, QueryFails, PerformNow
    <3>3. \E s \in Finals : GoTo(c, s)
      BY <2>2 DEF AnswerAtOnce, Update, Upsert, Insert, AnswerIsLost, QueryFails, PerformNow, Finals
    <3> QED
      BY <1>0, <1>1, <3>1, <3>2, <3>3, WithTyped DEF SessionTypeOK, Stages, Finals
  <2>3. CASE Select(c)
    <3>1. /\ caller[c] # None /\ backend = "postgres" /\ caller[c].op = "create"
          /\ UNCHANGED <<backend, holds, table, lock, calls>>
      BY <2>3 DEF Select, At
    <3>2. CASE GoTo(c, "refused")
      BY <1>0, <1>1, <3>1, <3>2 DEF SessionTypeOK, Stages, Finals
    <3>3. CASE GoTo(c, "selected")
      <4>1. /\ caller' \in [Callers -> StoreCalls \cup {None}] /\ caller'[c].at = "selected"
            /\ caller'[c].op = "create" /\ \A d \in Callers \ {c} : caller'[d] = caller[d]
        BY <1>0, <3>1, <3>3, GoingTo DEF Stages
      <4>2. ASSUME NEW d \in Callers PROVE OfStage(d)'
        BY <1>0, <3>1, <4>1 DEF OfStage, At
      <4> QED
        BY <1>0, <3>1, <4>1, <4>2 DEF SessionInv, SessionTypeOK
    <3> QED
      BY <2>3, <3>2, <3>3 DEF Select
  <2>4. CASE Load(c)
    <3>1. caller[c] # None /\ HasLock(c) /\ backend = "file" /\ UNCHANGED <<backend, holds, table, calls>>
      BY <1>0, <2>4 DEF Load, At, OfStage
    <3>2. CASE GoTo(c, "refused") /\ Released
      <4>1. lock' \in Seq(Callers) /\ lock # <<>>
        BY <1>0, <3>1, <3>2 DEF Released, SessionTypeOK, HasLock
      <4> QED
        BY <1>0, <1>1, <3>1, <3>2, <4>1 DEF SessionTypeOK, Stages, Finals
    <3>3. CASE Fits(c) /\ caller' = [caller EXCEPT ![c].at = "loaded", ![c].file = table] /\ UNCHANGED lock
      <4>1. caller[c] \in StoreCalls
        BY <1>0, <3>1 DEF SessionTypeOK
      <4>2. caller'[c] = [caller[c] EXCEPT !.at = "loaded", !.file = table]
        BY <1>0, <3>3 DEF SessionTypeOK
      <4>3. caller'[c] \in StoreCalls /\ caller'[c].file = table /\ caller'[c].at = "loaded"
        BY <1>0, <4>1, <4>2 DEF StoreCalls, SessionTypeOK, Stages
      <4>3a. caller'[c].op = caller[c].op /\ caller'[c].key = caller[c].key
        BY <4>1, <4>2 DEF StoreCalls
      <4>4. caller' \in [Callers -> StoreCalls \cup {None}] /\ \A d \in Callers \ {c} : caller'[d] = caller[d]
        BY <1>0, <3>3, <4>2, <4>3 DEF SessionTypeOK
      <4>5. OfStage(c)'
        BY <3>1, <3>3, <4>3, <4>3a DEF OfStage, At, HasLock, Fits, Free
      <4>6. ASSUME NEW d \in Callers \ {c} PROVE OfStage(d)'
        BY <1>0, <3>1, <3>3, <4>4 DEF OfStage, At, HasLock, Fits, Free
      <4> QED
        BY <1>0, <3>1, <3>3, <4>4, <4>5, <4>6 DEF SessionInv, SessionTypeOK
    <3> QED
      BY <2>4, <3>2, <3>3 DEF Load
  <2>5. CASE WriteTemporary(c)
    <3>1. At(c, "loaded") /\ GoTo(c, "written") /\ UNCHANGED <<backend, holds, table, lock, calls>>
      BY <2>5 DEF WriteTemporary
    <3>2. /\ caller' \in [Callers -> StoreCalls \cup {None}] /\ caller'[c].at = "written"
          /\ caller'[c].op = caller[c].op /\ caller'[c].key = caller[c].key /\ caller'[c].file = caller[c].file
          /\ \A d \in Callers \ {c} : caller'[d] = caller[d]
      BY <1>0, <3>1, GoingTo DEF Stages, At
    <3>3. ASSUME NEW d \in Callers PROVE OfStage(d)'
      <4>1. CASE d = c
        BY <1>0, <3>1, <3>2, <4>1 DEF OfStage, At, HasLock, Fits, Free
      <4>2. CASE d # c
        BY <1>0, <3>1, <3>2, <4>2 DEF OfStage, At, HasLock, Fits, Free
      <4> QED
        BY <4>1, <4>2
    <3> QED
      BY <1>0, <3>1, <3>2, <3>3 DEF SessionInv, SessionTypeOK
  <2>6. CASE Rename(c) \/ FileFails(c)
    <3>1. caller[c] # None /\ HasLock(c) /\ backend = "file" /\ UNCHANGED <<backend, holds, calls>> /\ Released
      BY <1>0, <2>6 DEF Rename, FileFails, At, OfStage
    <3>2. table' = table \/ table' = With(table, c)
      BY <1>0, <2>6 DEF Rename, FileFails, OfStage
    <3>3. lock' \in Seq(Callers) /\ lock # <<>>
      BY <1>0, <3>1 DEF Released, SessionTypeOK, HasLock
    <3>4. GoTo(c, "ok") \/ GoTo(c, "failed")
      BY <2>6 DEF Rename, FileFails
    <3> QED
      BY <1>0, <1>1, <3>1, <3>2, <3>3, <3>4, WithTyped DEF SessionTypeOK, Stages, Finals
  <2> QED
    BY <1>2, <2>1, <2>2, <2>3, <2>4, <2>5, <2>6 DEF CallerStep
<1>3. CASE ProcessRestarts
  <2>1. SessionTypeOK'
    BY <1>0, <1>3 DEF ProcessRestarts, SessionTypeOK, NoRows
  <2>2. \A c \in Callers : caller'[c] = None
    BY <1>3 DEF ProcessRestarts
  <2> QED
    BY <2>1, <2>2 DEF SessionInv, OfStage, At
<1>4. CASE UNCHANGED sessionVars
  BY <1>0, <1>4 DEF sessionVars, SessionInv, SessionTypeOK, OfStage, At, HasLock, Fits, Free
<1> QED
  BY <1>2, <1>3, <1>4 DEF SessionNext

(* A call that goes to another stage has the answer of that stage, in the   *)
(* terms of the promise, and no other request changes.                      *)
LEMMA Answering ==
  ASSUME SessionTypeOK, NEW c \in Callers, caller[c] # None, NEW s \in Stages, GoTo(c, s)
  PROVE  [d \in Callers |-> RequestOf(d)]' =
           [[d \in Callers |-> RequestOf(d)] EXCEPT ![c].answer = AnswerOf(s)]
<1>1. /\ caller'[c] # None /\ caller'[c].at = s
      /\ caller'[c].op = caller[c].op /\ caller'[c].key = caller[c].key
      /\ caller'[c].value = caller[c].value
      /\ \A d \in Callers \ {c} : caller'[d] = caller[d]
  BY GoingTo
<1>2. RequestOf(c)' = [RequestOf(c) EXCEPT !.answer = AnswerOf(s)]
  BY <1>1 DEF RequestOf
<1>3. \A d \in Callers \ {c} : RequestOf(d)' = RequestOf(d)
  BY <1>1 DEF RequestOf
<1> QED
  BY <1>2, <1>3

(* The request of a call under way, as the promise sees it.                 *)
LEMMA Waiting ==
  ASSUME SessionTypeOK, NEW c \in Callers, caller[c] # None, caller[c].at \notin Finals
  PROVE  /\ Promise!Pending(c)
         /\ Promise!Fits(RequestOf(c)) <=> Fits(c)
         /\ RequestOf(c).key = caller[c].key /\ RequestOf(c).value = caller[c].value
<1>1. caller[c] \in StoreCalls
  BY DEF SessionTypeOK
<1>2. RequestOf(c) = [op |-> caller[c].op, key |-> caller[c].key, value |-> caller[c].value,
                      answer |-> "pending"]
  BY DEF RequestOf, AnswerOf
<1>3. RequestOf(c) \in Asked
  BY <1>1, <1>2 DEF StoreCalls, Asked
<1>4. RequestOf(c) # None
  BY <1>3, SessionStoreAssumption
<1> QED
  BY <1>2, <1>4 DEF Promise!Pending, Promise!Fits, Fits, Free

(* A call that is answered ok, or whose answer is lost after it took effect,*)
(* performs the promised change at that moment.                             *)
LEMMA TakingEffect ==
  ASSUME SessionTypeOK, NEW c \in Callers, caller[c] # None, caller[c].at \notin Finals, Fits(c),
         NEW s \in {"ok", "lost"}, GoTo(c, s), table' = With(table, c)
  PROVE  Promise!Perform(c)
<1>1. [d \in Callers |-> RequestOf(d)]' =
        [[d \in Callers |-> RequestOf(d)] EXCEPT ![c].answer = s]
  BY Answering DEF Stages, Finals, AnswerOf
<1>2. /\ Promise!Pending(c) /\ Promise!Fits(RequestOf(c))
      /\ RequestOf(c).key = caller[c].key /\ RequestOf(c).value = caller[c].value
  BY Waiting
<1>3. table' = [table EXCEPT ![RequestOf(c).key] = RequestOf(c).value]
  BY <1>2 DEF With
<1> QED
  BY <1>1, <1>2, <1>3 DEF Promise!Perform, Promise!Answer

(* A call that is refused finds the key taken, or missing, at that moment.  *)
LEMMA BeingRefused ==
  ASSUME SessionTypeOK, NEW c \in Callers, caller[c] # None, caller[c].at \notin Finals, ~Fits(c),
         GoTo(c, "refused"), UNCHANGED table
  PROVE  Promise!Perform(c)
<1>1. [d \in Callers |-> RequestOf(d)]' =
        [[d \in Callers |-> RequestOf(d)] EXCEPT ![c].answer = "refused"]
  BY Answering DEF Stages, Finals, AnswerOf
<1> QED
  BY <1>1, Waiting DEF Promise!Perform, Promise!Answer

LEMMA Failing ==
  ASSUME SessionTypeOK, NEW c \in Callers, caller[c] # None, caller[c].at \notin Finals,
         GoTo(c, "failed"), UNCHANGED table
  PROVE  Promise!Fail(c)
<1>1. [d \in Callers |-> RequestOf(d)]' =
        [[d \in Callers |-> RequestOf(d)] EXCEPT ![c].answer = "failed"]
  BY Answering DEF Stages, Finals, AnswerOf
<1> QED
  BY <1>1, Waiting DEF Promise!Fail, Promise!Answer

(* Looking, loading and writing the temporary file change nothing that the  *)
(* promise speaks of.                                                       *)
LEMMA GoingOn ==
  ASSUME SessionTypeOK, NEW c \in Callers, caller[c] # None, caller[c].at \notin Finals,
         NEW s \in Stages \ Finals, GoTo(c, s), UNCHANGED table
  PROVE  UNCHANGED Promise!atomicVars
<1>1. [d \in Callers |-> RequestOf(d)]' =
        [[d \in Callers |-> RequestOf(d)] EXCEPT ![c].answer = "pending"]
  BY Answering DEF AnswerOf
<1>2. RequestOf(c) = [op |-> caller[c].op, key |-> caller[c].key, value |-> caller[c].value,
                      answer |-> "pending"]
  BY DEF RequestOf, AnswerOf
<1>3. [RequestOf(c) EXCEPT !.answer = "pending"] = RequestOf(c)
  BY <1>2
<1>4. [d \in Callers |-> RequestOf(d)]' = [d \in Callers |-> RequestOf(d)]
  BY <1>1, <1>3
<1> QED
  BY <1>4 DEF Promise!atomicVars

LEMMA PromiseInitially == SessionInit => Promise!AtomicInit
<1> SUFFICES ASSUME SessionInit PROVE Promise!AtomicInit
  OBVIOUS
<1>1. \A c \in Callers : RequestOf(c) = None
  BY DEF SessionInit, RequestOf
<1> QED
  BY <1>1 DEF SessionInit, NoRows, Promise!AtomicInit

LEMMA PromiseStep ==
  SessionInv /\ [SessionNext]_sessionVars => [Promise!AtomicNext]_(Promise!atomicVars)
<1> SUFFICES ASSUME SessionInv, [SessionNext]_sessionVars
             PROVE  Promise!AtomicNext \/ UNCHANGED Promise!atomicVars
  OBVIOUS
<1>0. SessionTypeOK /\ \A d \in Callers : OfStage(d)
  BY DEF SessionInv
<1>1. ASSUME NEW c \in Callers, CallerStep(c)
      PROVE  Promise!Ask(c) \/ Promise!Perform(c) \/ Promise!Fail(c) \/ UNCHANGED Promise!atomicVars
  <2>1. ASSUME NEW op \in OpsOf[holds], NEW k \in Keys, NEW v \in Values, Call(c, op, k, v)
        PROVE  Promise!Ask(c)
    <3> DEFINE new == [op |-> op, key |-> k, value |-> v, file |-> NoRows,
                       at |-> IF backend = "file" THEN "queued" ELSE "called"]
               asked == [op |-> op, key |-> k, value |-> v, answer |-> "pending"]
    <3>1. caller' = [caller EXCEPT ![c] = new] /\ UNCHANGED table /\ Idle(c)
      BY <2>1 DEF Call
    <3>2. op \in Promise!Ops
      BY <1>0 DEF SessionTypeOK, OpsOf, Promise!Ops
    <3>3. new \in StoreCalls
      BY <1>0 DEF StoreCalls, NoRows, Stages, Finals, OpsOf, SessionTypeOK
    <3>4. caller'[c] = new /\ \A d \in Callers \ {c} : caller'[d] = caller[d]
      BY <1>0, <3>1 DEF SessionTypeOK
    <3>5. RequestOf(c)' = asked
      BY <3>3, <3>4, SessionStoreAssumption DEF RequestOf, AnswerOf, Finals
    <3>6. \A d \in Callers \ {c} : RequestOf(d)' = RequestOf(d)
      BY <3>4 DEF RequestOf
    <3>7. [d \in Callers |-> RequestOf(d)]' = [[d \in Callers |-> RequestOf(d)] EXCEPT ![c] = asked]
      BY <3>5, <3>6
    <3>8. ~Promise!Pending(c)
      BY <3>1 DEF Promise!Pending, Idle, RequestOf, AnswerOf, Finals
    <3> QED
      BY <3>1, <3>2, <3>7, <3>8 DEF Promise!Ask
  <2>2. ASSUME PerformNow(c), caller[c] # None, caller[c].at \notin Finals PROVE Promise!Perform(c)
    <3>1. CASE Fits(c)
      BY <1>0, <2>2, <3>1, TakingEffect DEF PerformNow
    <3>2. CASE ~Fits(c)
      BY <1>0, <2>2, <3>2, BeingRefused DEF PerformNow
    <3> QED
      BY <3>1, <3>2
  <2>3. CASE AnswerAtOnce(c) \/ Update(c) \/ Upsert(c) \/ Insert(c)
    BY <2>2, <2>3 DEF AnswerAtOnce, Update, Upsert, Insert, At, Finals
  <2>4. CASE Select(c)
    <3>1. /\ caller[c] # None /\ caller[c].at = "called" /\ caller[c].op = "create"
          /\ UNCHANGED table /\ GoTo(c, IF Free(c) THEN "selected" ELSE "refused")
      BY <2>4 DEF Select, At
    <3>2. CASE Free(c)
      BY <1>0, <3>1, <3>2, GoingOn DEF Stages, Finals
    <3>3. CASE ~Free(c)
      <4>1. ~Fits(c)
        BY <3>1, <3>3 DEF Fits
      <4> QED
        BY <1>0, <3>1, <3>3, <4>1, BeingRefused DEF Finals
    <3> QED
      BY <3>2, <3>3
  <2>5. CASE AnswerIsLost(c)
    <3>1. /\ caller[c] # None /\ caller[c].at \notin Finals /\ GoTo(c, "lost") /\ table' = With(table, c)
      BY <2>5 DEF AnswerIsLost, At, Finals
    <3>2. Fits(c)
      BY <1>0, <2>5 DEF AnswerIsLost, OfStage, Fits
    <3> QED
      BY <1>0, <3>1, <3>2, TakingEffect
  <2>6. CASE QueryFails(c) \/ FileFails(c)
    BY <1>0, <2>6, Failing DEF QueryFails, FileFails, At, Finals
  <2>7. CASE Load(c)
    <3>1. caller[c] # None /\ caller[c].at = "queued" /\ UNCHANGED table
      BY <2>7 DEF Load, At
    <3>2. CASE ~Fits(c)
      BY <1>0, <2>7, <3>1, <3>2, BeingRefused DEF Load, Finals
    <3>3. CASE Fits(c)
      <4>1. caller' = [caller EXCEPT ![c].at = "loaded", ![c].file = table]
        BY <2>7, <3>3 DEF Load
      <4>2. /\ caller'[c] = [caller[c] EXCEPT !.at = "loaded", !.file = table]
            /\ \A d \in Callers \ {c} : caller'[d] = caller[d]
        BY <1>0, <4>1 DEF SessionTypeOK
      <4>3. caller[c] \in StoreCalls
        BY <1>0, <3>1 DEF SessionTypeOK
      <4>4. /\ caller'[c].at = "loaded" /\ caller'[c].op = caller[c].op
            /\ caller'[c].key = caller[c].key /\ caller'[c].value = caller[c].value
        BY <4>2, <4>3 DEF StoreCalls
      <4>4a. caller'[c] # None
        <5>1. caller'[c] \in StoreCalls
          BY <1>0, <4>2, <4>3 DEF StoreCalls, SessionTypeOK, Stages
        <5> QED
          BY <5>1, SessionStoreAssumption
      <4>5. \A d \in Callers : RequestOf(d)' = RequestOf(d)
        BY <3>1, <4>2, <4>4, <4>4a DEF RequestOf, AnswerOf, Finals
      <4> QED
        BY <3>1, <4>5 DEF Promise!atomicVars
    <3> QED
      BY <3>2, <3>3
  <2>8. CASE WriteTemporary(c)
    BY <1>0, <2>8, GoingOn DEF WriteTemporary, At, Stages, Finals
  <2>9. CASE Rename(c)
    <3>1. caller[c] # None /\ caller[c].at = "written" /\ GoTo(c, "ok") /\ table' = With(caller[c].file, c)
      BY <2>9 DEF Rename, At
    <3>2. caller[c].file = table /\ Fits(c)
      BY <1>0, <2>9 DEF Rename, OfStage
    <3> QED
      BY <1>0, <3>1, <3>2, TakingEffect DEF Finals
  <2> QED
    BY <1>1, <2>1, <2>3, <2>4, <2>5, <2>6, <2>7, <2>8, <2>9 DEF CallerStep
<1>2. CASE ProcessRestarts
  <2>1. \A c \in Callers : RequestOf(c)' = None
    BY <1>2 DEF ProcessRestarts, RequestOf
  <2>2. Promise!Restart
    BY <1>2, <2>1 DEF ProcessRestarts, NoRows, Promise!Restart
  <2> QED
    BY <2>2 DEF Promise!AtomicNext
<1>3. CASE UNCHANGED sessionVars
  BY <1>3 DEF sessionVars, Promise!atomicVars, RequestOf
<1> QED
  BY <1>1, <1>2, <1>3 DEF SessionNext, Promise!AtomicNext

(* Whichever backend keeps the rows, every call of a session or artifact    *)
(* store takes effect at one moment between the call and its answer, or not *)
(* at all: whatever the calls, the failures, the lost answers and the       *)
(* restarts, the store implements AtomicStore (postgres-store.ts:192-235,   *)
(* sqlite-store.ts:179-222, filesystem.ts:50-136, in-memory.ts:138-153).    *)
THEOREM StoresAreAtomic == SessionSpec => SessionsAreAtomic
<1>1. SessionSpec => []SessionInv
  BY SessionInitially, SessionStep, PTL DEF SessionSpec
<1> QED
  BY <1>1, PromiseInitially, PromiseStep, PTL DEF SessionSpec, SessionsAreAtomic, Promise!AtomicSpec

-----------------------------------------------------------------------------
(***************************************************************************)
(* Tools that are loaded.  What a name has comes from a file that has it,  *)
(* and two files that have a name have shared it since the second loaded.  *)
(***************************************************************************)
Loads == [file : Extensions, version : 0..MaxEdits]

ToolsInv ==
  /\ edits \in 0..MaxEdits
  /\ \A f \in Extensions : disk[f].number \in 0..edits
  /\ disk \in [Extensions -> [number : 0..MaxEdits, exports : SUBSET ToolNames, loads : BOOLEAN]]
  /\ fileTools \in [Extensions -> SUBSET ToolNames] /\ loaded \in [Extensions -> 0..MaxEdits]
  /\ toolHandlers \in [ToolNames -> Loads \cup {Nobody}]
  /\ \A n \in ToolNames, f, g \in Extensions : n \in fileTools[f] /\ n \in fileTools[g] /\ f # g => n \in shared
  /\ LoadedToolsTrue

LEMMA ToolsInitially == LiveInit => ToolsInv
BY LiveAssumption DEF LiveInit, ToolsInv, Absent, Version, LoadedToolsTrue

LEMMA ToolsStep == ToolsInv /\ [LiveNext]_liveVars => ToolsInv'
<1> SUFFICES ASSUME ToolsInv, [LiveNext]_liveVars PROVE ToolsInv'
  OBVIOUS
<1>1. CASE UNCHANGED liveVars
  BY <1>1 DEF liveVars, ToolsInv, LoadedToolsTrue
<1>2. ASSUME NEW f \in Extensions, Edit(f) PROVE ToolsInv'
  <2>1. /\ edits' = edits + 1 /\ edits' \in 0..MaxEdits /\ UNCHANGED <<toolHandlers, fileTools, loaded, shared>>
        /\ \E v \in [number : 0..MaxEdits, exports : SUBSET ToolNames, loads : BOOLEAN] :
             v.number \in 0..edits' /\ disk' = [disk EXCEPT ![f] = v]
    <3>1. /\ edits' = edits + 1 /\ edits < MaxEdits /\ edits \in 0..MaxEdits
          /\ UNCHANGED <<toolHandlers, fileTools, loaded, shared>>
          /\ \E v \in {Version(edits', exports, TRUE) : exports \in SUBSET ToolNames}
                        \cup {Version(edits', {}, FALSE), Absent} : disk' = [disk EXCEPT ![f] = v]
      BY <1>2 DEF Edit, ToolsInv
    <3>2. edits' \in 0..MaxEdits /\ edits' \in 0..edits' /\ 0 \in 0..edits' /\ 0 \in 0..MaxEdits
      BY <3>1, LiveAssumption
    <3> QED
      BY <3>1, <3>2 DEF Version, Absent
  <2>2. disk' \in [Extensions -> [number : 0..MaxEdits, exports : SUBSET ToolNames, loads : BOOLEAN]]
    BY <2>1 DEF ToolsInv
  <2>3. \A g \in Extensions : disk'[g].number \in 0..edits'
    BY <2>1 DEF ToolsInv
  <2> QED
    BY <2>1, <2>2, <2>3 DEF ToolsInv, LoadedToolsTrue
<1>3. ASSUME NEW f \in Extensions, Hear(f) PROVE ToolsInv'
  <2> DEFINE load == [file |-> f, version |-> disk[f].number]
  <2>1. /\ disk[f].exports \subseteq ToolNames /\ disk[f].number \in 0..MaxEdits
        /\ fileTools' = [fileTools EXCEPT ![f] = disk[f].exports]
        /\ loaded' = [loaded EXCEPT ![f] = disk[f].number]
        /\ shared' = shared \cup {n \in disk[f].exports : \E g \in Extensions \ {f} : n \in fileTools[g]}
        /\ UNCHANGED <<disk, edits>>
    BY <1>3 DEF Hear, ToolsInv
  <2>2. load \in Loads /\ load # Nobody /\ load.file = f /\ load.version = disk[f].number
    BY <2>1, LiveAssumption DEF Loads
  <2>3. toolHandlers' = [n \in ToolNames |-> IF n \in disk[f].exports THEN load
                                             ELSE IF n \in fileTools[f] THEN Nobody ELSE toolHandlers[n]]
    BY <1>3 DEF Hear, RegisterAll, Unloaded
  <2> HIDE DEF load
  <2>4. fileTools' \in [Extensions -> SUBSET ToolNames] /\ loaded' \in [Extensions -> 0..MaxEdits]
    BY <2>1 DEF ToolsInv
  <2>5. toolHandlers' \in [ToolNames -> Loads \cup {Nobody}]
    BY <2>2, <2>3 DEF ToolsInv
  <2>6. /\ fileTools'[f] = disk[f].exports /\ loaded'[f] = disk[f].number
        /\ \A g \in Extensions \ {f} : fileTools'[g] = fileTools[g] /\ loaded'[g] = loaded[g]
    BY <2>1 DEF ToolsInv
  <2>7. \A n \in ToolNames, g, h \in Extensions : n \in fileTools'[g] /\ n \in fileTools'[h] /\ g # h => n \in shared'
    BY <2>1, <2>6 DEF ToolsInv
  <2>8. ASSUME NEW n \in ToolNames, toolHandlers'[n] # Nobody
        PROVE  n \in fileTools'[toolHandlers'[n].file] /\ toolHandlers'[n].version = loaded'[toolHandlers'[n].file]
    <3>1. CASE n \in disk[f].exports
      BY <2>2, <2>3, <2>6, <3>1
    <3>2. CASE n \notin disk[f].exports
      <4>1. n \notin fileTools[f] /\ toolHandlers'[n] = toolHandlers[n] /\ toolHandlers[n] # Nobody
        BY <2>3, <2>8, <3>2
      <4>2. toolHandlers[n] \in Loads /\ n \in fileTools[toolHandlers[n].file]
            /\ toolHandlers[n].version = loaded[toolHandlers[n].file]
        BY <4>1 DEF ToolsInv, LoadedToolsTrue
      <4>3. toolHandlers[n].file \in Extensions \ {f}
        BY <4>1, <4>2 DEF Loads
      <4> QED
        BY <2>6, <4>1, <4>2, <4>3
    <3> QED
      BY <3>1, <3>2
  <2>9. ASSUME NEW n \in ToolNames \ shared'
        PROVE  toolHandlers'[n] # Nobody <=> \E g \in Extensions : n \in fileTools'[g]
    <3>1. n \notin shared /\ (toolHandlers[n] # Nobody <=> \E g \in Extensions : n \in fileTools[g])
      BY <2>1 DEF ToolsInv, LoadedToolsTrue
    <3>2. CASE n \in disk[f].exports
      BY <2>2, <2>3, <2>6, <3>2
    <3>3. CASE n \notin disk[f].exports /\ n \in fileTools[f]
      BY <2>3, <2>6, <3>1, <3>3 DEF ToolsInv
    <3>4. CASE n \notin disk[f].exports /\ n \notin fileTools[f]
      BY <2>3, <2>6, <3>1, <3>4
    <3> QED
      BY <3>2, <3>3, <3>4
  <2> QED
    BY <2>1, <2>4, <2>5, <2>7, <2>8, <2>9 DEF ToolsInv, LoadedToolsTrue
<1>4. ASSUME NEW c \in ToolCalls, HandlerAnswers(c) \/ \E n \in ToolNames : Dispatch(c, n) PROVE ToolsInv'
  <2>1. UNCHANGED <<disk, edits, toolHandlers, fileTools, loaded, shared>>
    BY <1>4 DEF HandlerAnswers, Dispatch
  <2> QED
    BY <2>1 DEF ToolsInv, LoadedToolsTrue
<1> QED
  BY <1>1, <1>2, <1>3, <1>4 DEF LiveNext

-----------------------------------------------------------------------------
(***************************************************************************)
(* Items of the long-term store.  Of a put that awaits its embedding: the  *)
(* item it may take back to was put after the last delete() too, if its    *)
(* own was.                                                                *)
(***************************************************************************)
ItemRec == [no : Nat, ttl : BOOLEAN, expired : BOOLEAN]
Held(f) == {k \in StoreKeys : f[k] # Nothing}

ItemsInv ==
  /\ writes \in Nat /\ deletedAt \in [StoreKeys -> Nat]
  /\ item \in [StoreKeys -> ItemRec \cup {Nothing}] /\ vector \in [StoreKeys -> ItemRec \cup {Nothing}]
  /\ putting \subseteq [key : StoreKeys, item : ItemRec, existing : ItemRec \cup {Nothing}]
  /\ \A k \in StoreKeys : deletedAt[k] <= writes
  /\ \A p \in putting : p.item.no <= writes
  /\ \A p \in putting : p.item.no > deletedAt[p.key] /\ p.existing # Nothing => p.existing.no > deletedAt[p.key]
  /\ \A k \in StoreKeys : Has(k) => item[k].no > deletedAt[k]
  /\ \A k \in StoreKeys : vector[k] # Nothing => vector[k].no > deletedAt[k]
  /\ store = "memory" => IsFiniteSet(Held(item)) /\ Cardinality(Held(item)) <= MaxItems

LEMMA ItemsInitially == StoreInit => ItemsInv
<1> SUFFICES ASSUME StoreInit PROVE ItemsInv
  OBVIOUS
<1>1. Held(item) = {}
  BY DEF StoreInit, Held
<1>2. IsFiniteSet(Held(item)) /\ Cardinality(Held(item)) = 0
  BY <1>1, FS_EmptySet
<1> QED
  BY <1>2, KeyValueAssumption DEF StoreInit, ItemsInv, Has

(* A part of what is stored is within the limit if all of it is. *)
LEMMA FewerHeld ==
  ASSUME NEW f, NEW g, Held(g) \subseteq Held(f),
         IsFiniteSet(Held(f)), Cardinality(Held(f)) <= MaxItems
  PROVE  IsFiniteSet(Held(g)) /\ Cardinality(Held(g)) <= MaxItems
<1>1. /\ IsFiniteSet(Held(g)) /\ Cardinality(Held(g)) <= Cardinality(Held(f))
      /\ Cardinality(Held(g)) \in Nat /\ Cardinality(Held(f)) \in Nat
  BY FS_Subset, FS_CardinalityType
<1> QED
  BY <1>1, KeyValueAssumption

(* Taking keys out of what is stored. *)
LEMMA WithoutKeeps ==
  ASSUME NEW K, NEW f \in [StoreKeys -> ItemRec \cup {Nothing}]
  PROVE  /\ Without(f, K) \in [StoreKeys -> ItemRec \cup {Nothing}]
         /\ Held(Without(f, K)) \subseteq Held(f)
         /\ \A k \in StoreKeys : Without(f, K)[k] \in {Nothing, f[k]}
         /\ \A k \in K \cap StoreKeys : Without(f, K)[k] = Nothing
BY DEF Without, Held

(* An operation that adds no put to those under way, removes no item that   *)
(* a later delete() should have, and holds no more than before.            *)
LEMMA ItemsStay ==
  ASSUME ItemsInv, UNCHANGED <<store, writes, deletedAt>>, putting' \subseteq putting,
         item' \in [StoreKeys -> ItemRec \cup {Nothing}], vector' \in [StoreKeys -> ItemRec \cup {Nothing}],
         Held(item') \subseteq Held(item),
         \A k \in StoreKeys : item'[k] # Nothing => item'[k].no > deletedAt[k],
         \A k \in StoreKeys : vector'[k] # Nothing => vector'[k].no > deletedAt[k]
  PROVE  ItemsInv'
<1>1. store' = "memory" => IsFiniteSet(Held(item')) /\ Cardinality(Held(item')) <= MaxItems
  BY FewerHeld DEF ItemsInv
<1> QED
  BY <1>1 DEF ItemsInv, Has, Held

LEMMA ItemsStep == ItemsInv /\ [StoreNext]_storeVars => ItemsInv'
<1> SUFFICES ASSUME ItemsInv, [StoreNext]_storeVars PROVE ItemsInv'
  OBVIOUS
<1>1. CASE UNCHANGED storeVars
  BY <1>1 DEF storeVars, ItemsInv, Has, Held
<1>2. ASSUME NEW k \in StoreKeys, NEW ttl \in BOOLEAN, PutInMemory(k, ttl) PROVE ItemsInv'
  <2> DEFINE evict == ~Has(k) /\ IsFull(item)
             room == IF evict THEN Without(item, ExpiredKeys) ELSE item
             new == Item(writes', ttl)
  <2>1. /\ store = "memory" /\ writes' = writes + 1 /\ UNCHANGED <<store, deletedAt>>
        /\ vector' = IF evict THEN Without(vector, ExpiredKeys) ELSE vector
        /\ (~Has(k) /\ IsFull(room)) => item' = room /\ putting' = putting
        /\ ~(~Has(k) /\ IsFull(room)) =>
             /\ item' = [room EXCEPT ![k] = new]
             /\ putting' \in {putting, putting \cup {[key |-> k, item |-> new, existing |-> item[k]]}}
    BY <1>2 DEF PutInMemory
  <2>2. new \in ItemRec /\ new.no = writes + 1 /\ writes \in Nat
    BY <2>1 DEF ItemsInv, Item, ItemRec
  <2>3. /\ room \in [StoreKeys -> ItemRec \cup {Nothing}] /\ Held(room) \subseteq Held(item)
        /\ \A j \in StoreKeys : room[j] \in {Nothing, item[j]}
    BY WithoutKeeps DEF ItemsInv
  <2>4. vector' \in [StoreKeys -> ItemRec \cup {Nothing}] /\ \A j \in StoreKeys : vector'[j] \in {Nothing, vector[j]}
    BY <2>1, WithoutKeeps DEF ItemsInv
  <2>5. IsFiniteSet(Held(room)) /\ Cardinality(Held(room)) <= MaxItems
    BY <2>1, <2>3, FewerHeld DEF ItemsInv
  <2>6. Has(k) => room = item
    OBVIOUS
  <2>7. IsFull(room) <=> Cardinality(Held(room)) >= MaxItems
    BY DEF IsFull, Held
  <2>8. \A j \in StoreKeys : room[j] # Nothing => room[j].no > deletedAt[j]
    BY <2>3 DEF ItemsInv, Has
  <2>9. \A j \in StoreKeys : vector'[j] # Nothing => vector'[j].no > deletedAt[j]
    BY <2>4 DEF ItemsInv
  <2> HIDE DEF evict, room, new
  <2>10. CASE ~Has(k) /\ IsFull(room)
    <3>1. item' = room /\ putting' = putting
      BY <2>1, <2>10
    <3>2. \A j \in StoreKeys : deletedAt[j] <= writes'
      BY <2>1, <2>2 DEF ItemsInv
    <3>3. \A p \in putting : p.item.no <= writes'
      BY <2>1, <2>2 DEF ItemsInv, ItemRec
    <3>4. writes' \in Nat
      BY <2>1, <2>2
    <3> QED
      BY <2>1, <2>3, <2>4, <2>5, <2>8, <2>9, <3>1, <3>2, <3>3, <3>4 DEF ItemsInv, Has, Held
  <2>11. CASE Has(k) \/ ~IsFull(room)
    <3>1. /\ item' = [room EXCEPT ![k] = new]
          /\ putting' \in {putting, putting \cup {[key |-> k, item |-> new, existing |-> item[k]]}}
      BY <2>1, <2>11
    <3>2. item' \in [StoreKeys -> ItemRec \cup {Nothing}] /\ item'[k] = new /\ \A j \in StoreKeys \ {k} : item'[j] = room[j]
      BY <2>2, <2>3, <3>1
    <3>3. \A j \in StoreKeys : item'[j] # Nothing => item'[j].no > deletedAt[j]
      BY <2>2, <2>8, <3>2 DEF ItemsInv
    <3>4. IsFiniteSet(Held(item')) /\ Cardinality(Held(item')) <= MaxItems
      <4>1. Held(item') \subseteq Held(room) \cup {k}
        BY <3>2 DEF Held
      <4>2. CASE k \in Held(room)
        <5>1. Held(item') \subseteq Held(room)
          BY <4>1, <4>2
        <5> QED
          BY <2>5, <5>1, FewerHeld
      <4>3. CASE k \notin Held(room)
        <5>1. ~IsFull(room)
          BY <2>6, <2>11, <4>3 DEF Has, Held
        <5>2. Cardinality(Held(room)) \in Nat /\ Cardinality(Held(room)) < MaxItems
          BY <2>5, <2>7, <5>1, FS_CardinalityType, KeyValueAssumption
        <5>3. IsFiniteSet(Held(room) \cup {k}) /\ Cardinality(Held(room) \cup {k}) = Cardinality(Held(room)) + 1
          BY <2>5, <4>3, FS_AddElement
        <5>4. /\ IsFiniteSet(Held(item')) /\ Cardinality(Held(item')) <= Cardinality(Held(room) \cup {k})
              /\ Cardinality(Held(item')) \in Nat
          BY <4>1, <5>3, FS_Subset, FS_CardinalityType
        <5> QED
          BY <5>2, <5>3, <5>4, KeyValueAssumption
      <4> QED
        BY <4>2, <4>3
    <3>5. ASSUME NEW p \in putting'
          PROVE  /\ p \in [key : StoreKeys, item : ItemRec, existing : ItemRec \cup {Nothing}] /\ p.item.no <= writes'
                 /\ p.item.no > deletedAt[p.key] /\ p.existing # Nothing => p.existing.no > deletedAt[p.key]
      <4>1. CASE p \in putting
        <5>1. p.item.no \in Nat /\ p.item.no <= writes
          BY <4>1 DEF ItemsInv, ItemRec
        <5> QED
          BY <2>1, <2>2, <4>1, <5>1 DEF ItemsInv
      <4>2. CASE p = [key |-> k, item |-> new, existing |-> item[k]]
        <5>1. p.key = k /\ p.item = new /\ p.existing = item[k]
          BY <4>2
        <5>2. p \in [key : StoreKeys, item : ItemRec, existing : ItemRec \cup {Nothing}]
          BY <2>2, <4>2 DEF ItemsInv
        <5> QED
          BY <2>1, <2>2, <5>1, <5>2 DEF ItemsInv, Has
      <4> QED
        BY <3>1, <4>1, <4>2
    <3> QED
      BY <2>1, <2>2, <2>4, <2>9, <3>2, <3>3, <3>4, <3>5 DEF ItemsInv, Has, Held
  <2> QED
    BY <2>10, <2>11
<1>3. ASSUME NEW k \in StoreKeys, NEW ttl \in BOOLEAN, PutRemote(k, ttl) PROVE ItemsInv'
  <2>1. /\ store # "memory" /\ writes' = writes + 1 /\ UNCHANGED <<store, deletedAt, vector, putting>>
        /\ item' = [item EXCEPT ![k] = Item(writes', ttl)]
    BY <1>3 DEF PutRemote
  <2>2. Item(writes', ttl) \in ItemRec /\ Item(writes', ttl).no = writes + 1 /\ writes \in Nat
    BY <2>1 DEF ItemsInv, Item, ItemRec
  <2>3. item' \in [StoreKeys -> ItemRec \cup {Nothing}] /\ item'[k] = Item(writes', ttl)
        /\ \A j \in StoreKeys \ {k} : item'[j] = item[j]
    BY <2>1, <2>2 DEF ItemsInv
  <2>4. \A j \in StoreKeys : item'[j] # Nothing => item'[j].no > deletedAt[j]
    BY <2>2, <2>3 DEF ItemsInv, Has
  <2>5. \A p \in putting : p.item.no \in Nat
    BY DEF ItemsInv, ItemRec
  <2> QED
    BY <2>1, <2>2, <2>3, <2>4, <2>5 DEF ItemsInv, Has
<1>4. ASSUME NEW p \in putting, EmbeddingArrives(p) PROVE ItemsInv'
  <2>1. /\ UNCHANGED <<store, item, writes, deletedAt>> /\ putting' \subseteq putting
        /\ vector' = IF StillOurs(p) THEN [vector EXCEPT ![p.key] = p.item] ELSE vector
    BY <1>4 DEF EmbeddingArrives
  <2>2. p.key \in StoreKeys /\ p.item \in ItemRec
    BY DEF ItemsInv
  <2>3. StillOurs(p) => p.item.no > deletedAt[p.key]
    BY <2>2 DEF ItemsInv, StillOurs
  <2>4. vector' \in [StoreKeys -> ItemRec \cup {Nothing}]
    BY <2>1, <2>2 DEF ItemsInv
  <2>5. \A k \in StoreKeys : vector'[k] # Nothing => vector'[k].no > deletedAt[k]
    BY <2>1, <2>2, <2>3 DEF ItemsInv
  <2>6. \A k \in StoreKeys : item'[k] # Nothing => item'[k].no > deletedAt[k]
    BY <2>1 DEF ItemsInv, Has
  <2>7. item' \in [StoreKeys -> ItemRec \cup {Nothing}] /\ Held(item') \subseteq Held(item)
    BY <2>1 DEF ItemsInv
  <2> QED
    BY <2>1, <2>4, <2>5, <2>6, <2>7, ItemsStay
<1>5. ASSUME NEW p \in putting, EmbeddingFails(p) PROVE ItemsInv'
  <2>1. /\ UNCHANGED <<store, vector, writes, deletedAt>> /\ putting' \subseteq putting
        /\ item' = IF StillOurs(p) THEN [item EXCEPT ![p.key] = p.existing] ELSE item
    BY <1>5 DEF EmbeddingFails
  <2>2. p.key \in StoreKeys /\ p.item \in ItemRec /\ p.existing \in ItemRec \cup {Nothing}
    BY DEF ItemsInv
  <2>3. StillOurs(p) => Has(p.key) /\ (p.existing # Nothing => p.existing.no > deletedAt[p.key])
    BY <2>2 DEF ItemsInv, StillOurs
  <2>4. item' \in [StoreKeys -> ItemRec \cup {Nothing}]
    BY <2>1, <2>2 DEF ItemsInv
  <2>5. \A k \in StoreKeys : item'[k] # Nothing => item'[k].no > deletedAt[k]
    BY <2>1, <2>2, <2>3 DEF ItemsInv, Has
  <2>6. Held(item') \subseteq Held(item)
    BY <2>1, <2>2, <2>3 DEF ItemsInv, Has, Held
  <2>7. \A k \in StoreKeys : vector'[k] # Nothing => vector'[k].no > deletedAt[k]
    BY <2>1 DEF ItemsInv
  <2>8. vector' \in [StoreKeys -> ItemRec \cup {Nothing}]
    BY <2>1 DEF ItemsInv
  <2> QED
    BY <2>1, <2>4, <2>5, <2>6, <2>7, <2>8, ItemsStay
<1>6. ASSUME NEW k \in StoreKeys, Delete(k) PROVE ItemsInv'
  <2>1. /\ item' = Without(item, {k}) /\ vector' = Without(vector, {k}) /\ UNCHANGED <<store, putting, writes>>
        /\ deletedAt' = [deletedAt EXCEPT ![k] = writes]
    BY <1>6 DEF Delete
  <2>2. /\ item' \in [StoreKeys -> ItemRec \cup {Nothing}] /\ vector' \in [StoreKeys -> ItemRec \cup {Nothing}]
        /\ Held(item') \subseteq Held(item) /\ item'[k] = Nothing /\ vector'[k] = Nothing
        /\ \A j \in StoreKeys : item'[j] \in {Nothing, item[j]} /\ vector'[j] \in {Nothing, vector[j]}
    BY <2>1, WithoutKeeps DEF ItemsInv
  <2>3. deletedAt' \in [StoreKeys -> Nat] /\ deletedAt'[k] = writes /\ \A j \in StoreKeys \ {k} : deletedAt'[j] = deletedAt[j]
    BY <2>1 DEF ItemsInv
  <2>4. store' = "memory" => IsFiniteSet(Held(item')) /\ Cardinality(Held(item')) <= MaxItems
    BY <2>1, <2>2, FewerHeld DEF ItemsInv
  <2>5. \A j \in StoreKeys : /\ item'[j] # Nothing => item'[j].no > deletedAt'[j]
                             /\ vector'[j] # Nothing => vector'[j].no > deletedAt'[j]
                             /\ deletedAt'[j] <= writes
    BY <2>2, <2>3 DEF ItemsInv, Has
  <2>6. ASSUME NEW p \in putting, p.item.no > deletedAt'[p.key], p.existing # Nothing
        PROVE  p.existing.no > deletedAt'[p.key]
    <3>1. p.key \in StoreKeys /\ p.item.no \in Nat /\ p.item.no <= writes /\ writes \in Nat
      BY DEF ItemsInv, ItemRec
    <3>2. p.key # k
      BY <2>3, <2>6, <3>1
    <3> QED
      BY <2>3, <2>6, <3>1, <3>2 DEF ItemsInv
  <2> QED
    BY <2>1, <2>2, <2>3, <2>4, <2>5, <2>6 DEF ItemsInv, Has, Held
<1>7. ASSUME NEW k \in StoreKeys, Expires(k) PROVE ItemsInv'
  <2> DEFINE Aged(p) == IF p.key = k /\ p.item.no = item[k].no THEN [p EXCEPT !.item.expired = TRUE] ELSE p
  <2>1. /\ item' = [item EXCEPT ![k].expired = TRUE] /\ putting' = {Aged(p) : p \in putting}
        /\ UNCHANGED <<store, vector, writes, deletedAt>> /\ Has(k)
    BY <1>7 DEF Expires, Live
  <2>2. item[k] \in ItemRec
    BY <2>1 DEF ItemsInv, Has
  <2>3. item'[k] \in ItemRec /\ item'[k].no = item[k].no /\ \A j \in StoreKeys \ {k} : item'[j] = item[j]
    BY <2>1, <2>2 DEF ItemsInv, ItemRec
  <2>4. item' \in [StoreKeys -> ItemRec \cup {Nothing}]
    BY <2>1, <2>3 DEF ItemsInv
  <2>5. ASSUME NEW p \in putting
        PROVE  /\ Aged(p).key = p.key /\ Aged(p).existing = p.existing /\ Aged(p).item.no = p.item.no
               /\ Aged(p) \in [key : StoreKeys, item : ItemRec, existing : ItemRec \cup {Nothing}]
    BY DEF ItemsInv, ItemRec
  <2>6. Held(item') \subseteq Held(item)
    BY <2>1, <2>3 DEF Held, Has
  <2>7. \A j \in StoreKeys : item'[j] # Nothing => item'[j].no > deletedAt[j]
    BY <2>1, <2>3 DEF ItemsInv, Has
  <2> HIDE DEF Aged
  <2>8. store' = "memory" => IsFiniteSet(Held(item')) /\ Cardinality(Held(item')) <= MaxItems
    BY <2>1, <2>6, FewerHeld DEF ItemsInv
  <2>9. ASSUME NEW q \in putting'
        PROVE  /\ q \in [key : StoreKeys, item : ItemRec, existing : ItemRec \cup {Nothing}] /\ q.item.no <= writes
               /\ q.item.no > deletedAt[q.key] /\ q.existing # Nothing => q.existing.no > deletedAt[q.key]
    <3>1. PICK p \in putting : q = Aged(p)
      BY <2>1
    <3> QED
      BY <2>5, <3>1 DEF ItemsInv
  <2> QED
    BY <2>1, <2>4, <2>7, <2>8, <2>9 DEF ItemsInv, Has, Held
<1>8. ASSUME NEW K, UNCHANGED <<store, putting, writes, deletedAt>>,
             item' \in {item, Without(item, K)}, vector' \in {vector, Without(vector, K)}
      PROVE  ItemsInv'
  <2>1. /\ item' \in [StoreKeys -> ItemRec \cup {Nothing}] /\ vector' \in [StoreKeys -> ItemRec \cup {Nothing}]
        /\ Held(item') \subseteq Held(item)
        /\ \A j \in StoreKeys : item'[j] \in {Nothing, item[j]} /\ vector'[j] \in {Nothing, vector[j]}
    BY <1>8, WithoutKeeps DEF ItemsInv
  <2>2. \A k \in StoreKeys : item'[k] # Nothing => item'[k].no > deletedAt[k]
    BY <2>1 DEF ItemsInv, Has
  <2>3. \A k \in StoreKeys : vector'[k] # Nothing => vector'[k].no > deletedAt[k]
    BY <2>1 DEF ItemsInv
  <2> QED
    BY <1>8, <2>1, <2>2, <2>3, ItemsStay
<1>9. ASSUME NEW k \in StoreKeys, RedisDrops(k) \/ GetExpired(k) PROVE ItemsInv'
  BY <1>8, <1>9 DEF RedisDrops, GetExpired
<1>10. CASE ListExpired
  BY <1>8, <1>10 DEF ListExpired
<1>11. ASSUME NEW k \in cleanups, CleansUp(k) PROVE ItemsInv'
  BY <1>8, <1>11 DEF CleansUp
<1> QED
  BY <1>1, <1>2, <1>3, <1>4, <1>5, <1>6, <1>7, <1>9, <1>10, <1>11 DEF StoreNext

LEMMA ItemsHold == ItemsInv => DeletedStaysDeleted
BY DEF ItemsInv, DeletedStaysDeleted, Has, Held

-----------------------------------------------------------------------------
(***************************************************************************)
(* Checkpoints.  A reader of Redis goes from the steps it found to their   *)
(* entries.  What an entry that it has still to read holds was stored at   *)
(* some moment since it began, or is damaged; and it holds nothing only    *)
(* after a delete, when for a moment nothing at all was stored.            *)
(***************************************************************************)

(* A bounded, non-empty set of natural numbers has a largest member. *)
LEMMA MaxExists ==
  ASSUME NEW n \in Nat, NEW T, T \subseteq 0..n, T # {}
  PROVE  \E k \in T : \A j \in T : j <= k
<1> DEFINE Family == {k..n : k \in T}
<1>1. Family \subseteq SUBSET (0..n) /\ Family # {}
  <2>1. ASSUME NEW k \in T PROVE k..n \subseteq 0..n
    OBVIOUS
  <2> QED BY <2>1
<1>2. IsWellFoundedOn(StrictSubsetOrdering(0..n), SUBSET (0..n))
  <2>1. IsFiniteSet(0..n)
    BY FS_Interval
  <2>2. FiniteSubsetsOf(0..n) = SUBSET (0..n)
    BY <2>1, FS_FiniteSubsetsOfFinite
  <2>3. IsWellFoundedOn(StrictSubsetOrdering(0..n), FiniteSubsetsOf(0..n))
    BY FS_StrictSubsetOrderingWellFounded
  <2> QED BY <2>2, <2>3
<1>3. PICK F \in Family : \A E \in Family : ~(<<E, F>> \in StrictSubsetOrdering(0..n))
  <2> HIDE DEF Family
  <2> QED BY <1>1, <1>2, WFMin
<1>4. PICK k \in T : F = k..n
  BY <1>3
<1>5. ASSUME NEW j \in T PROVE j <= k
  <2>1. j..n \in Family
    OBVIOUS
  <2>2. SUFFICES ASSUME k < j PROVE FALSE
    OBVIOUS
  <2>3. j..n \subseteq k..n /\ k \in k..n /\ k \notin j..n
    BY <2>2
  <2>4. <<j..n, k..n>> \in StrictSubsetOrdering(0..n)
    BY <2>1, <2>3, <1>1, <1>4 DEF StrictSubsetOrdering
  <2> QED BY <2>1, <2>4, <1>3, <1>4
<1> QED BY <1>5

(* And a non-empty set of natural numbers has a least one. *)
LEMMA LeastExists ==
  ASSUME NEW S, S \subseteq Nat, S # {}
  PROVE  \E k \in S : \A j \in S : k <= j
<1>1. PICK n \in S : TRUE
  OBVIOUS
<1> DEFINE T == {i \in 0..n : n - i \in S}
<1>2. n \in Nat /\ T \subseteq 0..n /\ 0 \in T
  OBVIOUS
<1>3. PICK i \in T : \A j \in T : j <= i
  <2> HIDE DEF T
  <2> QED BY <1>2, MaxExists
<1>4. n - i \in S /\ i \in 0..n
  BY <1>3
<1>5. ASSUME NEW j \in S PROVE n - i <= j
  <2>1. CASE j > n
    BY <1>2, <1>4, <2>1
  <2>2. CASE ~(j > n)
    <3>1. n - j \in 0..n /\ n - (n - j) = j
      BY <1>2, <2>2
    <3>2. n - j \in T
      BY <3>1
    <3>3. n - j <= i
      BY <1>3, <3>2
    <3> QED BY <1>2, <1>4, <3>3
  <2> QED BY <2>1, <2>2
<1> QED BY <1>4, <1>5

Entries == [Steps -> Nat \cup {Missing, Damaged}]

WasStored(r, s, value) == \E m \in reader[r].seen : m[s] = value

(* A reader between two entries. *)
OnItsWay(r) ==
  LET t == reader[r].thread
      left == reader[r].left
      found == reader[r].found IN
  /\ kept = "redis" /\ t \in Threads /\ left \subseteq Steps /\ left # {}
  /\ found \in Entries /\ \A s \in Steps : found[s] # Damaged
  /\ \A s \in left : entry[t][s] = Damaged \/ WasStored(r, s, entry[t][s])
  /\ \A s \in Steps \ left : reader[r].op = "list" \/ found[s] # Missing => WasStored(r, s, found[s])
  /\ reader[r].op = "get" =>
       /\ found = NoEntries
       /\ \E s \in Steps : /\ left = {s}
                           /\ \E m \in reader[r].seen : HighestOf(PresentIn(m)) = {s}
                           /\ entry[t][s] = Missing => NoEntries \in reader[r].seen

HasRead(r) ==
  LET found == reader[r].found
      seen == reader[r].seen IN
  /\ reader[r].op = "get" => \E m \in seen : PresentIn(found) = HighestOf(PresentIn(m))
  /\ \A s \in Steps : reader[r].op = "list" \/ found[s] # Missing => \E m \in seen : m[s] = found[s]

ReaderRec == [at : {"idle", "reading", "done", "corrupt"}, thread : Threads \cup {<<"", "">>}, op : {"get", "list"},
              left : SUBSET Steps, found : Entries, seen : SUBSET Entries]

CheckpointInv ==
  /\ puts \in Nat /\ kept \in {"table", "redis"}
  /\ entry \in [Threads -> Entries] /\ index \in [Threads -> SUBSET Steps]
  /\ \E n \in Nat : \A t \in Threads, s \in Steps : entry[t][s] # Missing => s <= n
  /\ \A d \in deleting : d.thread \in Threads
  /\ reader \in [Readers -> ReaderRec]
  /\ \A r \in Readers : /\ reader[r].at # "idle" => reader[r].thread \in Threads
                        /\ reader[r].at = "reading" => OnItsWay(r)
                        /\ reader[r].at = "done" => HasRead(r)

LEMMA CheckpointsInitially == CheckpointInit => CheckpointInv
<1> SUFFICES ASSUME CheckpointInit PROVE CheckpointInv
  OBVIOUS
<1>1. NoEntries \in Entries /\ NoReader \in ReaderRec /\ NoReader.at = "idle"
  BY DEF NoEntries, Entries, NoReader, ReaderRec
<1>2. \A t \in Threads, s \in Steps : entry[t][s] = Missing
  BY DEF CheckpointInit, NoEntries
<1>3. \A r \in Readers : reader[r] = NoReader
  BY DEF CheckpointInit
<1>4. puts \in Nat /\ entry \in [Threads -> Entries] /\ index \in [Threads -> SUBSET Steps] /\ deleting = {}
  BY <1>1 DEF CheckpointInit
<1>5. reader \in [Readers -> ReaderRec]
  BY <1>1 DEF CheckpointInit
<1>6. kept \in {"table", "redis"} /\ \A t \in Threads, s \in Steps : entry[t][s] # Missing => s <= 0
  BY <1>2, CheckpointAssumption DEF CheckpointInit
<1>7. \E n \in Nat : \A t \in Threads, s \in Steps : entry[t][s] # Missing => s <= n
  BY <1>6
<1> QED
  BY <1>1, <1>3, <1>4, <1>5, <1>6, <1>7 DEF CheckpointInv

(* The highest of the steps that hold something. *)
LEMMA HighestIsOne ==
  ASSUME CheckpointInv, NEW t \in Threads, StepsOf(t) # {}
  PROVE  \E s \in StepsOf(t) : HighestOf(StepsOf(t)) = {s}
<1>1. PICK n \in Nat : \A s \in Steps : entry[t][s] # Missing => s <= n
  BY DEF CheckpointInv
<1>2. StepsOf(t) \subseteq 0..n
  <2> SUFFICES ASSUME NEW s \in StepsOf(t) PROVE s \in 0..n
    OBVIOUS
  <2>1. s \in Steps /\ s \in Nat /\ entry[t][s] # Missing
    BY CheckpointAssumption DEF StepsOf, Stored, StoredIn
  <2> QED
    BY <1>1, <2>1
<1>3. PICK s \in StepsOf(t) : \A j \in StepsOf(t) : j <= s
  BY <1>2, MaxExists
<1>4. \A j \in StepsOf(t) : s >= j
  BY <1>2, <1>3
<1>5. Max(StepsOf(t)) \in StepsOf(t)
  BY <1>4 DEF Max
<1> QED
  BY <1>5 DEF HighestOf

(* A change to what is stored: each reader under way sees it. *)
LEMMA ReadersKeep ==
  ASSUME CheckpointInv, kept' = kept, reader' = Witnessed,
         entry' \in [Threads -> Entries], index' \in [Threads -> SUBSET Steps],
         \A t \in Threads, s \in Steps :
           /\ \/ entry'[t][s] = Damaged
              \/ entry'[t][s] = entry[t][s]
              \/ StoredIn(entry'[t], index'[t])[s] = entry'[t][s]
           /\ kept = "redis" /\ entry'[t][s] = Missing =>
                entry[t][s] = Missing \/ StoredIn(entry'[t], index'[t]) = NoEntries
  PROVE  /\ reader' \in [Readers -> ReaderRec]
         /\ \A r \in Readers : /\ reader'[r].at # "idle" => reader'[r].thread \in Threads
                               /\ reader'[r].at = "reading" => OnItsWay(r)'
                               /\ reader'[r].at = "done" => HasRead(r)'
<1>1. \A t \in Threads : StoredIn(entry'[t], index'[t]) \in Entries
  BY DEF StoredIn, Entries
<1>2. ASSUME NEW r \in Readers
      PROVE  /\ reader'[r] \in ReaderRec
             /\ reader'[r].at # "idle" => reader'[r].thread \in Threads
             /\ reader'[r].at = "reading" => OnItsWay(r)'
             /\ reader'[r].at = "done" => HasRead(r)'
  <2>1. CASE reader[r].at = "idle"
    <3>1. reader'[r] = reader[r]
      BY <2>1 DEF Witnessed
    <3> QED
      BY <2>1, <3>1 DEF CheckpointInv
  <2>2. CASE reader[r].at # "idle"
    <3> DEFINE t == reader[r].thread
               latest == StoredIn(entry'[t], index'[t])
    <3>1. reader[r] \in ReaderRec /\ t \in Threads
      BY <2>2 DEF CheckpointInv
    <3>2. reader'[r] = [reader[r] EXCEPT !.seen = reader[r].seen \cup {latest}]
      BY <2>2 DEF Witnessed
    <3>3. latest \in Entries
      BY <1>1, <3>1
    <3> HIDE DEF latest
    <3> HIDE DEF t
    <3>4. /\ reader'[r].seen = reader[r].seen \cup {latest} /\ reader'[r].at = reader[r].at
          /\ reader'[r].thread = t /\ reader'[r].op = reader[r].op
          /\ reader'[r].left = reader[r].left /\ reader'[r].found = reader[r].found
          /\ reader'[r] \in ReaderRec
      <4>1. reader[r].seen \cup {latest} \in SUBSET Entries
        BY <3>1, <3>3 DEF ReaderRec
      <4> DEFINE more == reader[r].seen \cup {latest}
      <4> HIDE DEF more
      <4>2. reader'[r] = [reader[r] EXCEPT !.seen = more] /\ more \in SUBSET Entries
        BY <3>2, <4>1 DEF more
      <4>3. /\ reader'[r].seen = more /\ reader'[r].at = reader[r].at
            /\ reader'[r].thread = reader[r].thread /\ reader'[r].op = reader[r].op
            /\ reader'[r].left = reader[r].left /\ reader'[r].found = reader[r].found
            /\ reader'[r] \in ReaderRec
        BY <3>1, <4>2 DEF ReaderRec
      <4> QED
        BY <4>3 DEF more, t
    <3>5. CASE reader[r].at = "reading"
      <4>1. OnItsWay(r) /\ kept = "redis"
        BY <3>5 DEF CheckpointInv, OnItsWay
      <4>2. ASSUME NEW s \in reader[r].left
            PROVE  entry'[t][s] = Damaged \/ \E m \in reader'[r].seen : m[s] = entry'[t][s]
        <5>1. s \in Steps
          BY <4>1 DEF OnItsWay
        <5>2. entry'[t][s] = Damaged \/ entry'[t][s] = entry[t][s] \/ latest[s] = entry'[t][s]
          BY <3>1, <5>1 DEF latest
        <5>3. entry[t][s] = Damaged \/ \E m \in reader[r].seen : m[s] = entry[t][s]
          BY <4>1 DEF OnItsWay, WasStored, t
        <5> QED
          BY <3>4, <5>2, <5>3
      <4>3. ASSUME NEW s \in Steps \ reader[r].left, reader[r].op = "list" \/ reader[r].found[s] # Missing
            PROVE  \E m \in reader'[r].seen : m[s] = reader[r].found[s]
        BY <3>4, <4>1, <4>3 DEF OnItsWay, WasStored
      <4>4. ASSUME reader[r].op = "get"
            PROVE  /\ reader[r].found = NoEntries
                   /\ \E s \in Steps : /\ reader[r].left = {s}
                                       /\ \E m \in reader'[r].seen : HighestOf(PresentIn(m)) = {s}
                                       /\ entry'[t][s] = Missing => NoEntries \in reader'[r].seen
        <5>1. PICK s \in Steps : /\ reader[r].left = {s}
                                 /\ \E m \in reader[r].seen : HighestOf(PresentIn(m)) = {s}
                                 /\ entry[t][s] = Missing => NoEntries \in reader[r].seen
          BY <4>1, <4>4 DEF OnItsWay, t
        <5>2. entry'[t][s] = Missing => entry[t][s] = Missing \/ latest = NoEntries
          BY <3>1, <4>1 DEF latest
        <5>3. entry'[t][s] = Missing => NoEntries \in reader'[r].seen
          BY <3>4, <5>1, <5>2
        <5>4. \E m \in reader'[r].seen : HighestOf(PresentIn(m)) = {s}
          BY <3>4, <5>1
        <5>5. reader[r].found = NoEntries
          BY <4>1, <4>4 DEF OnItsWay
        <5> QED
          BY <5>1, <5>3, <5>4, <5>5
      <4>5. /\ kept' = "redis" /\ t \in Threads /\ reader[r].left \subseteq Steps /\ reader[r].left # {}
            /\ reader[r].found \in Entries /\ \A s \in Steps : reader[r].found[s] # Damaged
        BY <3>1, <4>1 DEF OnItsWay
      <4>6. OnItsWay(r)'
        BY <3>4, <4>2, <4>3, <4>4, <4>5 DEF OnItsWay, WasStored, t
      <4> QED
        BY <3>1, <3>4, <3>5, <4>6
    <3>6. CASE reader[r].at = "done"
      <4>1. HasRead(r)
        BY <3>6 DEF CheckpointInv
      <4>2. HasRead(r)'
        BY <3>4, <4>1 DEF HasRead, HighestOf, PresentIn
      <4> QED
        BY <3>1, <3>4, <3>6, <4>2
    <3> QED
      BY <3>1, <3>4, <3>5, <3>6
  <2> QED
    BY <2>1, <2>2
<1>3. reader' \in [Readers -> ReaderRec]
  <2>1. DOMAIN reader' = Readers /\ reader' = [r \in Readers |-> reader'[r]]
    BY DEF Witnessed
  <2> QED
    BY <1>2, <2>1
<1> QED
  BY <1>2, <1>3

(* A reader starts over, and the others go on as they were. *)
LEMMA OneReads ==
  ASSUME CheckpointInv, UNCHANGED <<kept, entry, index, deleting, puts>>, NEW r \in Readers,
         NEW to \in ReaderRec, reader' = [reader EXCEPT ![r] = to],
         to.at # "idle" => to.thread \in Threads,
         to.at = "reading" => OnItsWay(r)', to.at = "done" => HasRead(r)'
  PROVE  CheckpointInv'
<1>1. reader' \in [Readers -> ReaderRec] /\ reader'[r] = to /\ \A q \in Readers \ {r} : reader'[q] = reader[q]
  BY DEF CheckpointInv
<1>2. ASSUME NEW q \in Readers
      PROVE  /\ reader'[q].at # "idle" => reader'[q].thread \in Threads
             /\ reader'[q].at = "reading" => OnItsWay(q)'
             /\ reader'[q].at = "done" => HasRead(q)'
  <2>1. CASE q = r
    BY <1>1, <2>1
  <2>2. CASE q # r
    <3>1. reader'[q] = reader[q]
      BY <1>1, <2>2
    <3>2. OnItsWay(q) => OnItsWay(q)'
      BY <3>1 DEF OnItsWay, WasStored
    <3>3. HasRead(q) => HasRead(q)'
      BY <3>1 DEF HasRead
    <3> QED
      BY <3>1, <3>2, <3>3 DEF CheckpointInv
  <2> QED
    BY <2>1, <2>2
<1> QED
  BY <1>1, <1>2 DEF CheckpointInv

LEMMA BeginKeeps ==
  ASSUME CheckpointInv, NEW r \in Readers, NEW t \in Threads, NEW op \in {"get", "list"}, BeginRead(r, t, op)
  PROVE  CheckpointInv'
<1> DEFINE wanted == Wanted(t, op)
           found == [s \in Steps |-> IF kept = "table" /\ s \in wanted THEN entry[t][s] ELSE Missing]
           to == [at |-> IF kept = "table" \/ wanted = {} THEN Finished(found) ELSE "reading",
                  thread |-> t, op |-> op, left |-> IF kept = "table" THEN {} ELSE wanted,
                  found |-> found, seen |-> {Stored(t)}]
<1>1. UNCHANGED <<kept, entry, index, deleting, puts>> /\ reader' = [reader EXCEPT ![r] = to]
  BY DEF BeginRead
<1>2. entry[t] \in Entries /\ Stored(t) \in Entries
  BY DEF CheckpointInv, Stored, StoredIn, Entries
<1>3. wanted \subseteq StepsOf(t) /\ StepsOf(t) \subseteq Steps /\ StepsOf(t) = PresentIn(Stored(t))
  <2>1. HighestOf({}) = {}
    BY DEF HighestOf
  <2>2. HighestOf(StepsOf(t)) \subseteq StepsOf(t)
    BY <2>1, HighestIsOne
  <2> QED
    BY <2>2 DEF Wanted, StepsOf, PresentIn
<1>4. /\ op = "get" => wanted = HighestOf(PresentIn(Stored(t)))
      /\ op = "list" => wanted = PresentIn(Stored(t))
  BY <1>3 DEF Wanted
<1>5. \A s \in wanted : Stored(t)[s] = entry[t][s] /\ entry[t][s] # Missing
  BY <1>3 DEF StepsOf, Stored, StoredIn
<1>6. /\ found \in Entries
      /\ \A s \in Steps : found[s] = IF kept = "table" /\ s \in wanted THEN entry[t][s] ELSE Missing
  BY <1>2 DEF Entries
<1>7. Finished(found) \in {"done", "corrupt"}
  BY DEF Finished
<1> HIDE DEF wanted, found
<1>8. to \in ReaderRec /\ to.thread = t /\ to.op = op /\ to.seen = {Stored(t)} /\ to.found = found
      /\ to.left = (IF kept = "table" THEN {} ELSE wanted)
      /\ to.at = (IF kept = "table" \/ wanted = {} THEN Finished(found) ELSE "reading")
  BY <1>2, <1>3, <1>6, <1>7 DEF ReaderRec
<1> HIDE DEF to
<1>9. reader'[r] = to
  BY <1>1 DEF CheckpointInv
<1>10. op = "list" \/ op = "get"
  OBVIOUS
<1>11. \A s \in Steps : s \notin wanted /\ op = "list" => Stored(t)[s] = Missing
  BY <1>4 DEF PresentIn
<1>12. ASSUME to.at = "reading" PROVE OnItsWay(r)'
  <2>2. kept # "table" /\ wanted # {} /\ to.left = wanted
    BY <1>7, <1>8, <1>12
  <2>3. kept = "redis"
    BY <2>2 DEF CheckpointInv
  <2>4. \A s \in Steps : found[s] = Missing /\ Missing # Damaged
    BY <1>6, <2>2, CheckpointAssumption
  <2>5. found = NoEntries
    BY <1>6, <2>4 DEF NoEntries, Entries
  <2>6. \A s \in wanted : \E m \in to.seen : m[s] = entry[t][s]
    BY <1>5, <1>8
  <2>7. \A s \in Steps \ wanted : op = "list" \/ found[s] # Missing => \E m \in to.seen : m[s] = found[s]
    BY <1>8, <1>11, <2>4
  <2>8. ASSUME op = "get"
        PROVE  \E s \in Steps : /\ wanted = {s}
                                /\ \E m \in to.seen : HighestOf(PresentIn(m)) = {s}
                                /\ entry[t][s] # Missing
    <3>1. wanted = HighestOf(StepsOf(t)) /\ StepsOf(t) # {}
      BY <1>3, <1>4, <2>2, <2>8
    <3>2. PICK s \in StepsOf(t) : wanted = {s}
      BY <3>1, HighestIsOne
    <3> QED
      BY <1>3, <1>4, <1>5, <1>8, <2>8, <3>2
  <2> QED
    <3>1. /\ UNCHANGED <<kept, entry>> /\ reader'[r] = to /\ wanted \subseteq Steps
          /\ to.thread = t /\ to.op = op /\ to.found = found /\ to.left = wanted
      BY <1>1, <1>3, <1>8, <1>9, <2>2
    <3>2. found \in Entries
      BY <1>6
    <3> QED
      BY <2>2, <2>3, <2>4, <2>5, <2>6, <2>7, <2>8, <3>1, <3>2 DEF OnItsWay, WasStored
<1>13. ASSUME to.at = "done" PROVE HasRead(r)'
  <2>1. ASSUME NEW s \in Steps, op = "list" \/ found[s] # Missing PROVE Stored(t)[s] = found[s]
    <3>1. CASE kept = "table"
      BY <1>5, <1>6, <1>11, <2>1, <3>1
    <3>2. CASE kept # "table"
      <4>1. found[s] = Missing /\ wanted = {}
        BY <1>6, <1>8, <1>13, <3>2
      <4> QED
        BY <1>11, <2>1, <4>1
    <3> QED
      BY <3>1, <3>2
  <2>2. ASSUME op = "get" PROVE PresentIn(found) = HighestOf(PresentIn(Stored(t)))
    <3>1. PresentIn(found) = wanted
      <4>1. CASE kept = "table"
        BY <1>3, <1>5, <1>6, <4>1 DEF PresentIn
      <4>2. CASE kept # "table"
        <5>1. wanted = {}
          BY <1>8, <1>13, <4>2
        <5> QED
          BY <1>6, <4>2, <5>1 DEF PresentIn
      <4> QED
        BY <4>1, <4>2
    <3> QED
      BY <1>4, <2>2, <3>1
  <2>3. Stored(t) \in to.seen
    BY <1>8
  <2>4. /\ to.op = "get" => \E m \in to.seen : PresentIn(to.found) = HighestOf(PresentIn(m))
        /\ \A s \in Steps : to.op = "list" \/ to.found[s] # Missing => \E m \in to.seen : m[s] = to.found[s]
    BY <1>8, <2>1, <2>2, <2>3
  <2> QED
    BY <1>9, <2>4 DEF HasRead
<1> QED
  BY <1>1, <1>8, <1>12, <1>13, OneReads

LEMMA ReadKeeps ==
  ASSUME CheckpointInv, NEW r \in Readers, ReadEntry(r)
  PROVE  CheckpointInv'
<1> DEFINE was == reader[r]
           t == was.thread
           s == Min(was.left)
           left == was.left \ {s}
           found == [was.found EXCEPT ![s] = entry[t][s]]
           at == IF left = {} \/ found[s] = Damaged THEN Finished(found) ELSE "reading"
           to == [was EXCEPT !.left = left, !.found = found, !.at = at]
<1>1. was \in ReaderRec /\ OnItsWay(r) /\ was.at = "reading"
  BY DEF ReadEntry, CheckpointInv
<1>2. UNCHANGED <<kept, entry, index, deleting, puts>> /\ reader' = [reader EXCEPT ![r] = to]
  BY <1>1 DEF ReadEntry, CheckpointInv, ReaderRec
<1>3. t \in Threads /\ was.left \subseteq Steps /\ was.left # {} /\ was.found \in Entries /\ entry[t] \in Entries
      /\ kept = "redis"
  BY <1>1 DEF OnItsWay, CheckpointInv
<1>4. s \in was.left /\ s \in Steps
  <2>1. was.left \subseteq Nat
    BY <1>3, CheckpointAssumption
  <2>2. \E k \in was.left : \A j \in was.left : k <= j
    BY <1>3, <2>1, LeastExists
  <2> QED
    BY <1>3, <2>2 DEF Min
<1>5. /\ found \in Entries /\ found[s] = entry[t][s] /\ \A j \in Steps \ {s} : found[j] = was.found[j]
      /\ left \subseteq Steps
  BY <1>3, <1>4 DEF Entries
<1>6. /\ left = was.left \ {s}
      /\ at = IF left = {} \/ found[s] = Damaged THEN Finished(found) ELSE "reading"
  OBVIOUS
<1>7. Finished(found) \in {"done", "corrupt"} /\ (Finished(found) = "done" => \A j \in Steps : found[j] # Damaged)
  BY DEF Finished
<1> HIDE DEF s, found, left, at
<1>8. /\ to \in ReaderRec /\ to.thread = t /\ to.op = was.op /\ to.seen = was.seen /\ to.found = found
      /\ to.left = left /\ to.at = at
  BY <1>1, <1>5, <1>6, <1>7 DEF ReaderRec
<1> HIDE DEF to
<1>9. reader'[r] = to
  BY <1>2 DEF CheckpointInv
<1>10. ASSUME found[s] # Damaged
       PROVE  \A j \in Steps \ left : was.op = "list" \/ found[j] # Missing => \E m \in was.seen : m[j] = found[j]
  <2>1. entry[t][s] = Damaged \/ \E m \in was.seen : m[s] = entry[t][s]
    BY <1>1, <1>4 DEF OnItsWay, WasStored
  <2>2. \A j \in Steps \ was.left : was.op = "list" \/ was.found[j] # Missing => \E m \in was.seen : m[j] = was.found[j]
    BY <1>1 DEF OnItsWay, WasStored
  <2> QED
    BY <1>5, <1>6, <1>10, <2>1, <2>2
<1>11. ASSUME at = "reading" PROVE OnItsWay(r)'
  <2>1. left # {} /\ found[s] # Damaged
    BY <1>6, <1>7, <1>11
  <2>2. \A j \in Steps : found[j] # Damaged
    BY <1>1, <1>5, <2>1 DEF OnItsWay
  <2>3. was.op # "get"
    BY <1>1, <1>4, <1>6, <2>1 DEF OnItsWay
  <2>4. \A j \in left : entry[t][j] = Damaged \/ \E m \in was.seen : m[j] = entry[t][j]
    BY <1>1, <1>6 DEF OnItsWay, WasStored
  <2>5. \A j \in Steps \ left : was.op = "list" \/ found[j] # Missing => \E m \in was.seen : m[j] = found[j]
    BY <1>10, <2>1
  <2> HIDE DEF was, t
  <2> QED
    BY <1>2, <1>3, <1>5, <1>8, <1>9, <2>1, <2>2, <2>3, <2>4, <2>5 DEF OnItsWay, WasStored
<1>12. ASSUME at = "done" PROVE HasRead(r)'
  <2>1. Finished(found) = "done" /\ \A j \in Steps : found[j] # Damaged
    BY <1>6, <1>7, <1>12
  <2>2. left = {}
    BY <1>4, <1>6, <1>12, <2>1
  <2>3. \A j \in Steps : was.op = "list" \/ found[j] # Missing => \E m \in was.seen : m[j] = found[j]
    BY <1>4, <1>10, <2>1, <2>2
  <2>4. ASSUME was.op = "get" PROVE \E m \in was.seen : PresentIn(found) = HighestOf(PresentIn(m))
    <3>1. /\ \A j \in Steps : was.found[j] = Missing
          /\ \E k \in Steps : /\ was.left = {k}
                              /\ \E m \in was.seen : HighestOf(PresentIn(m)) = {k}
                              /\ entry[t][k] = Missing => NoEntries \in was.seen
      BY <1>1, <2>4 DEF OnItsWay, NoEntries
    <3>2. /\ \E m \in was.seen : HighestOf(PresentIn(m)) = {s}
          /\ entry[t][s] = Missing => NoEntries \in was.seen
      BY <1>4, <3>1
    <3>3. CASE entry[t][s] = Missing
      <4>1. PresentIn(found) = {} /\ PresentIn(NoEntries) = {}
        BY <1>5, <3>1, <3>3 DEF PresentIn, NoEntries
      <4>2. HighestOf({}) = {}
        BY DEF HighestOf
      <4>3. NoEntries \in was.seen /\ PresentIn(found) = HighestOf(PresentIn(NoEntries))
        BY <3>2, <3>3, <4>1, <4>2
      <4> QED
        BY <4>3
    <3>4. CASE entry[t][s] # Missing
      <4>1. PresentIn(found) = {s}
        BY <1>4, <1>5, <3>1, <3>4 DEF PresentIn
      <4> QED
        BY <3>2, <4>1
    <3> QED
      BY <3>3, <3>4
  <2>5. /\ to.op = "get" => \E m \in to.seen : PresentIn(to.found) = HighestOf(PresentIn(m))
        /\ \A j \in Steps : to.op = "list" \/ to.found[j] # Missing => \E m \in to.seen : m[j] = to.found[j]
    BY <1>8, <2>3, <2>4
  <2> QED
    BY <1>9, <2>5 DEF HasRead
<1> QED
  BY <1>2, <1>3, <1>8, <1>11, <1>12, OneReads

LEMMA CheckpointsStep == CheckpointInv /\ [CheckpointNext]_checkpointVars => CheckpointInv'
<1> SUFFICES ASSUME CheckpointInv, [CheckpointNext]_checkpointVars PROVE CheckpointInv'
  OBVIOUS
<1>1. CASE UNCHANGED checkpointVars
  <2>1. UNCHANGED <<kept, entry, index, reader, deleting, puts>>
    BY <1>1 DEF checkpointVars
  <2>2. \A r \in Readers : (OnItsWay(r) => OnItsWay(r)') /\ (HasRead(r) => HasRead(r)')
    BY <2>1 DEF OnItsWay, HasRead, WasStored
  <2> QED
    BY <2>1, <2>2 DEF CheckpointInv
<1>2. ASSUME NEW t \in Threads, NEW s \in Steps, Put(t, s) PROVE CheckpointInv'
  <2>1. /\ puts' = puts + 1 /\ entry' = [entry EXCEPT ![t][s] = puts] /\ UNCHANGED <<kept, deleting>>
        /\ index' = IF kept = "redis" THEN [index EXCEPT ![t] = @ \cup {s}] ELSE index
        /\ reader' = Witnessed
    BY <1>2 DEF Put
  <2>2. entry' \in [Threads -> Entries] /\ index' \in [Threads -> SUBSET Steps] /\ puts \in Nat /\ puts' \in Nat
    BY <2>1 DEF CheckpointInv, Entries
  <2>3. /\ entry'[t][s] = puts
        /\ \A u \in Threads, i \in Steps : <<u, i>> # <<t, s>> => entry'[u][i] = entry[u][i]
    BY <2>1 DEF CheckpointInv, Entries
  <2>4. StoredIn(entry'[t], index'[t])[s] = entry'[t][s]
    <3>1. kept = "redis" => s \in index'[t]
      BY <2>1 DEF CheckpointInv
    <3>2. kept \in {"table", "redis"}
      BY DEF CheckpointInv
    <3> QED
      BY <3>1, <3>2 DEF StoredIn
  <2>5. puts # Missing
    BY <2>2, CheckpointAssumption
  <2>6. \A u \in Threads, i \in Steps :
          /\ \/ entry'[u][i] = Damaged
             \/ entry'[u][i] = entry[u][i]
             \/ StoredIn(entry'[u], index'[u])[i] = entry'[u][i]
          /\ kept = "redis" /\ entry'[u][i] = Missing => entry[u][i] = Missing
    BY <2>3, <2>4, <2>5
  <2>7. \E n \in Nat : \A u \in Threads, i \in Steps : entry'[u][i] # Missing => i <= n
    <3>1. PICK n \in Nat : \A u \in Threads, i \in Steps : entry[u][i] # Missing => i <= n
      BY DEF CheckpointInv
    <3>2. Steps \subseteq Nat
      BY CheckpointAssumption
    <3>3. n + s \in Nat /\ s <= n + s /\ \A i \in Steps : i <= n => i <= n + s
      BY <3>2
    <3>4. \A u \in Threads, i \in Steps : entry'[u][i] # Missing => i <= n + s
      BY <2>3, <3>1, <3>3
    <3> QED
      BY <3>3, <3>4
  <2>8. /\ reader' \in [Readers -> ReaderRec]
        /\ \A r \in Readers : /\ reader'[r].at # "idle" => reader'[r].thread \in Threads
                              /\ reader'[r].at = "reading" => OnItsWay(r)'
                              /\ reader'[r].at = "done" => HasRead(r)'
    BY <2>1, <2>2, <2>6, ReadersKeep
  <2> QED
    BY <2>1, <2>2, <2>7, <2>8 DEF CheckpointInv
<1>3. ASSUME NEW t \in Threads, DeleteRows(t) PROVE CheckpointInv'
  <2>1. /\ kept = "table" /\ entry' = [entry EXCEPT ![t] = NoEntries] /\ UNCHANGED <<kept, index, deleting, puts>>
        /\ reader' = Witnessed
    BY <1>3 DEF DeleteRows
  <2>2. entry' \in [Threads -> Entries] /\ index' \in [Threads -> SUBSET Steps]
    BY <2>1 DEF CheckpointInv, Entries, NoEntries
  <2>3. \A u \in Threads, i \in Steps : entry'[u][i] \in {entry[u][i], Missing}
    BY <2>1 DEF CheckpointInv, NoEntries
  <2>4. \A u \in Threads, i \in Steps : StoredIn(entry'[u], index'[u])[i] = entry'[u][i]
    BY <2>1 DEF StoredIn
  <2>5. /\ reader' \in [Readers -> ReaderRec]
        /\ \A r \in Readers : /\ reader'[r].at # "idle" => reader'[r].thread \in Threads
                              /\ reader'[r].at = "reading" => OnItsWay(r)'
                              /\ reader'[r].at = "done" => HasRead(r)'
    BY <2>1, <2>2, <2>4, ReadersKeep
  <2> QED
    BY <2>1, <2>2, <2>3, <2>5 DEF CheckpointInv
<1>4. ASSUME NEW t \in Threads, DeleteReadsSteps(t) PROVE CheckpointInv'
  <2>1. /\ UNCHANGED <<kept, entry, index, reader, puts>>
        /\ deleting' = deleting \cup {[thread |-> t, steps |-> index[t]]}
    BY <1>4 DEF DeleteReadsSteps
  <2>2. \A r \in Readers : (OnItsWay(r) => OnItsWay(r)') /\ (HasRead(r) => HasRead(r)')
    BY <2>1 DEF OnItsWay, HasRead, WasStored
  <2> QED
    BY <2>1, <2>2 DEF CheckpointInv
<1>5. ASSUME NEW d \in deleting, DeleteRemoves(d) PROVE CheckpointInv'
  <2> DEFINE t == d.thread
             rest == [s \in Steps |-> IF s \in d.steps THEN Missing ELSE entry[t][s]]
  <2>1. /\ entry' = [entry EXCEPT ![t] = rest] /\ index' = [index EXCEPT ![t] = {}] /\ deleting' \subseteq deleting
        /\ UNCHANGED <<kept, puts>> /\ reader' = Witnessed /\ t \in Threads
    BY <1>5 DEF DeleteRemoves, CheckpointInv
  <2>2. rest \in Entries /\ \A s \in Steps : rest[s] \in {entry[t][s], Missing}
    BY <2>1 DEF CheckpointInv, Entries
  <2> HIDE DEF rest, t
  <2>3. /\ entry' \in [Threads -> Entries] /\ index' \in [Threads -> SUBSET Steps]
        /\ entry'[t] = rest /\ index'[t] = {} /\ \A u \in Threads \ {t} : entry'[u] = entry[u]
    BY <2>1, <2>2 DEF CheckpointInv
  <2>4. kept # "table" => StoredIn(entry'[t], index'[t]) = NoEntries
    BY <2>3 DEF StoredIn, NoEntries
  <2>5. kept = "table" => StoredIn(entry'[t], index'[t]) = rest
    BY <2>3 DEF StoredIn
  <2>6. \A u \in Threads, i \in Steps :
          /\ \/ entry'[u][i] = Damaged
             \/ entry'[u][i] = entry[u][i]
             \/ StoredIn(entry'[u], index'[u])[i] = entry'[u][i]
          /\ kept = "redis" /\ entry'[u][i] = Missing =>
               entry[u][i] = Missing \/ StoredIn(entry'[u], index'[u]) = NoEntries
    BY <2>2, <2>3, <2>4, <2>5 DEF NoEntries
  <2>7. /\ reader' \in [Readers -> ReaderRec]
        /\ \A r \in Readers : /\ reader'[r].at # "idle" => reader'[r].thread \in Threads
                              /\ reader'[r].at = "reading" => OnItsWay(r)'
                              /\ reader'[r].at = "done" => HasRead(r)'
    BY <2>1, <2>3, <2>6, ReadersKeep
  <2>8. \A u \in Threads, i \in Steps : entry'[u][i] \in {entry[u][i], Missing}
    BY <2>2, <2>3
  <2>9. \E n \in Nat : \A u \in Threads, i \in Steps : entry'[u][i] # Missing => i <= n
    BY <2>8 DEF CheckpointInv
  <2>10. puts' \in Nat /\ kept' \in {"table", "redis"} /\ \A e \in deleting' : e.thread \in Threads
    BY <2>1 DEF CheckpointInv
  <2>11. entry' \in [Threads -> Entries] /\ index' \in [Threads -> SUBSET Steps]
    BY <2>3
  <2> QED
    BY <2>7, <2>9, <2>10, <2>11 DEF CheckpointInv
<1>6. ASSUME NEW t \in Threads, NEW s \in Steps, Damage(t, s) PROVE CheckpointInv'
  <2>1. /\ entry[t][s] \in Nat /\ entry' = [entry EXCEPT ![t][s] = Damaged]
        /\ UNCHANGED <<kept, index, deleting, puts>> /\ reader' = Witnessed
    BY <1>6 DEF Damage
  <2>2. entry' \in [Threads -> Entries] /\ index' \in [Threads -> SUBSET Steps]
    BY <2>1 DEF CheckpointInv, Entries
  <2>3. /\ entry'[t][s] = Damaged /\ entry[t][s] # Missing /\ Damaged # Missing
        /\ \A u \in Threads, i \in Steps : <<u, i>> # <<t, s>> => entry'[u][i] = entry[u][i]
    BY <2>1, CheckpointAssumption DEF CheckpointInv, Entries
  <2>4. \A u \in Threads, i \in Steps :
          /\ entry'[u][i] = Damaged \/ entry'[u][i] = entry[u][i]
          /\ entry'[u][i] = Missing <=> entry[u][i] = Missing
    BY <2>3
  <2>5. /\ reader' \in [Readers -> ReaderRec]
        /\ \A r \in Readers : /\ reader'[r].at # "idle" => reader'[r].thread \in Threads
                              /\ reader'[r].at = "reading" => OnItsWay(r)'
                              /\ reader'[r].at = "done" => HasRead(r)'
    BY <2>1, <2>2, <2>4, ReadersKeep
  <2> QED
    BY <2>1, <2>2, <2>4, <2>5 DEF CheckpointInv
<1>7. ASSUME NEW r \in Readers, ReadReturns(r) PROVE CheckpointInv'
  <2>1. UNCHANGED <<kept, entry, index, deleting, puts>> /\ reader' = [reader EXCEPT ![r] = NoReader]
    BY <1>7 DEF ReadReturns
  <2>2. NoReader \in ReaderRec /\ NoReader.at = "idle"
    BY DEF NoReader, ReaderRec, NoEntries, Entries
  <2> QED
    BY <2>1, <2>2, OneReads
<1> QED
  BY <1>1, <1>2, <1>3, <1>4, <1>5, <1>6, <1>7, BeginKeeps, ReadKeeps DEF CheckpointNext

LEMMA CheckpointsHold == CheckpointInv => ReadsAreCurrent
BY DEF CheckpointInv, HasRead, ReadsAreCurrent

-----------------------------------------------------------------------------
(***************************************************************************)
(* All of them beside one another.                                         *)
(***************************************************************************)
StoresInv == SessionInv /\ CheckpointInv /\ ItemsInv /\ ToolsInv

LEMMA StoresStart == ServicesInit => StoresInv
BY SessionInitially, CheckpointsInitially, ItemsInitially, ToolsInitially DEF ServicesInit, StoresInv

LEMMA StoresStep == StoresInv /\ [ServicesNext]_servicesVars => StoresInv'
<1> SUFFICES ASSUME StoresInv, [ServicesNext]_servicesVars PROVE StoresInv'
  OBVIOUS
<1>1. [SessionNext]_sessionVars
  BY DEF ServicesNext, servicesVars, storesVars
<1>2. [CheckpointNext]_checkpointVars
  BY DEF ServicesNext, servicesVars, storesVars
<1>3. [StoreNext]_storeVars
  BY DEF ServicesNext, servicesVars, storesVars
<1>4. [LiveNext]_liveVars
  BY DEF ServicesNext, servicesVars, outsideVars
<1> QED
  BY <1>1, <1>2, <1>3, <1>4, SessionStep, CheckpointsStep, ItemsStep, ToolsStep DEF StoresInv

(* What a read of a checkpoint returns was stored at some moment of the     *)
(* call, an item that was deleted does not come back through a put, an      *)
(* embedding, a roll-back or a clean-up that was under way, the store keeps *)
(* to its limit, and a name of the tool registry has the handler of the     *)
(* version that was loaded last: for any number of keys, steps, readers,    *)
(* files and calls (redis.ts:115-167, store/index.ts:110-190, watch.ts).    *)
THEOREM StoresStaySound == ServicesSpec => []StoresSound
<1>1. StoresInv => StoresSound
  BY CheckpointsHold, ItemsHold DEF StoresInv, StoresSound, SessionInv, ToolsInv
<1> QED
  BY <1>1, StoresStart, StoresStep, PTL DEF ServicesSpec

-----------------------------------------------------------------------------
(***************************************************************************)
(* Topics.  The matcher goes through the segments of a pattern one by one; *)
(* what it has found after p of them is whether they cover the first t of  *)
(* the topic.                                                              *)
(***************************************************************************)
Piece(pattern, topic, cut, i) ==
  IF pattern[i] = "**" THEN cut[i] >= cut[i - 1]
  ELSE cut[i] = cut[i - 1] + 1 /\ pattern[i] \in {"*", topic[cut[i]]}
CoveredTo(pattern, topic, p, t) ==
  \E cut \in [0..p -> 0..Len(topic)] :
    cut[0] = 0 /\ cut[p] = t /\ \A i \in 1..p : Piece(pattern, topic, cut, i)

LEMMA CoverNothing ==
  ASSUME NEW pattern, NEW topic \in Seq(STRING), NEW t \in 0..Len(topic)
  PROVE  CoveredTo(pattern, topic, 0, t) <=> t = 0
<1>1. ASSUME t = 0 PROVE CoveredTo(pattern, topic, 0, t)
  <2> DEFINE cut == [i \in 0..0 |-> 0]
  <2>1. cut \in [0..0 -> 0..Len(topic)] /\ cut[0] = 0 /\ 1..0 = {}
    OBVIOUS
  <2> QED BY <1>1, <2>1 DEF CoveredTo
<1> QED BY <1>1 DEF CoveredTo

LEMMA CoverFurther ==
  ASSUME NEW pattern \in Seq(STRING), NEW topic \in Seq(STRING),
         NEW p \in 1..Len(pattern), NEW t \in 0..Len(topic)
  PROVE  CoveredTo(pattern, topic, p, t) <=>
           IF pattern[p] = "**" THEN \E before \in 0..t : CoveredTo(pattern, topic, p - 1, before)
           ELSE t > 0 /\ pattern[p] \in {"*", topic[t]} /\ CoveredTo(pattern, topic, p - 1, t - 1)
<1>1. /\ p \in Nat /\ p >= 1 /\ t \in Nat /\ p - 1 \in Nat /\ Len(topic) \in Nat
      /\ 0..p = (0..(p - 1)) \cup {p} /\ p \notin 0..(p - 1) /\ 1..p = (1..(p - 1)) \cup {p} /\ p - 1 \in 0..(p - 1)
      /\ 0 \in 0..(p - 1) /\ 1..(p - 1) \subseteq 0..(p - 1) /\ \A i \in 1..(p - 1) : i - 1 \in 0..(p - 1)
  OBVIOUS
<1>2. ASSUME NEW cut \in [0..p -> 0..Len(topic)], cut[0] = 0, cut[p] = t, \A i \in 1..p : Piece(pattern, topic, cut, i)
      PROVE  CoveredTo(pattern, topic, p - 1, cut[p - 1])
  <2> DEFINE c == [i \in 0..(p - 1) |-> cut[i]]
  <2>1. c \in [0..(p - 1) -> 0..Len(topic)] /\ \A i \in 0..(p - 1) : c[i] = cut[i]
    BY <1>1
  <2> HIDE DEF c
  <2>2. \A i \in 1..(p - 1) : Piece(pattern, topic, c, i)
    <3> TAKE i \in 1..(p - 1)
    <3>1. c[i] = cut[i] /\ c[i - 1] = cut[i - 1] /\ i \in 1..p
      BY <1>1, <2>1
    <3> QED BY <1>2, <3>1 DEF Piece
  <2>3. c[0] = 0 /\ c[p - 1] = cut[p - 1]
    BY <1>1, <1>2, <2>1
  <2> QED BY <2>1, <2>2, <2>3 DEF CoveredTo
<1>3. ASSUME CoveredTo(pattern, topic, p, t)
      PROVE  IF pattern[p] = "**" THEN \E before \in 0..t : CoveredTo(pattern, topic, p - 1, before)
             ELSE t > 0 /\ pattern[p] \in {"*", topic[t]} /\ CoveredTo(pattern, topic, p - 1, t - 1)
  <2>1. PICK cut \in [0..p -> 0..Len(topic)] :
          cut[0] = 0 /\ cut[p] = t /\ \A i \in 1..p : Piece(pattern, topic, cut, i)
    BY <1>3 DEF CoveredTo
  <2>2. CoveredTo(pattern, topic, p - 1, cut[p - 1]) /\ cut[p - 1] \in 0..Len(topic)
    BY <1>1, <1>2, <2>1
  <2>3. Piece(pattern, topic, cut, p)
    BY <1>1, <2>1
  <2>4. CASE pattern[p] = "**"
    <3>1. t >= cut[p - 1]
      BY <2>1, <2>3, <2>4 DEF Piece
    <3>2. cut[p - 1] \in 0..t
      BY <1>1, <2>2, <3>1
    <3> QED BY <2>2, <2>4, <3>2
  <2>5. CASE pattern[p] # "**"
    <3>1. t = cut[p - 1] + 1 /\ pattern[p] \in {"*", topic[t]}
      BY <2>1, <2>3, <2>5 DEF Piece
    <3>2. t > 0 /\ cut[p - 1] = t - 1
      BY <1>1, <2>2, <3>1
    <3> QED BY <2>2, <2>5, <3>1, <3>2
  <2> QED BY <2>4, <2>5
<1>4. ASSUME NEW before \in 0..Len(topic), CoveredTo(pattern, topic, p - 1, before),
             IF pattern[p] = "**" THEN t >= before ELSE t = before + 1 /\ pattern[p] \in {"*", topic[t]}
      PROVE  CoveredTo(pattern, topic, p, t)
  <2>1. PICK c \in [0..(p - 1) -> 0..Len(topic)] :
          c[0] = 0 /\ c[p - 1] = before /\ \A i \in 1..(p - 1) : Piece(pattern, topic, c, i)
    BY <1>4 DEF CoveredTo
  <2> DEFINE cut == [i \in 0..p |-> IF i = p THEN t ELSE c[i]]
  <2>2. cut \in [0..p -> 0..Len(topic)] /\ cut[p] = t /\ \A i \in 0..(p - 1) : cut[i] = c[i]
    BY <1>1, <2>1
  <2> HIDE DEF cut
  <2>3. \A i \in 1..(p - 1) : Piece(pattern, topic, cut, i)
    <3> TAKE i \in 1..(p - 1)
    <3>1. cut[i] = c[i] /\ cut[i - 1] = c[i - 1]
      BY <1>1, <2>2
    <3> QED BY <2>1, <3>1 DEF Piece
  <2>4. Piece(pattern, topic, cut, p)
    <3>1. cut[p] = t /\ cut[p - 1] = before
      BY <1>1, <2>1, <2>2
    <3> QED BY <1>4, <3>1 DEF Piece
  <2>5. cut[0] = 0
    BY <1>1, <2>1, <2>2
  <2>6. \A i \in 1..p : Piece(pattern, topic, cut, i)
    BY <1>1, <2>3, <2>4
  <2> QED BY <2>2, <2>5, <2>6 DEF CoveredTo
<1>5. ASSUME IF pattern[p] = "**" THEN \E before \in 0..t : CoveredTo(pattern, topic, p - 1, before)
             ELSE t > 0 /\ pattern[p] \in {"*", topic[t]} /\ CoveredTo(pattern, topic, p - 1, t - 1)
      PROVE  CoveredTo(pattern, topic, p, t)
  <2>1. CASE pattern[p] = "**"
    <3>1. PICK before \in 0..t : CoveredTo(pattern, topic, p - 1, before)
      BY <1>5, <2>1
    <3>2. before \in 0..Len(topic) /\ t >= before
      BY <1>1
    <3> QED BY <1>4, <2>1, <3>1, <3>2
  <2>2. CASE pattern[p] # "**"
    <3>1. t > 0 /\ pattern[p] \in {"*", topic[t]} /\ CoveredTo(pattern, topic, p - 1, t - 1)
      BY <1>5, <2>2
    <3>2. t - 1 \in 0..Len(topic) /\ t = (t - 1) + 1
      BY <1>1, <3>1
    <3> QED BY <1>4, <2>2, <3>1, <3>2
  <2> QED BY <2>1, <2>2
<1> QED BY <1>3, <1>5

LEMMA MatcherCovers ==
  ASSUME NEW pattern \in Seq(STRING), NEW topic \in Seq(STRING)
  PROVE  MatchSegments(pattern, topic) <=> CoveredTo(pattern, topic, Len(pattern), Len(topic))
<1> DEFINE N == 0..Len(pattern)
           M == 0..Len(topic)
           Found(f, p, t) == IF p = 0 THEN t = 0
                             ELSE IF pattern[p] = "**" THEN \E before \in 0..t : f[p - 1][before]
                             ELSE t > 0 /\ pattern[p] \in {"*", topic[t]} /\ f[p - 1][t - 1]
           Table(f) == [p \in N |-> [t \in M |-> Found(f, p, t)]]
           match == CHOOSE f : f = Table(f)
           covered == [p \in N |-> [t \in M |-> CoveredTo(pattern, topic, p, t)]]
<1>1. MatchSegments(pattern, topic) = match[Len(pattern)][Len(topic)]
  BY Zenon DEF MatchSegments
<1>2. ASSUME NEW p \in N, NEW t \in M PROVE Found(covered, p, t) <=> CoveredTo(pattern, topic, p, t)
  <2>1. CASE p = 0
    BY <2>1, CoverNothing
  <2>2. CASE p # 0
    <3>1. p \in 1..Len(pattern) /\ p - 1 \in N /\ t \in Nat /\ Len(topic) \in Nat /\ 0..t \subseteq M
      BY <2>2
    <3>2. \A before \in M : covered[p - 1][before] <=> CoveredTo(pattern, topic, p - 1, before)
      BY <3>1
    <3> HIDE DEF covered
    <3>3. CoveredTo(pattern, topic, p, t) <=>
           IF pattern[p] = "**" THEN \E before \in 0..t : CoveredTo(pattern, topic, p - 1, before)
           ELSE t > 0 /\ pattern[p] \in {"*", topic[t]} /\ CoveredTo(pattern, topic, p - 1, t - 1)
      BY <3>1, CoverFurther
    <3>4. t > 0 => t - 1 \in M
      BY <3>1
    <3>5. (\E before \in 0..t : covered[p - 1][before]) <=> \E before \in 0..t : CoveredTo(pattern, topic, p - 1, before)
      BY <3>1, <3>2
    <3>6. t > 0 => (covered[p - 1][t - 1] <=> CoveredTo(pattern, topic, p - 1, t - 1))
      BY <3>2, <3>4
    <3> HIDE DEF M, N
    <3> QED BY <2>2, <3>3, <3>5, <3>6, Zenon
  <2> QED BY <2>1, <2>2
<1>3. covered = Table(covered)
  <2>1. ASSUME NEW p \in N, NEW t \in M PROVE Found(covered, p, t) = CoveredTo(pattern, topic, p, t)
    <3>1. CoveredTo(pattern, topic, p, t) \in BOOLEAN /\ Found(covered, p, t) \in BOOLEAN
      BY DEF CoveredTo
    <3> HIDE DEF Found, covered
    <3> QED BY <1>2, <3>1
  <2> HIDE DEF Found, N, M
  <2> QED BY <2>1
<1>4. match = Table(match)
  BY <1>3, Zenon
<1>5. ASSUME NEW p \in N, NEW t \in M PROVE match[p][t] = Found(match, p, t)
  <2> HIDE DEF match, Found, N, M
  <2> QED BY <1>4
<1> HIDE DEF match, covered
<1>6. \A p \in N : \A t \in M : match[p][t] <=> CoveredTo(pattern, topic, p, t)
  <2> DEFINE Wrong == {p \in N : \E t \in M : ~(match[p][t] <=> CoveredTo(pattern, topic, p, t))}
  <2> SUFFICES ASSUME Wrong # {} PROVE FALSE
    OBVIOUS
  <2>1. PICK p \in Wrong : \A q \in Wrong : p <= q
    <3>1. Wrong \subseteq Nat
      OBVIOUS
    <3> HIDE DEF Wrong
    <3> QED BY <3>1, LeastExists
  <2>2. p \in N /\ p \in Nat /\ \A q \in N : q < p => \A t \in M : match[q][t] <=> CoveredTo(pattern, topic, q, t)
    BY <2>1
  <2>3. PICK t \in M : ~(match[p][t] <=> CoveredTo(pattern, topic, p, t))
    BY <2>1
  <2>4. match[p][t] <=> Found(match, p, t)
    BY <1>5, <2>2
  <2>5. CASE p = 0
    BY <2>3, <2>4, <2>5, CoverNothing
  <2>6. CASE p # 0
    <3>1. p \in 1..Len(pattern) /\ p - 1 \in N /\ p - 1 < p /\ t \in Nat /\ Len(topic) \in Nat /\ 0..t \subseteq M
      BY <2>2, <2>6
    <3>2. \A before \in M : match[p - 1][before] <=> CoveredTo(pattern, topic, p - 1, before)
      BY <2>2, <3>1
    <3>3. CoveredTo(pattern, topic, p, t) <=>
           IF pattern[p] = "**" THEN \E before \in 0..t : CoveredTo(pattern, topic, p - 1, before)
           ELSE t > 0 /\ pattern[p] \in {"*", topic[t]} /\ CoveredTo(pattern, topic, p - 1, t - 1)
      BY <3>1, CoverFurther
    <3>4. t > 0 => t - 1 \in M
      BY <3>1
    <3>5. (\E before \in 0..t : match[p - 1][before]) <=> \E before \in 0..t : CoveredTo(pattern, topic, p - 1, before)
      BY <3>1, <3>2
    <3>6. t > 0 => (match[p - 1][t - 1] <=> CoveredTo(pattern, topic, p - 1, t - 1))
      BY <3>2, <3>4
    <3> HIDE DEF M, N
    <3> QED BY <2>3, <2>4, <2>6, <3>3, <3>5, <3>6, Zenon
  <2> QED BY <2>5, <2>6
<1>7. Len(pattern) \in N /\ Len(topic) \in M
  OBVIOUS
<1> QED BY <1>1, <1>6, <1>7

(* The matcher agrees with the reference.                                  *)
LEMMA MatchesAreCovered ==
  ASSUME NEW pattern \in Seq(STRING), NEW topic \in Seq(STRING)
  PROVE  TopicMatches(pattern, topic) <=> Covers(pattern, topic)
<1>1. CoveredTo(pattern, topic, Len(pattern), Len(topic)) <=>
        \E cut \in [0..Len(pattern) -> 0..Len(topic)] :
          /\ cut[0] = 0 /\ cut[Len(pattern)] = Len(topic)
          /\ \A i \in DOMAIN pattern :
               IF pattern[i] = "**" THEN cut[i] >= cut[i - 1]
               ELSE cut[i] = cut[i - 1] + 1 /\ pattern[i] \in {"*", topic[cut[i]]}
  <2>1. DOMAIN pattern = 1..Len(pattern)
    OBVIOUS
  <2> QED BY <2>1, Zenon DEF CoveredTo, Piece
<1>2. Covers(pattern, topic) <=> pattern = <<"*">> \/ CoveredTo(pattern, topic, Len(pattern), Len(topic))
  BY <1>1, Zenon DEF Covers
<1>3. pattern = topic => CoveredTo(pattern, topic, Len(pattern), Len(topic))
  <2> SUFFICES ASSUME pattern = topic PROVE CoveredTo(pattern, topic, Len(pattern), Len(topic))
    OBVIOUS
  <2> DEFINE cut == [i \in 0..Len(pattern) |-> i]
  <2>1. /\ Len(pattern) \in Nat /\ cut \in [0..Len(pattern) -> 0..Len(topic)] /\ cut[0] = 0 /\ cut[Len(pattern)] = Len(topic)
        /\ \A i \in 1..Len(pattern) : cut[i] = i /\ cut[i - 1] = i - 1
    OBVIOUS
  <2> HIDE DEF cut
  <2>2. \A i \in 1..Len(pattern) : Piece(pattern, topic, cut, i)
    <3> TAKE i \in 1..Len(pattern)
    <3>1. cut[i] = i /\ cut[i - 1] = i - 1 /\ i \in Nat /\ i - 1 \in Nat /\ (i - 1) + 1 = i
      BY <2>1
    <3>2. cut[i] >= cut[i - 1] /\ cut[i] = cut[i - 1] + 1
      BY <3>1
    <3>3. pattern[i] = topic[cut[i]]
      BY <3>1
    <3> QED BY <3>2, <3>3 DEF Piece
  <2> QED BY <2>1, <2>2 DEF CoveredTo
<1> QED BY <1>2, <1>3, MatcherCovers DEF TopicMatches

-----------------------------------------------------------------------------
(***************************************************************************)
(* Sequences whose elements differ, which take one more or lose one.       *)
(***************************************************************************)
Alone(s) == \A i, j \in DOMAIN s : s[i] = s[j] => i = j

LEMMA RemovedPlaces ==
  ASSUME NEW S, NEW s \in Seq(S), NEW n \in DOMAIN s
  PROVE  /\ RemoveAt(s, n) \in Seq(S) /\ Len(RemoveAt(s, n)) = Len(s) - 1 /\ Len(s) \in Nat /\ Len(s) > 0
         /\ DOMAIN RemoveAt(s, n) = 1..(Len(s) - 1)
         /\ \A k \in 1..(Len(s) - 1) : /\ k < n => RemoveAt(s, n)[k] = s[k]
                                       /\ ~(k < n) => RemoveAt(s, n)[k] = s[k + 1]
<1>1. n \in Nat /\ n >= 1 /\ n <= Len(s) /\ Len(s) \in Nat /\ Len(s) > 0
  OBVIOUS
<1> DEFINE a == SubSeq(s, 1, n - 1)
           b == SubSeq(s, n + 1, Len(s))
<1>2. a \in Seq(S) /\ Len(a) = n - 1 /\ \A k \in 1..(n - 1) : a[k] = s[k]
  BY <1>1
<1>3. b \in Seq(S) /\ Len(b) = Len(s) - n /\ \A k \in 1..(Len(s) - n) : b[k] = s[k + n]
  BY <1>1
<1> HIDE DEF a, b
<1>4. RemoveAt(s, n) = a \o b
  BY DEF RemoveAt, a, b
<1>5. /\ a \o b \in Seq(S) /\ Len(a \o b) = Len(s) - 1 /\ DOMAIN (a \o b) = 1..(Len(s) - 1)
      /\ \A k \in 1..(Len(s) - 1) : (a \o b)[k] = IF k <= Len(a) THEN a[k] ELSE b[k - Len(a)]
  <2>1. /\ a \o b \in Seq(S) /\ Len(a \o b) = Len(a) + Len(b) /\ DOMAIN (a \o b) = 1..(Len(a) + Len(b))
        /\ \A k \in 1..(Len(a) + Len(b)) : (a \o b)[k] = IF k <= Len(a) THEN a[k] ELSE b[k - Len(a)]
    <3>1. ASSUME NEW x \in Seq(S), NEW y \in Seq(S)
          PROVE  /\ x \o y \in Seq(S) /\ Len(x \o y) = Len(x) + Len(y) /\ DOMAIN (x \o y) = 1..(Len(x) + Len(y))
                 /\ \A k \in 1..(Len(x) + Len(y)) : (x \o y)[k] = IF k <= Len(x) THEN x[k] ELSE y[k - Len(x)]
      OBVIOUS
    <3> QED BY <1>2, <1>3, <3>1, Zenon
  <2>2. Len(a) + Len(b) = Len(s) - 1
    BY <1>1, <1>2, <1>3
  <2> QED BY <2>1, <2>2
<1>6. ASSUME NEW k \in 1..(Len(s) - 1), k < n PROVE (a \o b)[k] = s[k]
  <2>1. k \in 1..(n - 1) /\ k <= Len(a)
    BY <1>1, <1>2, <1>6
  <2> QED BY <1>2, <1>5, <2>1
<1>7. ASSUME NEW k \in 1..(Len(s) - 1), ~(k < n) PROVE (a \o b)[k] = s[k + 1]
  <2>1. ~(k <= Len(a)) /\ k - Len(a) \in 1..(Len(s) - n) /\ (k - Len(a)) + n = k + 1
    BY <1>1, <1>2, <1>7
  <2> QED BY <1>3, <1>5, <2>1
<1> QED BY <1>1, <1>4, <1>5, <1>6, <1>7

LEMMA RemovedStay ==
  ASSUME NEW S, NEW s \in Seq(S), NEW n \in DOMAIN s
  PROVE  /\ RemoveAt(s, n) \in Seq(S)
         /\ \A k \in DOMAIN RemoveAt(s, n) : \E j \in DOMAIN s \ {n} : RemoveAt(s, n)[k] = s[j]
         /\ \A j \in DOMAIN s \ {n} : \E k \in DOMAIN RemoveAt(s, n) : RemoveAt(s, n)[k] = s[j]
<1> DEFINE less == RemoveAt(s, n)
<1>1. /\ less \in Seq(S) /\ Len(s) \in Nat /\ Len(s) > 0 /\ DOMAIN less = 1..(Len(s) - 1)
      /\ \A k \in 1..(Len(s) - 1) : (k < n => less[k] = s[k]) /\ (~(k < n) => less[k] = s[k + 1])
  BY RemovedPlaces
<1>2. DOMAIN s = 1..Len(s) /\ n \in Nat /\ n <= Len(s) /\ n >= 1
  OBVIOUS
<1> HIDE DEF less
<1>3. ASSUME NEW k \in DOMAIN less PROVE \E j \in DOMAIN s \ {n} : less[k] = s[j]
  <2>1. CASE k < n
    <3>1. k \in DOMAIN s \ {n}
      BY <1>1, <1>2, <2>1
    <3> QED BY <1>1, <2>1, <3>1
  <2>2. CASE ~(k < n)
    <3>1. k + 1 \in DOMAIN s \ {n}
      BY <1>1, <1>2, <2>2
    <3> QED BY <1>1, <2>2, <3>1
  <2> QED BY <2>1, <2>2
<1>4. ASSUME NEW j \in DOMAIN s \ {n} PROVE \E k \in DOMAIN less : less[k] = s[j]
  <2>1. CASE j < n
    <3>1. j \in DOMAIN less
      BY <1>1, <1>2, <2>1
    <3> QED BY <1>1, <2>1, <3>1
  <2>2. CASE ~(j < n)
    <3>1. j - 1 \in DOMAIN less /\ ~(j - 1 < n) /\ (j - 1) + 1 = j
      BY <1>1, <1>2, <2>2
    <3>2. less[j - 1] = s[(j - 1) + 1]
      BY <1>1, <3>1
    <3> QED BY <3>1, <3>2
  <2> QED BY <2>1, <2>2
<1> QED BY <1>1, <1>3, <1>4 DEF less

LEMMA RemovedAlone ==
  ASSUME NEW S, NEW s \in Seq(S), NEW n \in DOMAIN s, Alone(s)
  PROVE  Alone(RemoveAt(s, n))
<1> DEFINE less == RemoveAt(s, n)
<1>1. /\ less \in Seq(S) /\ Len(s) \in Nat /\ Len(s) > 0 /\ DOMAIN less = 1..(Len(s) - 1)
      /\ \A k \in 1..(Len(s) - 1) : (k < n => less[k] = s[k]) /\ (~(k < n) => less[k] = s[k + 1])
  BY RemovedPlaces
<1>2. DOMAIN s = 1..Len(s) /\ n \in Nat /\ n <= Len(s) /\ n >= 1
  OBVIOUS
<1> HIDE DEF less
<1>3. ASSUME NEW i \in DOMAIN less, NEW j \in DOMAIN less, less[i] = less[j] PROVE i = j
  <2>1. i \in Nat /\ j \in Nat /\ i \in DOMAIN s /\ i + 1 \in DOMAIN s /\ j \in DOMAIN s /\ j + 1 \in DOMAIN s
    BY <1>1, <1>2
  <2>2. CASE i < n /\ j < n
    <3>1. s[i] = s[j]
      BY <1>1, <1>3, <2>2
    <3> QED BY <2>1, <3>1 DEF Alone
  <2>3. CASE i < n /\ ~(j < n)
    <3>1. s[i] = s[j + 1]
      BY <1>1, <1>3, <2>3
    <3>2. i = j + 1
      BY <2>1, <3>1 DEF Alone
    <3> QED BY <1>2, <2>1, <2>3, <3>2
  <2>4. CASE ~(i < n) /\ j < n
    <3>1. s[i + 1] = s[j]
      BY <1>1, <1>3, <2>4
    <3>2. i + 1 = j
      BY <2>1, <3>1 DEF Alone
    <3> QED BY <1>2, <2>1, <2>4, <3>2
  <2>5. CASE ~(i < n) /\ ~(j < n)
    <3>1. s[i + 1] = s[j + 1]
      BY <1>1, <1>3, <2>5
    <3>2. i + 1 = j + 1
      BY <2>1, <3>1 DEF Alone
    <3> QED BY <2>1, <3>2
  <2> QED BY <2>2, <2>3, <2>4, <2>5
<1> QED BY <1>3 DEF less, Alone

LEMMA ExcludedStay ==
  ASSUME NEW S, NEW s \in Seq(S), Alone(s), NEW e
  PROVE  /\ Excluding(s, e) \in Seq(S) /\ Alone(Excluding(s, e))
         /\ ToSet(Excluding(s, e)) = ToSet(s) \ {e}
<1>1. CASE e \in ToSet(s)
  <2> DEFINE n == CHOOSE k \in DOMAIN s : s[k] = e
  <2>1. n \in DOMAIN s /\ s[n] = e
    BY <1>1 DEF ToSet
  <2>2. Excluding(s, e) = RemoveAt(s, n)
    BY <1>1 DEF Excluding
  <2> HIDE DEF n
  <2>3. /\ RemoveAt(s, n) \in Seq(S)
        /\ \A k \in DOMAIN RemoveAt(s, n) : \E j \in DOMAIN s \ {n} : RemoveAt(s, n)[k] = s[j]
        /\ \A j \in DOMAIN s \ {n} : \E k \in DOMAIN RemoveAt(s, n) : RemoveAt(s, n)[k] = s[j]
    BY <2>1, RemovedStay
  <2>4. Alone(RemoveAt(s, n))
    BY <2>1, RemovedAlone
  <2>5. \A j \in DOMAIN s : s[j] = e <=> j = n
    BY <2>1 DEF Alone
  <2>6. ToSet(RemoveAt(s, n)) = ToSet(s) \ {e}
    BY <2>1, <2>3, <2>5 DEF ToSet
  <2> QED BY <2>2, <2>3, <2>4, <2>6
<1>2. CASE e \notin ToSet(s)
  BY <1>2 DEF Excluding
<1> QED BY <1>1, <1>2

LEMMA AppendedStay ==
  ASSUME NEW S, NEW s \in Seq(S), NEW e \in S
  PROVE  /\ Append(s, e) \in Seq(S) /\ Len(Append(s, e)) = Len(s) + 1 /\ Len(s) \in Nat
         /\ DOMAIN s = 1..Len(s) /\ DOMAIN Append(s, e) = 1..(Len(s) + 1)
         /\ \A k \in DOMAIN s : k \in DOMAIN Append(s, e) /\ Append(s, e)[k] = s[k] /\ k # Len(s) + 1
         /\ Append(s, e)[Len(s) + 1] = e /\ Len(s) + 1 \in DOMAIN Append(s, e) /\ Len(s) + 1 \notin DOMAIN s
         /\ \A k \in DOMAIN Append(s, e) : k \in DOMAIN s \/ k = Len(s) + 1
<1>1. Append(s, e) \in Seq(S) /\ Len(Append(s, e)) = Len(s) + 1 /\ Len(s) \in Nat /\ DOMAIN s = 1..Len(s)
      /\ DOMAIN Append(s, e) = 1..(Len(s) + 1)
  OBVIOUS
<1>2. \A k \in 1..Len(s) : Append(s, e)[k] = s[k]
  OBVIOUS
<1>3. Append(s, e)[Len(s) + 1] = e
  OBVIOUS
<1> QED BY <1>1, <1>2, <1>3

LEMMA AppendedAlone ==
  ASSUME NEW S, NEW s \in Seq(S), NEW e \in S, Alone(s), e \notin ToSet(s)
  PROVE  Append(s, e) \in Seq(S) /\ Alone(Append(s, e)) /\ ToSet(Append(s, e)) = ToSet(s) \cup {e}
<1> DEFINE more == Append(s, e)
<1>1. /\ more \in Seq(S)
      /\ \A k \in DOMAIN s : k \in DOMAIN more /\ more[k] = s[k] /\ k # Len(s) + 1
      /\ more[Len(s) + 1] = e /\ Len(s) + 1 \in DOMAIN more
      /\ \A k \in DOMAIN more : k \in DOMAIN s \/ k = Len(s) + 1
  BY AppendedStay
<1> HIDE DEF more
<1>2. \A k \in DOMAIN s : s[k] # e
  BY DEF ToSet
<1>3. Alone(more)
  BY <1>1, <1>2 DEF Alone
<1>4. ToSet(more) = ToSet(s) \cup {e}
  BY <1>1 DEF ToSet
<1> QED BY <1>1, <1>3, <1>4 DEF more

LEMMA PushedStay ==
  ASSUME NEW S, NEW s \in Seq(S), NEW e \in S
  PROVE  /\ <<e>> \o s \in Seq(S) /\ (<<e>> \o s)[1] = e /\ 1 \in DOMAIN (<<e>> \o s)
         /\ \A k \in DOMAIN s : k + 1 \in DOMAIN (<<e>> \o s) /\ (<<e>> \o s)[k + 1] = s[k]
         /\ \A k \in DOMAIN (<<e>> \o s) : k = 1 \/ \E j \in DOMAIN s : k = j + 1
<1> DEFINE more == <<e>> \o s
<1>1. more \in Seq(S) /\ more[1] = e /\ Len(s) \in Nat /\ DOMAIN s = 1..Len(s) /\ DOMAIN more = 1..(Len(s) + 1)
  OBVIOUS
<1>2. ASSUME NEW k \in 1..Len(s) PROVE more[k + 1] = s[k]
  OBVIOUS
<1> HIDE DEF more
<1>3. 1 \in DOMAIN more /\ \A k \in DOMAIN s : k + 1 \in DOMAIN more
  BY <1>1
<1>4. ASSUME NEW k \in DOMAIN more, k # 1 PROVE \E j \in DOMAIN s : k = j + 1
  <2>1. k - 1 \in DOMAIN s /\ k = (k - 1) + 1
    BY <1>1, <1>4
  <2> QED BY <2>1
<1> QED BY <1>1, <1>2, <1>3, <1>4 DEF more

LEMMA TailStays ==
  ASSUME NEW S, NEW s \in Seq(S), s # <<>>
  PROVE  /\ Tail(s) \in Seq(S) /\ 1 \in DOMAIN s /\ Head(s) = s[1]
         /\ \A k \in DOMAIN Tail(s) : k + 1 \in DOMAIN s /\ k + 1 # 1 /\ Tail(s)[k] = s[k + 1]
         /\ \A k \in DOMAIN s : k = 1 \/ \E j \in DOMAIN Tail(s) : k = j + 1 /\ Tail(s)[j] = s[k]
<1> DEFINE t == Tail(s)
<1>1. t \in Seq(S) /\ Len(s) \in Nat /\ Len(s) > 0 /\ DOMAIN s = 1..Len(s) /\ DOMAIN t = 1..(Len(s) - 1) /\ Head(s) = s[1]
      /\ \A k \in 1..(Len(s) - 1) : t[k] = s[k + 1]
  OBVIOUS
<1> HIDE DEF t
<1>2. \A k \in DOMAIN t : k + 1 \in DOMAIN s /\ k + 1 # 1 /\ t[k] = s[k + 1]
  BY <1>1
<1>3. ASSUME NEW k \in DOMAIN s, k # 1 PROVE \E j \in DOMAIN t : k = j + 1 /\ t[j] = s[k]
  <2>1. k - 1 \in DOMAIN t /\ k = (k - 1) + 1
    BY <1>1, <1>3
  <2> QED BY <1>2, <2>1
<1>4. 1 \in DOMAIN s
  BY <1>1
<1> QED BY <1>1, <1>2, <1>3, <1>4 DEF t

LEMMA ChangedStay ==
  ASSUME NEW S, NEW s \in Seq(S), NEW n \in DOMAIN s, NEW e \in S
  PROVE  /\ [s EXCEPT ![n] = e] \in Seq(S) /\ DOMAIN [s EXCEPT ![n] = e] = DOMAIN s
         /\ [s EXCEPT ![n] = e][n] = e
         /\ \A k \in DOMAIN s : k # n => [s EXCEPT ![n] = e][k] = s[k]
OBVIOUS

(* What a buffer keeps of a sequence: its last n.                          *)
LEMMA NewestPlaces ==
  ASSUME NEW S, NEW s \in Seq(S), NEW n \in Nat
  PROVE  /\ Newest(s, n) \in Seq(S) /\ Len(Newest(s, n)) \in Nat /\ Len(Newest(s, n)) <= n /\ Len(s) \in Nat
         /\ Len(Newest(s, n)) <= Len(s) /\ DOMAIN Newest(s, n) = 1..Len(Newest(s, n))
         /\ \A i \in 1..Len(Newest(s, n)) : /\ Newest(s, n)[i] = s[Len(s) - Len(Newest(s, n)) + i]
                                            /\ Len(s) - Len(Newest(s, n)) + i \in 1..Len(s)
<1>1. Len(s) \in Nat
  OBVIOUS
<1>2. CASE Len(s) > n
  <2> DEFINE a == SubSeq(s, Len(s) - n + 1, Len(s))
  <2>1. a \in Seq(S) /\ Len(a) = n /\ DOMAIN a = 1..n /\ \A i \in 1..n : a[i] = s[(Len(s) - n) + i]
    <3>1. Len(s) - n + 1 \in 1..(Len(s) + 1) /\ Len(s) \in 0..Len(s)
      BY <1>1, <1>2
    <3>2. a \in Seq(S) /\ Len(a) = n
      BY <1>1, <1>2
    <3>3. \A i \in 1..n : a[i] = s[(Len(s) - n) + i]
      BY <1>1, <1>2
    <3> HIDE DEF a
    <3> QED BY <3>2, <3>3
  <2>2. Newest(s, n) = a
    BY <1>2 DEF Newest
  <2>3. \A i \in 1..n : (Len(s) - n) + i \in 1..Len(s)
    BY <1>1, <1>2
  <2> HIDE DEF a
  <2>4. Len(a) \in Nat /\ Len(a) <= n /\ Len(a) <= Len(s) /\ DOMAIN a = 1..Len(a)
    BY <1>1, <1>2, <2>1
  <2>5. \A i \in 1..Len(a) : a[i] = s[Len(s) - Len(a) + i] /\ Len(s) - Len(a) + i \in 1..Len(s)
    BY <2>1, <2>3
  <2> QED BY <1>1, <2>1, <2>2, <2>4, <2>5
<1>3. CASE ~(Len(s) > n)
  <2>1. Newest(s, n) = s
    BY <1>3 DEF Newest
  <2>2. \A i \in 1..Len(s) : Len(s) - Len(s) + i = i
    BY <1>1
  <2> QED BY <1>1, <1>3, <2>1, <2>2
<1> QED BY <1>2, <1>3

-----------------------------------------------------------------------------
(***************************************************************************)
(* Who is subscribed, and at which places of the snapshot a publication    *)
(* finds them: no subscriber has two places.                               *)
(***************************************************************************)
Pairs == [pattern : Patterns, handler : Subscribers]
SubscriptionsFit ==
  /\ subscriptions \in Seq([pattern : Patterns, handlers : Seq(Subscribers)])
  /\ \A i, j \in DOMAIN subscriptions : subscriptions[i].pattern = subscriptions[j].pattern => i = j
  /\ \A i \in DOMAIN subscriptions : Alone(subscriptions[i].handlers)

Left == [entry : Nat, place : Nat, to : Pairs]

LEMMA EntriesTyped ==
  ASSUME SubscriptionsFit, NEW i \in DOMAIN subscriptions
  PROVE  /\ i \in Nat /\ subscriptions[i].pattern \in Patterns /\ subscriptions[i].handlers \in Seq(Subscribers)
         /\ subscriptions[i] = [pattern |-> subscriptions[i].pattern, handlers |-> subscriptions[i].handlers]
         /\ Alone(subscriptions[i].handlers)
         /\ \A k \in DOMAIN subscriptions[i].handlers : k \in Nat /\ subscriptions[i].handlers[k] \in Subscribers
<1>1. subscriptions[i] \in [pattern : Patterns, handlers : Seq(Subscribers)] /\ i \in Nat
  <2> DEFINE Sub == [pattern : Patterns, handlers : Seq(Subscribers)]
  <2>1. subscriptions \in Seq(Sub)
    BY DEF SubscriptionsFit
  <2> HIDE DEF Sub
  <2>2. subscriptions[i] \in Sub /\ i \in Nat
    BY <2>1
  <2> QED BY <2>2 DEF Sub
<1>2. subscriptions[i].pattern \in Patterns /\ subscriptions[i].handlers \in Seq(Subscribers)
      /\ subscriptions[i] = [pattern |-> subscriptions[i].pattern, handlers |-> subscriptions[i].handlers]
  BY <1>1
<1>3. \A k \in DOMAIN subscriptions[i].handlers : k \in Nat /\ subscriptions[i].handlers[k] \in Subscribers
  BY <1>2
<1> QED BY <1>1, <1>2, <1>3 DEF SubscriptionsFit

LEMMA PlacesAreOne ==
  ASSUME SubscriptionsFit, NEW entries, entries \subseteq DOMAIN subscriptions
  PROVE  /\ \A l \in PlacesOf(entries) :
              /\ l \in Left /\ l.entry \in entries /\ l.place \in DOMAIN subscriptions[l.entry].handlers
              /\ l.to = [pattern |-> subscriptions[l.entry].pattern,
                        handler |-> subscriptions[l.entry].handlers[l.place]]
         /\ \A l, o \in PlacesOf(entries) : l.to = o.to => l = o
         /\ \A i \in entries : \A k \in DOMAIN subscriptions[i].handlers :
              \E l \in PlacesOf(entries) :
                l.to = [pattern |-> subscriptions[i].pattern, handler |-> subscriptions[i].handlers[k]]
<1> DEFINE To(i, k) == [pattern |-> subscriptions[i].pattern, handler |-> subscriptions[i].handlers[k]]
           Place(i, k) == [entry |-> i, place |-> k, to |-> To(i, k)]
<1>1. ASSUME NEW l \in PlacesOf(entries)
      PROVE  /\ l \in Left /\ l.entry \in entries /\ l.place \in DOMAIN subscriptions[l.entry].handlers
             /\ l.to = To(l.entry, l.place) /\ l = Place(l.entry, l.place)
  <2>1. PICK i \in entries : l \in {Place(i, k) : k \in DOMAIN subscriptions[i].handlers}
    BY DEF PlacesOf
  <2>2. PICK k \in DOMAIN subscriptions[i].handlers : l = Place(i, k)
    BY <2>1
  <2>3. l.entry = i /\ l.place = k /\ l.to = To(i, k)
    BY <2>2
  <2>4. i \in Nat /\ k \in Nat /\ To(i, k) \in Pairs
    BY EntriesTyped DEF Pairs
  <2>5. l \in Left
    BY <2>2, <2>4 DEF Left
  <2> QED BY <2>2, <2>3, <2>5
<1>2. ASSUME NEW l \in PlacesOf(entries), NEW o \in PlacesOf(entries), l.to = o.to PROVE l = o
  <2> DEFINE i == l.entry
             k == l.place
             j == o.entry
             h == o.place
  <2>1. /\ i \in DOMAIN subscriptions /\ k \in DOMAIN subscriptions[i].handlers /\ l = Place(i, k) /\ l.to = To(i, k)
        /\ j \in DOMAIN subscriptions /\ h \in DOMAIN subscriptions[j].handlers /\ o = Place(j, h) /\ o.to = To(j, h)
    BY <1>1
  <2> HIDE DEF i, k, j, h
  <2>2. subscriptions[i].pattern = subscriptions[j].pattern /\ subscriptions[i].handlers[k] = subscriptions[j].handlers[h]
    BY <1>2, <2>1
  <2>3. i = j
    BY <2>1, <2>2 DEF SubscriptionsFit
  <2>4. k = h
    BY <2>1, <2>2, <2>3 DEF SubscriptionsFit, Alone
  <2> QED BY <2>1, <2>3, <2>4
<1>3. ASSUME NEW i \in entries, NEW k \in DOMAIN subscriptions[i].handlers
      PROVE  \E l \in PlacesOf(entries) : l.to = To(i, k)
  <2>1. Place(i, k) \in PlacesOf(entries)
    BY DEF PlacesOf
  <2>2. Place(i, k).to = To(i, k)
    OBVIOUS
  <2> QED BY <2>1, <2>2
<1> QED BY <1>1, <1>2, <1>3

LEMMA SubscribedTyped ==
  ASSUME SubscriptionsFit
  PROVE  /\ Subscribed \subseteq Pairs
         /\ \A s \in Subscribed : \E i \in DOMAIN subscriptions : \E k \in DOMAIN subscriptions[i].handlers :
              s = [pattern |-> subscriptions[i].pattern, handler |-> subscriptions[i].handlers[k]]
         /\ \A i \in DOMAIN subscriptions : \A k \in DOMAIN subscriptions[i].handlers :
              [pattern |-> subscriptions[i].pattern, handler |-> subscriptions[i].handlers[k]] \in Subscribed
<1>1. ASSUME NEW s \in Subscribed
      PROVE  \E i \in DOMAIN subscriptions : \E k \in DOMAIN subscriptions[i].handlers :
               s = [pattern |-> subscriptions[i].pattern, handler |-> subscriptions[i].handlers[k]]
  <2>1. PICK i \in DOMAIN subscriptions : s \in {[pattern |-> subscriptions[i].pattern, handler |-> h] :
                                                 h \in ToSet(subscriptions[i].handlers)}
    BY DEF Subscribed
  <2>2. PICK h \in ToSet(subscriptions[i].handlers) : s = [pattern |-> subscriptions[i].pattern, handler |-> h]
    BY <2>1
  <2>3. PICK k \in DOMAIN subscriptions[i].handlers : h = subscriptions[i].handlers[k]
    BY DEF ToSet
  <2> QED BY <2>2, <2>3
<1>2. Subscribed \subseteq Pairs
  <2> SUFFICES ASSUME NEW s \in Subscribed PROVE s \in Pairs
    OBVIOUS
  <2>1. PICK i \in DOMAIN subscriptions : \E k \in DOMAIN subscriptions[i].handlers :
               s = [pattern |-> subscriptions[i].pattern, handler |-> subscriptions[i].handlers[k]]
    BY <1>1
  <2> QED BY <2>1, EntriesTyped DEF Pairs
<1>3. ASSUME NEW i \in DOMAIN subscriptions, NEW k \in DOMAIN subscriptions[i].handlers
      PROVE  [pattern |-> subscriptions[i].pattern, handler |-> subscriptions[i].handlers[k]] \in Subscribed
  <2>1. subscriptions[i].handlers[k] \in ToSet(subscriptions[i].handlers)
    BY DEF ToSet
  <2> DEFINE Set(j) == {[pattern |-> subscriptions[j].pattern, handler |-> h] : h \in ToSet(subscriptions[j].handlers)}
  <2>2. [pattern |-> subscriptions[i].pattern, handler |-> subscriptions[i].handlers[k]] \in Set(i)
    BY <2>1
  <2>3. Subscribed = UNION {Set(j) : j \in DOMAIN subscriptions}
    BY DEF Subscribed
  <2> HIDE DEF Set
  <2> QED BY <2>2, <2>3
<1> QED BY <1>1, <1>2, <1>3

LEMMA RecipientsTold ==
  ASSUME SubscriptionsFit, NEW topic \in Topics
  PROVE  /\ \A l \in Recipients(topic) : l \in Left /\ l.to \in Subscribed /\ Covers(l.to.pattern, topic)
         /\ \A l, o \in Recipients(topic) : l.to = o.to => l = o
         /\ \A s \in Subscribed : Covers(s.pattern, topic) => \E l \in Recipients(topic) : l.to = s
<1> DEFINE entries == EntriesFor(topic)
<1>1. entries \subseteq DOMAIN subscriptions
  BY DEF EntriesFor
<1>2. \A i \in DOMAIN subscriptions : i \in entries <=> Covers(subscriptions[i].pattern, topic)
  <2> TAKE i \in DOMAIN subscriptions
  <2>1. subscriptions[i].pattern \in Seq(STRING) /\ topic \in Seq(STRING)
    BY EntriesTyped, CoordinationAssumption
  <2> QED BY <2>1, MatchesAreCovered DEF EntriesFor
<1> HIDE DEF entries
<1>3. Recipients(topic) = PlacesOf(entries)
  BY DEF Recipients, entries
<1>4. ASSUME NEW l \in PlacesOf(entries)
      PROVE  l \in Left /\ l.to \in Subscribed /\ Covers(l.to.pattern, topic)
  <2>1. /\ l \in Left /\ l.entry \in entries /\ l.place \in DOMAIN subscriptions[l.entry].handlers
        /\ l.to = [pattern |-> subscriptions[l.entry].pattern,
                        handler |-> subscriptions[l.entry].handlers[l.place]]
    BY <1>1, PlacesAreOne
  <2>2. l.to \in Subscribed
    BY <1>1, <2>1, SubscribedTyped
  <2>3. l.to.pattern = subscriptions[l.entry].pattern
    BY <2>1
  <2> QED BY <1>1, <1>2, <2>1, <2>2, <2>3
<1>5. ASSUME NEW s \in Subscribed, Covers(s.pattern, topic) PROVE \E l \in PlacesOf(entries) : l.to = s
  <2>1. PICK i \in DOMAIN subscriptions : \E k \in DOMAIN subscriptions[i].handlers :
               s = [pattern |-> subscriptions[i].pattern, handler |-> subscriptions[i].handlers[k]]
    BY SubscribedTyped
  <2>2. PICK k \in DOMAIN subscriptions[i].handlers :
               s = [pattern |-> subscriptions[i].pattern, handler |-> subscriptions[i].handlers[k]]
    BY <2>1
  <2>3. i \in entries
    BY <1>2, <1>5, <2>2
  <2> QED BY <1>1, <2>2, <2>3, PlacesAreOne
<1>6. \A l, o \in PlacesOf(entries) : l.to = o.to => l = o
  BY <1>1, PlacesAreOne
<1> QED BY <1>3, <1>4, <1>5, <1>6

LEMMA SubscribeFits ==
  ASSUME SubscriptionsFit, NEW p \in Patterns, NEW h \in Subscribers, Subscribe(p, h)
  PROVE  SubscriptionsFit'
<1>1. [pattern |-> p, handler |-> h] \notin Subscribed
  BY DEF Subscribe
<1> DEFINE Sub == [pattern : Patterns, handlers : Seq(Subscribers)]
<1>0. subscriptions \in Seq(Sub)
  BY DEF SubscriptionsFit
<1>2. CASE Entry(p) = {}
  <2> DEFINE e == [pattern |-> p, handlers |-> <<h>>]
  <2>1. subscriptions' = Append(subscriptions, e)
    BY <1>2 DEF Subscribe
  <2>2. e \in Sub /\ e.pattern = p /\ e.handlers = <<h>> /\ Alone(<<h>>)
    BY DEF Alone
  <2> HIDE DEF e, Sub
  <2>3. /\ subscriptions' \in Seq(Sub)
        /\ \A k \in DOMAIN subscriptions : k \in DOMAIN subscriptions' /\ subscriptions'[k] = subscriptions[k] /\ k # Len(subscriptions) + 1
        /\ subscriptions'[Len(subscriptions) + 1] = e
        /\ \A k \in DOMAIN subscriptions' : k \in DOMAIN subscriptions \/ k = Len(subscriptions) + 1
    BY <1>0, <2>1, <2>2, AppendedStay
  <2>4. \A i \in DOMAIN subscriptions : subscriptions[i].pattern # p
    BY <1>2 DEF Entry
  <2>5. ASSUME NEW i \in DOMAIN subscriptions', NEW j \in DOMAIN subscriptions',
               subscriptions'[i].pattern = subscriptions'[j].pattern
        PROVE  i = j
    BY <2>2, <2>3, <2>4, <2>5 DEF SubscriptionsFit
  <2>6. \A i \in DOMAIN subscriptions' : Alone(subscriptions'[i].handlers)
    BY <2>2, <2>3 DEF SubscriptionsFit
  <2> QED BY <2>3, <2>5, <2>6 DEF SubscriptionsFit, Sub
<1>3. CASE Entry(p) # {}
  <2>1. subscriptions' = [i \in DOMAIN subscriptions |->
               IF i \in Entry(p) THEN [subscriptions[i] EXCEPT !.handlers = Append(@, h)]
               ELSE subscriptions[i]]
    BY <1>3 DEF Subscribe
  <2>2. ASSUME NEW i \in DOMAIN subscriptions
        PROVE  /\ subscriptions'[i] \in Sub /\ subscriptions'[i].pattern = subscriptions[i].pattern
               /\ Alone(subscriptions'[i].handlers)
    <3> DEFINE s == subscriptions[i].handlers
    <3>1. /\ subscriptions[i].pattern \in Patterns /\ s \in Seq(Subscribers)
          /\ subscriptions[i] = [pattern |-> subscriptions[i].pattern, handlers |-> s] /\ Alone(s)
      BY EntriesTyped
    <3>2. CASE i \in Entry(p)
      <4>1. subscriptions[i].pattern = p
        BY <3>2 DEF Entry
      <4>2. h \notin ToSet(s)
        BY <1>1, <4>1, SubscribedTyped DEF ToSet
      <4> HIDE DEF s
      <4>3. Append(s, h) \in Seq(Subscribers) /\ Alone(Append(s, h))
        BY <3>1, <4>2, AppendedAlone
      <4>4. subscriptions'[i] = [pattern |-> p, handlers |-> Append(s, h)]
        <5>1. subscriptions'[i] = [subscriptions[i] EXCEPT !.handlers = Append(@, h)]
          BY <2>1, <3>2
        <5> QED BY <3>1, <4>1, <5>1
      <4> QED BY <4>1, <4>3, <4>4
    <3>3. CASE i \notin Entry(p)
      <4>1. subscriptions'[i] = subscriptions[i]
        BY <2>1, <3>3
      <4> QED BY <3>1, <4>1
    <3> QED BY <3>2, <3>3
  <2>3. DOMAIN subscriptions' = DOMAIN subscriptions
    BY <2>1
  <2>4. subscriptions' \in Seq(Sub)
    <3>1. DOMAIN subscriptions = 1..Len(subscriptions) /\ Len(subscriptions) \in Nat
      BY <1>0
    <3> HIDE DEF Sub
    <3>2. subscriptions' \in [1..Len(subscriptions) -> Sub]
      BY <2>1, <2>2, <3>1
    <3> QED BY <3>1, <3>2
  <2> HIDE DEF Sub
  <2>5. \A i, j \in DOMAIN subscriptions' : subscriptions'[i].pattern = subscriptions'[j].pattern => i = j
    BY <2>2, <2>3 DEF SubscriptionsFit
  <2>6. \A i \in DOMAIN subscriptions' : Alone(subscriptions'[i].handlers)
    BY <2>2, <2>3
  <2> QED BY <2>4, <2>5, <2>6 DEF SubscriptionsFit, Sub
<1> QED BY <1>2, <1>3

LEMMA UnsubscribeFits ==
  ASSUME SubscriptionsFit, NEW p \in Patterns, NEW h \in Subscribers, Unsubscribe(p, h)
  PROVE  SubscriptionsFit'
<1> DEFINE Sub == [pattern : Patterns, handlers : Seq(Subscribers)]
<1>0. subscriptions \in Seq(Sub)
  BY DEF SubscriptionsFit
<1>1. PICK i \in Entry(p) :
        subscriptions' = IF Excluding(subscriptions[i].handlers, h) = <<>> THEN RemoveAt(subscriptions, i)
                         ELSE [subscriptions EXCEPT ![i].handlers = Excluding(subscriptions[i].handlers, h)]
  BY DEF Unsubscribe
<1> DEFINE others == Excluding(subscriptions[i].handlers, h)
<1>2. i \in DOMAIN subscriptions
  BY DEF Entry
<1>3. /\ subscriptions[i].pattern \in Patterns /\ subscriptions[i].handlers \in Seq(Subscribers)
      /\ subscriptions[i] = [pattern |-> subscriptions[i].pattern, handlers |-> subscriptions[i].handlers]
      /\ Alone(subscriptions[i].handlers)
  BY <1>2, EntriesTyped
<1>4. others \in Seq(Subscribers) /\ Alone(others)
  BY <1>3, ExcludedStay
<1> HIDE DEF others, Sub
<1>5. CASE others = <<>>
  <2>1. subscriptions' = RemoveAt(subscriptions, i)
    BY <1>1, <1>5 DEF others
  <2>2. /\ subscriptions' \in Seq(Sub) /\ Len(subscriptions) \in Nat /\ Len(subscriptions) > 0
        /\ DOMAIN subscriptions' = 1..(Len(subscriptions) - 1)
        /\ \A k \in 1..(Len(subscriptions) - 1) : (k < i => subscriptions'[k] = subscriptions[k])
                                              /\ (~(k < i) => subscriptions'[k] = subscriptions[k + 1])
    BY <1>0, <1>2, <2>1, RemovedPlaces
  <2>3. DOMAIN subscriptions = 1..Len(subscriptions) /\ i \in Nat
    BY <1>0, <1>2
  <2>4. ASSUME NEW k \in DOMAIN subscriptions'
        PROVE  \E j \in DOMAIN subscriptions : /\ subscriptions'[k] = subscriptions[j]
                                               /\ (k < i => j = k) /\ (~(k < i) => j = k + 1)
    <3>1. k \in DOMAIN subscriptions /\ k + 1 \in DOMAIN subscriptions
      BY <2>2, <2>3
    <3> QED BY <2>2, <3>1
  <2>5. ASSUME NEW k \in DOMAIN subscriptions', NEW j \in DOMAIN subscriptions',
               subscriptions'[k].pattern = subscriptions'[j].pattern
        PROVE  k = j
    <3>1. PICK a \in DOMAIN subscriptions : subscriptions'[k] = subscriptions[a] /\ (k < i => a = k) /\ (~(k < i) => a = k + 1)
      BY <2>4
    <3>2. PICK b \in DOMAIN subscriptions : subscriptions'[j] = subscriptions[b] /\ (j < i => b = j) /\ (~(j < i) => b = j + 1)
      BY <2>4
    <3>3. a = b
      BY <2>5, <3>1, <3>2 DEF SubscriptionsFit
    <3> QED BY <2>2, <2>3, <3>1, <3>2, <3>3
  <2>6. \A k \in DOMAIN subscriptions' : Alone(subscriptions'[k].handlers)
    BY <2>4 DEF SubscriptionsFit
  <2> QED BY <2>2, <2>5, <2>6 DEF SubscriptionsFit, Sub
<1>6. CASE others # <<>>
  <2> DEFINE e == [pattern |-> subscriptions[i].pattern, handlers |-> others]
  <2>1. subscriptions' = [subscriptions EXCEPT ![i] = e]
    <3>1. subscriptions' = [subscriptions EXCEPT ![i] = [subscriptions[i] EXCEPT !.handlers = others]]
      BY <1>1, <1>6 DEF others
    <3>2. [subscriptions[i] EXCEPT !.handlers = others] = e
      BY <1>3
    <3> QED BY <3>1, <3>2
  <2>2. e \in Sub /\ e.pattern = subscriptions[i].pattern /\ e.handlers = others
    BY <1>3, <1>4 DEF Sub
  <2> HIDE DEF e
  <2>3. /\ subscriptions' \in Seq(Sub) /\ DOMAIN subscriptions' = DOMAIN subscriptions /\ subscriptions'[i] = e
        /\ \A k \in DOMAIN subscriptions : k # i => subscriptions'[k] = subscriptions[k]
    BY <1>0, <1>2, <2>1, <2>2, ChangedStay
  <2>4. \A k \in DOMAIN subscriptions : subscriptions'[k].pattern = subscriptions[k].pattern
    BY <2>2, <2>3
  <2>5. \A k, j \in DOMAIN subscriptions' : subscriptions'[k].pattern = subscriptions'[j].pattern => k = j
    BY <2>3, <2>4 DEF SubscriptionsFit
  <2>6. \A k \in DOMAIN subscriptions' : Alone(subscriptions'[k].handlers)
    BY <1>4, <2>2, <2>3 DEF SubscriptionsFit
  <2> QED BY <2>3, <2>5, <2>6 DEF SubscriptionsFit, Sub
<1> QED BY <1>5, <1>6

-----------------------------------------------------------------------------
(***************************************************************************)
(* What was published and who was told.  A message that is still being     *)
(* delivered has one delivery, whose places are those of subscribers that  *)
(* were not told yet, no two of one subscriber.                            *)
(***************************************************************************)
ToldOf(m, s) == \E k \in DOMAIN delivered : delivered[k] = [message |-> m, to |-> s]
Awaits(d, s) == \E l \in d.left : l.to = s
Due(i) ==
  /\ deliveries[i].message \in DOMAIN published
  /\ \A l \in deliveries[i].left :
       /\ l.to \in expected[deliveries[i].message] /\ ~ToldOf(deliveries[i].message, l.to)
       /\ \A o \in deliveries[i].left : o.to = l.to => o = l

RecentFits ==
  /\ recent \in Seq(Nat) /\ Len(recent) <= MaxBuffer
  /\ \A i \in DOMAIN recent : recent[i] = (Len(published) - Len(recent)) + i

TopicInv ==
  /\ SubscriptionsFit /\ RecentFits
  /\ published \in Seq(Topics) /\ expected \in Seq(SUBSET Pairs) /\ DOMAIN expected = DOMAIN published
  /\ delivered \in Seq([message : Nat, to : Pairs]) /\ Alone(delivered)
  /\ \A k \in DOMAIN delivered : /\ delivered[k].message \in DOMAIN published
                                 /\ delivered[k].to \in expected[delivered[k].message]
  /\ deliveries \in Seq([message : Nat, left : SUBSET Left, calling : BOOLEAN])
  /\ \A i, j \in DOMAIN deliveries : deliveries[i].message = deliveries[j].message => i = j
  /\ \A i \in DOMAIN deliveries : Due(i)
  /\ \A m \in DOMAIN published : \A s \in expected[m] :
       \/ ToldOf(m, s)
       \/ \E i \in DOMAIN deliveries : deliveries[i].message = m /\ Awaits(deliveries[i], s)

LEMMA TopicsInitially == TopicInit => TopicInv
<1> SUFFICES ASSUME TopicInit PROVE TopicInv
  OBVIOUS
<1>1. /\ subscriptions = <<>> /\ recent = <<>> /\ deliveries = <<>>
      /\ published = <<>> /\ expected = <<>> /\ delivered = <<>>
  BY DEF TopicInit
<1>2. ASSUME NEW S PROVE <<>> \in Seq(S) /\ DOMAIN <<>> = {} /\ Len(<<>>) = 0
  OBVIOUS
<1>3. Len(recent) <= MaxBuffer
  BY <1>1, CoordinationAssumption
<1>4. SubscriptionsFit
  BY <1>1, <1>2 DEF SubscriptionsFit
<1>5. RecentFits
  BY <1>1, <1>2, <1>3 DEF RecentFits
<1> QED BY <1>1, <1>2, <1>4, <1>5 DEF TopicInv, Alone

LEMMA PublishKeeps ==
  ASSUME TopicInv, NEW topic \in Topics, Publish(topic)
  PROVE  TopicInv'
<1> DEFINE m == Len(published) + 1
           d == [message |-> m, left |-> Recipients(topic), calling |-> FALSE]
           toTell == {s \in Subscribed : Covers(s.pattern, topic)}
           Rec == [message : Nat, left : SUBSET Left, calling : BOOLEAN]
<1>1. /\ published' = Append(published, topic) /\ recent' = Newest(Append(recent, m), MaxBuffer)
      /\ deliveries' = <<d>> \o deliveries /\ expected' = Append(expected, toTell)
      /\ UNCHANGED <<subscriptions, delivered>>
  BY DEF Publish
<1>2. SubscriptionsFit'
  BY <1>1 DEF TopicInv, SubscriptionsFit
<1>3. /\ \A l \in Recipients(topic) : l \in Left /\ l.to \in toTell
      /\ \A l, o \in Recipients(topic) : l.to = o.to => l = o
      /\ \A s \in toTell : \E l \in Recipients(topic) : l.to = s
  BY RecipientsTold DEF TopicInv
<1>4. /\ published' \in Seq(Topics) /\ Len(published') = Len(published) + 1 /\ Len(published) \in Nat
      /\ DOMAIN published = 1..Len(published) /\ DOMAIN published' = 1..(Len(published) + 1)
  BY <1>1, AppendedStay DEF TopicInv
<1>5. toTell \in SUBSET Pairs
  BY SubscribedTyped DEF TopicInv
<1>6. /\ m \in Nat /\ m \in DOMAIN published' /\ m \notin DOMAIN published /\ DOMAIN published \subseteq DOMAIN published'
      /\ \A k \in DOMAIN published' : k \in DOMAIN published \/ k = m
  BY <1>4
<1>7. d \in Rec /\ d.message = m /\ d.left = Recipients(topic)
  BY <1>3, <1>6
<1> HIDE DEF toTell, d, m, Rec
<1>8. /\ expected' \in Seq(SUBSET Pairs) /\ DOMAIN expected' = DOMAIN published'
      /\ \A k \in DOMAIN published : expected'[k] = expected[k]
      /\ expected'[m] = toTell
  <2>1. Len(expected) = Len(published)
    BY <1>4 DEF TopicInv
  <2>2. /\ Append(expected, toTell) \in Seq(SUBSET Pairs) /\ Append(expected, toTell)[Len(expected) + 1] = toTell
        /\ \A k \in DOMAIN expected : Append(expected, toTell)[k] = expected[k]
        /\ DOMAIN Append(expected, toTell) = 1..(Len(expected) + 1)
    BY <1>5, AppendedStay DEF TopicInv
  <2> QED BY <1>1, <1>4, <2>1, <2>2 DEF TopicInv, m
<1>9. /\ deliveries' \in Seq(Rec) /\ deliveries'[1] = d /\ 1 \in DOMAIN deliveries'
      /\ \A k \in DOMAIN deliveries : k + 1 \in DOMAIN deliveries' /\ deliveries'[k + 1] = deliveries[k]
      /\ \A k \in DOMAIN deliveries' : k = 1 \/ \E j \in DOMAIN deliveries : k = j + 1
  <2>1. deliveries \in Seq(Rec)
    BY DEF TopicInv, Rec
  <2> QED BY <1>1, <1>7, <2>1, PushedStay
<1>10. \A i \in DOMAIN deliveries : deliveries[i].message # m
  BY <1>6 DEF TopicInv, Due
<1>11. ASSUME NEW i \in DOMAIN deliveries', NEW j \in DOMAIN deliveries', deliveries'[i].message = deliveries'[j].message
       PROVE  i = j
  <2>1. CASE i = 1 \/ j = 1
    BY <1>7, <1>9, <1>10, <1>11, <2>1
  <2>2. CASE i # 1 /\ j # 1
    <3>1. PICK a \in DOMAIN deliveries : i = a + 1
      BY <1>9, <2>2
    <3>2. PICK b \in DOMAIN deliveries : j = b + 1
      BY <1>9, <2>2
    <3>3. deliveries[a].message = deliveries[b].message
      BY <1>9, <1>11, <3>1, <3>2
    <3> QED BY <3>1, <3>2, <3>3 DEF TopicInv
  <2> QED BY <2>1, <2>2
<1>12. \A n, s : ToldOf(n, s)' <=> ToldOf(n, s)
  BY <1>1 DEF ToldOf
<1>13. \A s : ~ToldOf(m, s)
  BY <1>6 DEF ToldOf, TopicInv
<1>14. ASSUME NEW i \in DOMAIN deliveries' PROVE Due(i)'
  <2>1. CASE i = 1
    BY <1>3, <1>6, <1>7, <1>8, <1>9, <1>12, <1>13, <2>1 DEF Due
  <2>2. CASE i # 1
    <3>1. PICK a \in DOMAIN deliveries : i = a + 1
      BY <1>9, <2>2
    <3>2. deliveries'[i] = deliveries[a] /\ Due(a)
      BY <1>9, <3>1 DEF TopicInv
    <3> QED BY <1>6, <1>8, <1>12, <3>2 DEF Due
  <2> QED BY <2>1, <2>2
<1>15. ASSUME NEW n \in DOMAIN published', NEW s \in expected'[n]
       PROVE  \/ ToldOf(n, s)'
              \/ \E i \in DOMAIN deliveries' : deliveries'[i].message = n /\ Awaits(deliveries'[i], s)
  <2>1. CASE n = m
    BY <1>3, <1>7, <1>8, <1>9, <1>15, <2>1 DEF Awaits
  <2>2. CASE n # m
    <3>1. n \in DOMAIN published /\ s \in expected[n]
      BY <1>6, <1>8, <1>15, <2>2
    <3>2. \/ ToldOf(n, s)
          \/ \E i \in DOMAIN deliveries : deliveries[i].message = n /\ Awaits(deliveries[i], s)
      BY <3>1 DEF TopicInv
    <3> QED BY <1>9, <1>12, <3>2 DEF Awaits
  <2> QED BY <2>1, <2>2
<1>16. \A k \in DOMAIN delivered' : /\ delivered'[k].message \in DOMAIN published'
                                   /\ delivered'[k].to \in expected'[delivered'[k].message]
  BY <1>1, <1>6, <1>8 DEF TopicInv
<1>17. RecentFits'
  <2> DEFINE app == Append(recent, m)
             new == Newest(app, MaxBuffer)
  <2>1. recent \in Seq(Nat) /\ Len(recent) \in Nat /\ MaxBuffer \in Nat /\ m = Len(published) + 1
    BY CoordinationAssumption DEF TopicInv, RecentFits, m
  <2>2. /\ app \in Seq(Nat) /\ Len(app) = Len(recent) + 1 /\ app[Len(recent) + 1] = m
        /\ \A k \in 1..Len(recent) : app[k] = (Len(published) - Len(recent)) + k
    BY <1>6, <2>1, AppendedStay DEF TopicInv, RecentFits
  <2> HIDE DEF app
  <2>3. \A k \in 1..Len(app) : app[k] = (Len(published) - Len(recent)) + k
    <3> TAKE k \in 1..Len(app)
    <3>1. k \in 1..Len(recent) \/ k = Len(recent) + 1
      BY <2>1, <2>2
    <3>2. m = (Len(published) - Len(recent)) + (Len(recent) + 1)
      BY <1>4, <2>1
    <3> QED BY <2>2, <3>1, <3>2
  <2>4. /\ new \in Seq(Nat) /\ Len(new) \in Nat /\ Len(new) <= MaxBuffer /\ DOMAIN new = 1..Len(new)
        /\ \A i \in 1..Len(new) : new[i] = app[Len(app) - Len(new) + i] /\ Len(app) - Len(new) + i \in 1..Len(app)
    BY <2>1, <2>2, NewestPlaces
  <2> HIDE DEF new
  <2>5. ASSUME NEW i \in 1..Len(new) PROVE new[i] = (Len(published') - Len(new)) + i
    <3>1. new[i] = (Len(published) - Len(recent)) + (Len(app) - Len(new) + i)
      BY <2>3, <2>4
    <3>2. (Len(published) - Len(recent)) + (Len(app) - Len(new) + i) = (Len(published') - Len(new)) + i
      BY <1>4, <2>1, <2>2, <2>4
    <3> QED BY <3>1, <3>2
  <2>6. recent' = new
    BY <1>1 DEF new, app
  <2> QED BY <2>4, <2>5, <2>6 DEF RecentFits
<1>18. delivered' \in Seq([message : Nat, to : Pairs]) /\ Alone(delivered)'
  BY <1>1 DEF TopicInv, Alone
<1> QED BY <1>2, <1>4, <1>8, <1>9, <1>11, <1>14, <1>15, <1>16, <1>17, <1>18 DEF TopicInv, Rec

LEMMA DeliverKeeps ==
  ASSUME TopicInv, Deliver
  PROVE  TopicInv'
<1> DEFINE Rec == [message : Nat, left : SUBSET Left, calling : BOOLEAN]
           d == deliveries[1]
<1>1. PICK next \in Head(deliveries).left :
        /\ deliveries' = [deliveries EXCEPT ![1].left = @ \ {next}, ![1].calling = TRUE]
        /\ delivered' = Append(delivered, [message |-> Head(deliveries).message, to |-> next.to])
        /\ deliveries # <<>> /\ UNCHANGED <<subscriptions, recent, published, expected>>
  BY DEF Deliver
<1>2. deliveries \in Seq(Rec) /\ 1 \in DOMAIN deliveries /\ Head(deliveries) = d /\ d \in Rec
  <2> HIDE DEF Rec
  <2>1. deliveries \in Seq(Rec)
    BY DEF TopicInv, Rec
  <2> QED BY <1>1, <2>1
<1> DEFINE e == [d EXCEPT !.left = @ \ {next}, !.calling = TRUE]
           new == [message |-> d.message, to |-> next.to]
<1>3. /\ d.message \in Nat /\ d.left \subseteq Left /\ d = [message |-> d.message, left |-> d.left, calling |-> d.calling]
      /\ next \in d.left /\ next.to \in Pairs
  BY <1>1, <1>2 DEF Left
<1>4. deliveries' = [deliveries EXCEPT ![1] = e]
  <2>1. deliveries' = [deliveries EXCEPT ![1] = [d EXCEPT !.left = @ \ {next}, !.calling = TRUE]]
    BY <1>1, <1>2
  <2> QED BY <2>1
<1>5. e \in Rec /\ e.message = d.message /\ e.left = d.left \ {next}
  BY <1>2, <1>3
<1>6. new \in [message : Nat, to : Pairs] /\ new.message = d.message /\ new.to = next.to /\ delivered' = Append(delivered, new)
  BY <1>1, <1>2, <1>3
<1>7. /\ d.message \in DOMAIN published
      /\ \A l \in d.left : /\ l.to \in expected[d.message] /\ ~ToldOf(d.message, l.to)
                          /\ \A o \in d.left : o.to = l.to => o = l
  BY <1>2 DEF TopicInv, Due
<1> HIDE DEF e, d, new, Rec
<1>8. /\ deliveries' \in Seq(Rec) /\ DOMAIN deliveries' = DOMAIN deliveries /\ deliveries'[1] = e
      /\ \A k \in DOMAIN deliveries : k # 1 => deliveries'[k] = deliveries[k]
  BY <1>2, <1>4, <1>5, ChangedStay
<1>9. deliveries[1] = d
  BY DEF d
<1>10. new = [message |-> d.message, to |-> next.to] /\ ~ToldOf(d.message, next.to)
  BY <1>3, <1>7 DEF new
<1>11. new \notin ToSet(delivered)
  BY <1>10 DEF ToldOf, ToSet
<1>12. /\ delivered' \in Seq([message : Nat, to : Pairs]) /\ Alone(delivered') /\ ToSet(delivered') = ToSet(delivered) \cup {new}
  <2> DEFINE S == [message : Nat, to : Pairs]
  <2>1. delivered \in Seq(S) /\ new \in S /\ Alone(delivered) /\ delivered' = Append(delivered, new)
    BY <1>6 DEF TopicInv
  <2> HIDE DEF S
  <2>2. Append(delivered, new) \in Seq(S) /\ Alone(Append(delivered, new)) /\ ToSet(Append(delivered, new)) = ToSet(delivered) \cup {new}
    BY <1>11, <2>1, AppendedAlone
  <2> QED BY <2>1, <2>2 DEF S
<1>13. ASSUME NEW m, NEW s PROVE ToldOf(m, s)' <=> ToldOf(m, s) \/ (m = d.message /\ s = next.to)
  <2>1. ToldOf(m, s) <=> [message |-> m, to |-> s] \in ToSet(delivered)
    BY DEF ToldOf, ToSet
  <2>2. ToldOf(m, s)' <=> [message |-> m, to |-> s] \in ToSet(delivered')
    BY DEF ToldOf, ToSet
  <2>3. [message |-> m, to |-> s] = new <=> m = d.message /\ s = next.to
    BY <1>10
  <2> QED BY <1>12, <2>1, <2>2, <2>3
<1>14. ASSUME NEW k \in DOMAIN delivered'
       PROVE  delivered'[k].message \in DOMAIN published' /\ delivered'[k].to \in expected'[delivered'[k].message]
  <2>1. delivered'[k] \in ToSet(delivered')
    BY DEF ToSet
  <2>2. CASE delivered'[k] = new
    BY <1>1, <1>3, <1>6, <1>7, <2>2
  <2>3. CASE delivered'[k] # new
    <3>1. delivered'[k] \in ToSet(delivered)
      BY <1>12, <2>1, <2>3
    <3>2. PICK j \in DOMAIN delivered : delivered'[k] = delivered[j]
      BY <3>1 DEF ToSet
    <3> QED BY <1>1, <3>2 DEF TopicInv
  <2> QED BY <2>2, <2>3
<1>15. \A i, j \in DOMAIN deliveries' : deliveries'[i].message = deliveries'[j].message => i = j
  <2>1. \A i \in DOMAIN deliveries : deliveries'[i].message = deliveries[i].message
    BY <1>5, <1>8, <1>9
  <2> QED BY <1>8, <2>1 DEF TopicInv
<1>16. ASSUME NEW i \in DOMAIN deliveries' PROVE Due(i)'
  <2>1. CASE i = 1
    <3>1. \A l \in e.left : l.to # next.to /\ ~ToldOf(d.message, l.to)
      BY <1>3, <1>5, <1>7
    <3> QED BY <1>1, <1>5, <1>7, <1>8, <1>13, <2>1, <3>1 DEF Due
  <2>2. CASE i # 1
    <3>1. deliveries'[i] = deliveries[i] /\ Due(i) /\ deliveries[i].message # d.message
      BY <1>2, <1>8, <1>9, <2>2 DEF TopicInv
    <3> QED BY <1>1, <1>13, <3>1 DEF Due
  <2> QED BY <2>1, <2>2
<1>17. ASSUME NEW m \in DOMAIN published', NEW s \in expected'[m]
       PROVE  \/ ToldOf(m, s)'
              \/ \E i \in DOMAIN deliveries' : deliveries'[i].message = m /\ Awaits(deliveries'[i], s)
  <2>1. CASE ToldOf(m, s)
    BY <1>13, <2>1
  <2>2. CASE ~ToldOf(m, s)
    <3>1. m \in DOMAIN published /\ s \in expected[m]
      BY <1>1, <1>17
    <3>2. PICK i \in DOMAIN deliveries : deliveries[i].message = m /\ Awaits(deliveries[i], s)
      BY <2>2, <3>1 DEF TopicInv
    <3>3. CASE i = 1 /\ s = next.to
      BY <1>9, <1>13, <3>2, <3>3
    <3>4. CASE i = 1 /\ s # next.to
      BY <1>5, <1>8, <1>9, <3>2, <3>4 DEF Awaits
    <3>5. CASE i # 1
      BY <1>8, <3>2, <3>5
    <3> QED BY <3>3, <3>4, <3>5
  <2> QED BY <2>1, <2>2
<1>18. SubscriptionsFit' /\ RecentFits'
  BY <1>1 DEF TopicInv, SubscriptionsFit, RecentFits
<1>19. published' \in Seq(Topics) /\ expected' \in Seq(SUBSET Pairs) /\ DOMAIN expected' = DOMAIN published'
  BY <1>1 DEF TopicInv
<1>20. Alone(delivered)'
  BY <1>12 DEF Alone
<1> QED BY <1>8, <1>12, <1>14, <1>15, <1>16, <1>17, <1>18, <1>19, <1>20 DEF TopicInv, Rec

(* The deliveries go on, or the one on top ends with nobody left.          *)
SameDelivery(i, k) ==
  deliveries'[i].message = deliveries[k].message /\ deliveries'[i].left = deliveries[k].left
DeliveriesGoOn ==
  /\ deliveries' \in Seq([message : Nat, left : SUBSET Left, calling : BOOLEAN])
  /\ \A i \in DOMAIN deliveries' : \E k \in DOMAIN deliveries : SameDelivery(i, k)
  /\ \A i, j \in DOMAIN deliveries' : \A k \in DOMAIN deliveries : SameDelivery(i, k) /\ SameDelivery(j, k) => i = j
  /\ \A k \in DOMAIN deliveries : deliveries[k].left = {} \/ \E i \in DOMAIN deliveries' : SameDelivery(i, k)

LEMMA DeliveriesStay ==
  ASSUME TopicInv, UNCHANGED <<published, expected, delivered>>,
         SubscriptionsFit', RecentFits', DeliveriesGoOn
  PROVE  TopicInv'
<1>1. \A m, s : ToldOf(m, s)' <=> ToldOf(m, s)
  BY DEF ToldOf
<1>2. \A i \in DOMAIN deliveries' : Due(i)'
  <2> TAKE i \in DOMAIN deliveries'
  <2>1. PICK k \in DOMAIN deliveries : SameDelivery(i, k)
    BY DEF DeliveriesGoOn
  <2>2. Due(k)
    BY DEF TopicInv
  <2> QED BY <1>1, <2>1, <2>2 DEF Due, SameDelivery
<1>3. ASSUME NEW i \in DOMAIN deliveries', NEW j \in DOMAIN deliveries', deliveries'[i].message = deliveries'[j].message
      PROVE  i = j
  <2>1. PICK a \in DOMAIN deliveries : SameDelivery(i, a)
    BY DEF DeliveriesGoOn
  <2>2. PICK b \in DOMAIN deliveries : SameDelivery(j, b)
    BY DEF DeliveriesGoOn
  <2>3. deliveries[a].message = deliveries[b].message
    BY <1>3, <2>1, <2>2 DEF SameDelivery
  <2>4. a = b
    BY <2>3 DEF TopicInv
  <2> QED BY <2>1, <2>2, <2>4 DEF DeliveriesGoOn
<1>4. ASSUME NEW m \in DOMAIN published', NEW s \in expected'[m]
      PROVE  \/ ToldOf(m, s)'
             \/ \E i \in DOMAIN deliveries' : deliveries'[i].message = m /\ Awaits(deliveries'[i], s)
  <2>1. m \in DOMAIN published /\ s \in expected[m]
    BY <1>4
  <2>2. CASE ToldOf(m, s)
    BY <1>1, <2>2
  <2>3. CASE ~ToldOf(m, s)
    <3>1. PICK k \in DOMAIN deliveries : deliveries[k].message = m /\ Awaits(deliveries[k], s)
      BY <2>1, <2>3 DEF TopicInv
    <3>2. PICK i \in DOMAIN deliveries' : SameDelivery(i, k)
      BY <3>1 DEF Awaits, DeliveriesGoOn
    <3> QED BY <3>1, <3>2 DEF Awaits, SameDelivery
  <2> QED BY <2>2, <2>3
<1>5. /\ published' \in Seq(Topics) /\ expected' \in Seq(SUBSET Pairs) /\ DOMAIN expected' = DOMAIN published'
      /\ delivered' \in Seq([message : Nat, to : Pairs])
      /\ deliveries' \in Seq([message : Nat, left : SUBSET Left, calling : BOOLEAN])
  BY DEF TopicInv, DeliveriesGoOn
<1>6. Alone(delivered)'
  BY DEF TopicInv, Alone
<1>7. \A k \in DOMAIN delivered' : /\ delivered'[k].message \in DOMAIN published'
                                  /\ delivered'[k].to \in expected'[delivered'[k].message]
  BY DEF TopicInv
<1> QED BY <1>2, <1>3, <1>4, <1>5, <1>6, <1>7 DEF TopicInv

LEMMA TopicsStep == TopicInv /\ [TopicNext]_topicVars => TopicInv'
<1> SUFFICES ASSUME TopicInv, [TopicNext]_topicVars PROVE TopicInv'
  OBVIOUS
<1> DEFINE Rec == [message : Nat, left : SUBSET Left, calling : BOOLEAN]
<1>0. deliveries \in Seq(Rec)
  BY DEF TopicInv
<1> HIDE DEF Rec
<1>1. ASSUME UNCHANGED <<published, expected, delivered, deliveries>>, SubscriptionsFit', RecentFits'
      PROVE  TopicInv'
  <2>1. \A i \in DOMAIN deliveries' : i \in DOMAIN deliveries /\ SameDelivery(i, i)
    BY <1>1 DEF SameDelivery
  <2>2. \A i, k \in DOMAIN deliveries : SameDelivery(i, k) => i = k
    BY <1>1 DEF SameDelivery, TopicInv
  <2>3. DeliveriesGoOn
    BY <1>0, <1>1, <2>1, <2>2 DEF DeliveriesGoOn, Rec
  <2> QED BY <1>1, <2>3, DeliveriesStay
<1>2. ASSUME NEW p \in Patterns, NEW h \in Subscribers, Subscribe(p, h) \/ Unsubscribe(p, h) PROVE TopicInv'
  <2>1. UNCHANGED <<recent, deliveries, published, expected, delivered>>
    BY <1>2 DEF Subscribe, Unsubscribe
  <2>2. SubscriptionsFit'
    BY <1>2, SubscribeFits, UnsubscribeFits DEF TopicInv
  <2>3. RecentFits'
    BY <2>1 DEF TopicInv, RecentFits
  <2> QED BY <1>1, <2>1, <2>2, <2>3
<1>3. ASSUME SubscriberReturns PROVE TopicInv'
  <2> DEFINE e == [deliveries[1] EXCEPT !.calling = FALSE]
  <2>1. 1 \in DOMAIN deliveries /\ deliveries' = [deliveries EXCEPT ![1] = e]
        /\ UNCHANGED <<subscriptions, recent, published, expected, delivered>>
    BY <1>0, <1>3 DEF SubscriberReturns
  <2>2. e \in Rec /\ e.message = deliveries[1].message /\ e.left = deliveries[1].left
    <3>1. deliveries[1] \in Rec
      BY <1>0, <2>1
    <3> QED BY <3>1 DEF Rec
  <2> HIDE DEF e
  <2>3. /\ deliveries' \in Seq(Rec) /\ DOMAIN deliveries' = DOMAIN deliveries /\ deliveries'[1] = e
        /\ \A k \in DOMAIN deliveries : k # 1 => deliveries'[k] = deliveries[k]
    BY <1>0, <2>1, <2>2, ChangedStay
  <2>4. \A i \in DOMAIN deliveries' : i \in DOMAIN deliveries /\ SameDelivery(i, i)
    BY <2>2, <2>3 DEF SameDelivery
  <2>5. \A i, k \in DOMAIN deliveries : SameDelivery(i, k) => i = k
    BY <2>3, <2>4 DEF SameDelivery, TopicInv
  <2>6. SubscriptionsFit' /\ RecentFits'
    BY <2>1 DEF TopicInv, SubscriptionsFit, RecentFits
  <2>7. DeliveriesGoOn
    BY <2>3, <2>4, <2>5 DEF DeliveriesGoOn, Rec
  <2> QED BY <2>1, <2>6, <2>7, DeliveriesStay
<1>4. ASSUME PublishReturns PROVE TopicInv'
  <2>1. deliveries # <<>> /\ Head(deliveries).left = {} /\ deliveries' = Tail(deliveries)
        /\ UNCHANGED <<subscriptions, recent, published, expected, delivered>>
    BY <1>4 DEF PublishReturns
  <2>2. /\ Tail(deliveries) \in Seq(Rec) /\ Head(deliveries) = deliveries[1]
        /\ \A k \in DOMAIN Tail(deliveries) : k + 1 \in DOMAIN deliveries /\ k + 1 # 1 /\ Tail(deliveries)[k] = deliveries[k + 1]
        /\ \A k \in DOMAIN deliveries : k = 1 \/ \E j \in DOMAIN Tail(deliveries) : k = j + 1 /\ Tail(deliveries)[j] = deliveries[k]
    BY <1>0, <2>1, TailStays
  <2>3. \A i \in DOMAIN deliveries' : i \in Int /\ i + 1 \in DOMAIN deliveries /\ SameDelivery(i, i + 1)
    BY <2>1, <2>2 DEF SameDelivery
  <2>4. \A k \in DOMAIN deliveries : deliveries[k].left = {} \/ \E i \in DOMAIN deliveries' : SameDelivery(i, k)
    BY <2>1, <2>2 DEF SameDelivery
  <2>5. ASSUME NEW i \in DOMAIN deliveries', NEW j \in DOMAIN deliveries', NEW k \in DOMAIN deliveries,
               SameDelivery(i, k), SameDelivery(j, k)
        PROVE  i = j
    <3>1. deliveries[i + 1].message = deliveries[j + 1].message
      BY <2>3, <2>5 DEF SameDelivery
    <3>2. i + 1 = j + 1
      BY <2>3, <3>1 DEF TopicInv
    <3> QED BY <2>3, <3>2
  <2>6. SubscriptionsFit' /\ RecentFits'
    BY <2>1 DEF TopicInv, SubscriptionsFit, RecentFits
  <2>7. DeliveriesGoOn
    BY <2>1, <2>2, <2>3, <2>4, <2>5 DEF DeliveriesGoOn, Rec
  <2> QED BY <2>1, <2>6, <2>7, DeliveriesStay
<1>5. ASSUME Flush PROVE TopicInv'
  <2>1. recent' = <<>> /\ UNCHANGED <<subscriptions, deliveries, published, expected, delivered>>
    BY <1>5 DEF Flush
  <2>2. SubscriptionsFit'
    BY <2>1 DEF TopicInv, SubscriptionsFit
  <2>3. <<>> \in Seq(Nat) /\ Len(<<>>) <= MaxBuffer /\ DOMAIN <<>> = {}
    BY CoordinationAssumption
  <2>4. RecentFits'
    BY <2>1, <2>3 DEF RecentFits
  <2> QED BY <1>1, <2>1, <2>2, <2>4
<1>6. ASSUME DisposeTopics PROVE TopicInv'
  <2>1. recent' = <<>> /\ subscriptions' = <<>> /\ UNCHANGED <<deliveries, published, expected, delivered>>
    BY <1>6 DEF DisposeTopics
  <2>2. <<>> \in Seq(Nat) /\ Len(<<>>) <= MaxBuffer /\ DOMAIN <<>> = {}
    BY CoordinationAssumption
  <2>3. SubscriptionsFit'
    <3>1. <<>> \in Seq([pattern : Patterns, handlers : Seq(Subscribers)])
      OBVIOUS
    <3> QED BY <2>1, <2>2, <3>1 DEF SubscriptionsFit
  <2>4. RecentFits'
    BY <2>1, <2>2 DEF RecentFits
  <2> QED BY <1>1, <2>1, <2>3, <2>4
<1>7. CASE UNCHANGED topicVars
  <2>1. UNCHANGED <<subscriptions, recent, deliveries, published, expected, delivered>>
    BY <1>7 DEF topicVars
  <2>2. SubscriptionsFit' /\ RecentFits'
    BY <2>1 DEF TopicInv, SubscriptionsFit, RecentFits
  <2> QED BY <1>1, <2>1, <2>2
<1> QED
  BY <1>2, <1>3, <1>4, <1>5, <1>6, <1>7, PublishKeeps, DeliverKeeps DEF TopicNext

(* A publication that is over has told everyone once.                      *)
LEMMA TopicsHold ==
  ASSUME TopicInv
  PROVE  /\ \A m \in DOMAIN published :
              (\A i \in DOMAIN deliveries : deliveries[i].message # m) =>
                /\ \A s \in expected[m] :
                     Cardinality({k \in DOMAIN delivered : delivered[k] = [message |-> m, to |-> s]}) = 1
                /\ \A k \in DOMAIN delivered : delivered[k].message = m => delivered[k].to \in expected[m]
         /\ recent # <<>> => recent = [i \in DOMAIN recent |-> Len(published) - Len(recent) + i]
         /\ Len(recent) <= MaxBuffer
<1>1. ASSUME NEW m \in DOMAIN published, \A i \in DOMAIN deliveries : deliveries[i].message # m,
             NEW s \in expected[m]
      PROVE  Cardinality({k \in DOMAIN delivered : delivered[k] = [message |-> m, to |-> s]}) = 1
  <2> DEFINE them == {k \in DOMAIN delivered : delivered[k] = [message |-> m, to |-> s]}
  <2>1. ToldOf(m, s)
    BY <1>1 DEF TopicInv
  <2>2. PICK k \in DOMAIN delivered : delivered[k] = [message |-> m, to |-> s]
    BY <2>1 DEF ToldOf
  <2>3. them = {k}
    BY <2>2 DEF TopicInv, Alone
  <2> QED BY <2>3, FS_Singleton
<1>2. ASSUME NEW m \in DOMAIN published, NEW k \in DOMAIN delivered, delivered[k].message = m
      PROVE  delivered[k].to \in expected[m]
  BY <1>2 DEF TopicInv
<1>3. recent = [i \in DOMAIN recent |-> Len(published) - Len(recent) + i]
  <2>1. recent = [i \in DOMAIN recent |-> recent[i]]
    BY DEF TopicInv, RecentFits
  <2>2. \A i \in DOMAIN recent : recent[i] = Len(published) - Len(recent) + i
    BY DEF TopicInv, RecentFits
  <2> QED BY <2>1, <2>2, Zenon
<1>4. Len(recent) <= MaxBuffer
  BY DEF TopicInv, RecentFits
<1> QED BY <1>1, <1>2, <1>3, <1>4

-----------------------------------------------------------------------------
(***************************************************************************)
(* The event bus.  A listener of once() or waitFor() that was not called   *)
(* yet is in the live set of one type, or in the set that removeAll() left *)
(* to the emission at the bottom; calling it takes it out of either.       *)
(***************************************************************************)
Everyone == Listeners \cup OnceOnly
Emission == [type : Types, phase : {"type", "all"}, live : BOOLEAN, held : Seq(Everyone),
             seen : SUBSET (Everyone \cup Observers), calling : BOOLEAN]

BusTyped ==
  /\ handlers \in [Types -> {NoSet} \cup Seq(Everyone)]
  /\ \A t \in Types : Alone(Members(t))
  /\ observers \in Seq(Observers) /\ Alone(observers)
  /\ emissions \in Seq(Emission)
  /\ heard \in [Everyone -> Nat]
  /\ waiting \in [Waiters -> {"idle", "pending", "answered", "failed"}]
  /\ clearedWithin \in BOOLEAN

IsIn(t, l) == l \in ToSet(Members(t))
HeldAt(i, l) ==
  /\ emissions[i].phase = "type" /\ ~emissions[i].live
  /\ l \in ToSet(emissions[i].held) /\ l \notin emissions[i].seen
Listens(l) == \E t \in Types : IsIn(t, l)
IsHeld(l) == \E i \in DOMAIN emissions : HeldAt(i, l)
IsKept(l) == \E i \in DOMAIN emissions : l \in ToSet(emissions[i].held)
IsUsed(l) == (l \in Onces => l \in onceUsed) /\ (l \in Waiters => waiting[l] # "idle")

BottomOnly == \A i \in DOMAIN emissions : emissions[i].held # <<>> => i = Len(emissions)
KnownOnce(l) ==
  /\ \A t, u \in Types : IsIn(t, l) /\ IsIn(u, l) => t = u
  /\ Listens(l) \/ IsKept(l) \/ heard[l] > 0 => IsUsed(l)
HeardOnce(l) ==
  /\ heard[l] <= 1 /\ ~(Listens(l) /\ IsHeld(l))
  /\ heard[l] > 0 => ~Listens(l) /\ ~IsHeld(l)

BusInv ==
  /\ BusTyped
  /\ \A l \in OnceOnly : KnownOnce(l)
  /\ ~clearedWithin => BottomOnly /\ \A l \in OnceOnly : HeardOnce(l)

LEMMA OncesApart ==
  /\ OnceOnly \cap Observers = {} /\ OnceOnly \cap Listeners = {} /\ Onces \cap Waiters = {}
  /\ OnceOnly \subseteq Everyone /\ Onces \subseteq OnceOnly /\ Waiters \subseteq OnceOnly
  /\ OnceOnly = Onces \cup Waiters
BY CoordinationAssumption DEF Everyone, OnceOnly

LEMMA HeldIsKept == \A l : IsHeld(l) => IsKept(l)
BY DEF IsHeld, IsKept, HeldAt

LEMMA MembersTyped ==
  ASSUME BusTyped, NEW t \in Types
  PROVE  Members(t) \in Seq(Everyone) /\ Alone(Members(t)) /\ (handlers[t] # NoSet => Members(t) = handlers[t])
BY DEF BusTyped, Members

LEMMA BusInitially == BusInit => BusInv
<1> SUFFICES ASSUME BusInit PROVE BusInv
  OBVIOUS
<1>1. /\ handlers = [t \in Types |-> NoSet] /\ observers = <<>> /\ emissions = <<>>
      /\ waiting = [w \in Waiters |-> "idle"] /\ heard = [l \in Everyone |-> 0]
      /\ clearedWithin = FALSE
  BY DEF BusInit, Everyone
<1>2. <<>> \in Seq(Observers) /\ <<>> \in Seq(Emission) /\ DOMAIN <<>> = {} /\ Alone(<<>>) /\ ToSet(<<>>) = {}
  BY DEF Alone, ToSet
<1>3. \A t \in Types : Members(t) = <<>>
  BY <1>1 DEF Members
<1>4. BusTyped
  BY <1>1, <1>2, <1>3 DEF BusTyped
<1>5. \A l \in OnceOnly : heard[l] = 0 /\ ~Listens(l) /\ ~IsHeld(l) /\ ~IsKept(l)
  BY <1>1, <1>2, <1>3, OncesApart DEF Listens, IsIn, IsHeld, IsKept
<1>6. BottomOnly
  BY <1>1, <1>2 DEF BottomOnly
<1> QED BY <1>2, <1>3, <1>4, <1>5, <1>6 DEF BusInv, KnownOnce, HeardOnce, IsIn

(* Fewer listeners, and none that is held comes back.                      *)
FewerListen ==
  /\ handlers' \in [Types -> {NoSet} \cup Seq(Everyone)]
  /\ \A t \in Types : Alone(Members(t))' /\ \A l : IsIn(t, l)' => IsIn(t, l)
FewerAreHeld ==
  /\ emissions' \in Seq(Emission)
  /\ \A l : IsKept(l)' => IsKept(l)
  /\ \A l \in OnceOnly : IsHeld(l)' => IsHeld(l)
  /\ ~clearedWithin /\ BottomOnly => BottomOnly'

LEMMA BusGoesOn ==
  ASSUME BusInv, FewerListen, FewerAreHeld, UNCHANGED <<heard, onceUsed, clearedWithin>>,
         waiting' \in [Waiters -> {"idle", "pending", "answered", "failed"}],
         \A w \in Waiters : waiting[w] # "idle" => waiting'[w] # "idle",
         observers' \in Seq(Observers), Alone(observers)'
  PROVE  BusInv'
<1>1. BusTyped'
  BY DEF BusInv, BusTyped, FewerListen, FewerAreHeld
<1>2. \A l : Listens(l)' => Listens(l)
  BY DEF Listens, FewerListen
<1>3. ASSUME NEW l \in OnceOnly PROVE KnownOnce(l)'
  <2>1. \A t, u \in Types : IsIn(t, l)' /\ IsIn(u, l)' => t = u
    BY DEF FewerListen, BusInv, KnownOnce
  <2>2. IsUsed(l) => IsUsed(l)'
    BY DEF IsUsed
  <2>3. KnownOnce(l)
    BY DEF BusInv
  <2> QED BY <1>2, <2>1, <2>2, <2>3 DEF FewerAreHeld, KnownOnce
<1>4. ASSUME NEW l \in OnceOnly, ~clearedWithin PROVE HeardOnce(l)'
  BY <1>2, <1>4 DEF BusInv, HeardOnce, FewerAreHeld
<1> QED BY <1>1, <1>3, <1>4 DEF BusInv, FewerAreHeld

LEMMA SameListen ==
  ASSUME BusInv, handlers' = handlers
  PROVE  FewerListen
<1>1. \A t \in Types : Members(t)' = Members(t)
  BY DEF Members
<1> QED BY <1>1 DEF BusInv, BusTyped, FewerListen, IsIn, Alone

LEMMA LessListen ==
  ASSUME BusInv, NEW gone,
         \A t \in Types : handlers'[t] \in {handlers[t], NoSet, Excluding(handlers[t], gone)},
         \A t \in Types : handlers'[t] = handlers[t] \/ handlers'[t] = NoSet \/ handlers[t] # NoSet,
         handlers' = [t \in Types |-> handlers'[t]]
  PROVE  FewerListen
<1>1. ASSUME NEW t \in Types
      PROVE  /\ handlers'[t] \in {NoSet} \cup Seq(Everyone) /\ Alone(Members(t))'
             /\ \A l : IsIn(t, l)' => IsIn(t, l)
  <2>1. CASE handlers'[t] = NoSet
    <3>1. Members(t)' = <<>> /\ ToSet(<<>>) = {} /\ Alone(<<>>)
      BY <2>1 DEF Members, ToSet, Alone
    <3> QED BY <2>1, <3>1 DEF IsIn, Alone
  <2>2. CASE handlers'[t] = handlers[t]
    <3>1. Members(t)' = Members(t)
      BY <2>2 DEF Members
    <3> QED BY <2>2, <3>1 DEF BusInv, BusTyped, IsIn, Alone
  <2>3. CASE handlers'[t] # NoSet /\ handlers'[t] # handlers[t]
    <3>1. handlers[t] # NoSet /\ handlers'[t] = Excluding(handlers[t], gone)
      BY <2>3
    <3>2. Members(t)' = Excluding(Members(t), gone) /\ Members(t)' = handlers'[t]
      BY <2>3, <3>1 DEF Members
    <3>3. Members(t) \in Seq(Everyone) /\ Alone(Members(t))
      BY MembersTyped DEF BusInv
    <3>4. /\ Excluding(Members(t), gone) \in Seq(Everyone) /\ Alone(Excluding(Members(t), gone))
          /\ ToSet(Excluding(Members(t), gone)) = ToSet(Members(t)) \ {gone}
      BY <3>3, ExcludedStay
    <3> QED BY <3>2, <3>4 DEF IsIn, Alone
  <2> QED BY <2>1, <2>2, <2>3
<1> QED BY <1>1 DEF FewerListen

(* Emissions keep what they hold, one by one, or the one on top ends.      *)
SameHeld(i, k) ==
  /\ emissions'[i].held = emissions[k].held
  /\ \A l \in OnceOnly : HeldAt(i, l)' => HeldAt(k, l)

LEMMA EmissionsStay ==
  ASSUME emissions' \in Seq(Emission), DOMAIN emissions' = DOMAIN emissions, Len(emissions') = Len(emissions),
         \A i \in DOMAIN emissions : SameHeld(i, i)
  PROVE  FewerAreHeld
<1>1. \A l : IsKept(l)' => IsKept(l)
  BY DEF IsKept, SameHeld
<1>2. \A l \in OnceOnly : IsHeld(l)' => IsHeld(l)
  BY DEF IsHeld, SameHeld
<1>3. BottomOnly => BottomOnly'
  BY DEF BottomOnly, SameHeld
<1> QED BY <1>1, <1>2, <1>3 DEF FewerAreHeld

(* A listener that comes back is forgotten, which matters to no listener   *)
(* of once() unless it is held.                                            *)
LEMMA ForgetStays ==
  ASSUME BusTyped, NEW l, emissions' = Forget(l), l \notin OnceOnly \/ ~IsKept(l)
  PROVE  FewerAreHeld
<1>1. emissions \in Seq(Emission) /\ Len(emissions) \in Nat /\ DOMAIN emissions = 1..Len(emissions)
  BY DEF BusTyped
<1>2. ASSUME NEW i \in DOMAIN emissions
      PROVE  /\ emissions'[i] \in Emission /\ emissions'[i].held = emissions[i].held
             /\ emissions'[i].phase = emissions[i].phase /\ emissions'[i].live = emissions[i].live
             /\ emissions'[i].seen = emissions[i].seen \ {l}
  <2>1. emissions'[i] = [emissions[i] EXCEPT !.seen = @ \ {l}]
    BY DEF Forget
  <2>2. emissions[i] \in Emission
    <3> HIDE DEF Emission
    <3> QED BY <1>1
  <2> QED BY <2>1, <2>2 DEF Emission
<1>3. emissions' = [i \in 1..Len(emissions) |-> emissions'[i]]
  BY <1>1 DEF Forget
<1>4. emissions' \in [1..Len(emissions) -> Emission]
  BY <1>1, <1>2, <1>3
<1>5. emissions' \in Seq(Emission) /\ DOMAIN emissions' = DOMAIN emissions /\ Len(emissions') = Len(emissions)
  BY <1>1, <1>4
<1>6. ASSUME NEW i \in DOMAIN emissions PROVE SameHeld(i, i)
  <2>1. ASSUME NEW k \in OnceOnly, HeldAt(i, k)' PROVE HeldAt(i, k)
    <3>1. k # l
      BY <1>2, <2>1 DEF IsKept, HeldAt
    <3> QED BY <1>2, <2>1, <3>1 DEF HeldAt
  <2> QED BY <1>2, <2>1 DEF SameHeld
<1> QED BY <1>5, <1>6, EmissionsStay

(* One emission on top changes, keeping what it holds.                     *)
LEMMA TopStays ==
  ASSUME BusTyped, emissions # <<>>, NEW e \in Emission, emissions' = [emissions EXCEPT ![1] = e],
         e.held = emissions[1].held,
         \A l \in OnceOnly : e.phase = "type" /\ ~e.live /\ l \in ToSet(e.held) /\ l \notin e.seen => HeldAt(1, l)
  PROVE  FewerAreHeld
<1>1. emissions \in Seq(Emission) /\ 1 \in DOMAIN emissions
  BY DEF BusTyped
<1>2. /\ emissions' \in Seq(Emission) /\ DOMAIN emissions' = DOMAIN emissions /\ emissions'[1] = e
      /\ \A k \in DOMAIN emissions : k # 1 => emissions'[k] = emissions[k]
  BY <1>1, ChangedStay
<1>3. Len(emissions') = Len(emissions)
  BY <1>1
<1>4. ASSUME NEW i \in DOMAIN emissions PROVE SameHeld(i, i)
  <2>1. CASE i = 1
    BY <1>2, <2>1 DEF SameHeld, HeldAt
  <2>2. CASE i # 1
    BY <1>2, <2>2 DEF SameHeld, HeldAt
  <2> QED BY <2>1, <2>2
<1> QED BY <1>2, <1>3, <1>4, EmissionsStay

LEMMA EmitStays ==
  ASSUME BusTyped, NEW e \in Emission, e.held = <<>>, emissions' = <<e>> \o emissions
  PROVE  FewerAreHeld
<1>1. emissions \in Seq(Emission) /\ Len(emissions) \in Nat /\ DOMAIN emissions = 1..Len(emissions)
  BY DEF BusTyped
<1>2. /\ emissions' \in Seq(Emission) /\ emissions'[1] = e
      /\ \A k \in DOMAIN emissions : k + 1 \in DOMAIN emissions' /\ emissions'[k + 1] = emissions[k]
      /\ \A k \in DOMAIN emissions' : k = 1 \/ \E j \in DOMAIN emissions : k = j + 1
  <2> DEFINE records == Emission
  <2>1. e \in records /\ emissions \in Seq(records)
    BY <1>1
  <2> HIDE DEF records
  <2> DEFINE more == <<e>> \o emissions
  <2>2. /\ more \in Seq(records) /\ more[1] = e
        /\ \A k \in DOMAIN emissions : k + 1 \in DOMAIN more /\ more[k + 1] = emissions[k]
        /\ \A k \in DOMAIN more : k = 1 \/ \E j \in DOMAIN emissions : k = j + 1
    BY <2>1, PushedStay
  <2>3. emissions' = more
    OBVIOUS
  <2> HIDE DEF more
  <2>4. emissions' \in Seq(records) /\ emissions'[1] = e
    BY <2>2, <2>3
  <2>5. \A k \in DOMAIN emissions : k + 1 \in DOMAIN emissions' /\ emissions'[k + 1] = emissions[k]
    BY <2>2, <2>3, Zenon
  <2>6. \A k \in DOMAIN emissions' : k = 1 \/ \E j \in DOMAIN emissions : k = j + 1
    BY <2>2, <2>3, Zenon
  <2> QED BY <2>4, <2>5, <2>6 DEF records
<1>3. Len(emissions') = Len(emissions) + 1
  BY <1>1
<1>4. ToSet(e.held) = {}
  BY DEF ToSet
<1>5. \A l : IsKept(l)' => IsKept(l)
  BY <1>2, <1>4 DEF IsKept
<1>6. \A l \in OnceOnly : IsHeld(l)' => IsHeld(l)
  <2> SUFFICES ASSUME NEW l \in OnceOnly, NEW i \in DOMAIN emissions', HeldAt(i, l)' PROVE IsHeld(l)
    BY DEF IsHeld
  <2>1. i # 1
    BY <1>2, <1>4 DEF HeldAt
  <2>2. PICK j \in DOMAIN emissions : i = j + 1
    BY <1>2, <2>1
  <2>3. HeldAt(j, l)
    BY <1>2, <2>2 DEF HeldAt
  <2> QED BY <2>3 DEF IsHeld
<1>7. BottomOnly => BottomOnly'
  <2> SUFFICES ASSUME BottomOnly, NEW i \in DOMAIN emissions', emissions'[i].held # <<>> PROVE i = Len(emissions')
    BY DEF BottomOnly
  <2>1. PICK j \in DOMAIN emissions : i = j + 1
    BY <1>2
  <2>2. j = Len(emissions)
    BY <1>2, <2>1 DEF BottomOnly
  <2> QED BY <1>3, <2>1, <2>2
<1> QED BY <1>2, <1>5, <1>6, <1>7 DEF FewerAreHeld

LEMMA EndStays ==
  ASSUME BusTyped, emissions # <<>>, emissions' = Tail(emissions)
  PROVE  FewerAreHeld
<1>1. emissions \in Seq(Emission) /\ Len(emissions) \in Nat /\ DOMAIN emissions = 1..Len(emissions)
  BY DEF BusTyped
<1>2. /\ emissions' \in Seq(Emission)
      /\ \A k \in DOMAIN emissions' : k + 1 \in DOMAIN emissions /\ emissions'[k] = emissions[k + 1]
  BY <1>1, TailStays
<1>3. Len(emissions') = Len(emissions) - 1 /\ \A k \in DOMAIN emissions' : k \in Int
  BY <1>1
<1>4. \A l : IsKept(l)' => IsKept(l)
  BY <1>2 DEF IsKept
<1>5. \A l \in OnceOnly : IsHeld(l)' => IsHeld(l)
  <2> SUFFICES ASSUME NEW l \in OnceOnly, NEW i \in DOMAIN emissions', HeldAt(i, l)' PROVE IsHeld(l)
    BY DEF IsHeld
  <2>1. HeldAt(i + 1, l)
    BY <1>2 DEF HeldAt
  <2> QED BY <1>2, <2>1 DEF IsHeld
<1>6. BottomOnly => BottomOnly'
  BY <1>1, <1>2, <1>3 DEF BottomOnly
<1> QED BY <1>2, <1>4, <1>5, <1>6 DEF FewerAreHeld

LEMMA RegisterKeeps ==
  ASSUME BusInv, NEW t \in Types, NEW l \in Everyone, ~Listens(l), handlers' = Registered(t, l), FewerAreHeld,
         UNCHANGED <<observers, heard, clearedWithin>>, onceUsed \subseteq onceUsed',
         waiting' \in [Waiters -> {"idle", "pending", "answered", "failed"}],
         \A w \in Waiters : waiting[w] # "idle" => waiting'[w] # "idle",
         l \in OnceOnly => ~IsUsed(l) /\ IsUsed(l)'
  PROVE  BusInv'
<1>1. ASSUME NEW u \in Types
      PROVE  /\ handlers'[u] \in {NoSet} \cup Seq(Everyone) /\ Alone(Members(u))'
             /\ \A k : IsIn(u, k)' => IsIn(u, k) \/ (u = t /\ k = l)
  <2>0. Members(t) \in Seq(Everyone) /\ Alone(Members(t)) /\ l \notin ToSet(Members(t))
    BY MembersTyped DEF BusInv, Listens, IsIn
  <2>1. /\ Append(Members(t), l) \in Seq(Everyone) /\ Alone(Append(Members(t), l))
        /\ ToSet(Append(Members(t), l)) = ToSet(Members(t)) \cup {l}
    BY <2>0, AppendedAlone
  <2>2. CASE u = t
    <3>1. handlers'[u] = Append(Members(t), l)
      BY <2>2 DEF Registered, BusInv, BusTyped
    <3>2. Alone(<<>>) /\ ToSet(<<>>) = {}
      BY DEF Alone, ToSet
    <3>3. Members(u)' = Append(Members(t), l) \/ Members(u)' = <<>>
      BY <3>1 DEF Members
    <3> QED BY <2>1, <2>2, <3>1, <3>2, <3>3 DEF IsIn, Alone
  <2>3. CASE u # t
    <3>1. handlers'[u] = handlers[u]
      BY <2>3 DEF Registered
    <3>2. Members(u)' = Members(u)
      BY <3>1 DEF Members
    <3> QED BY <3>1, <3>2 DEF IsIn, Alone, BusInv, BusTyped
  <2> QED BY <2>2, <2>3
<1>2. BusTyped'
  <2>1. handlers' \in [Types -> {NoSet} \cup Seq(Everyone)]
    <3>1. DOMAIN handlers' = Types /\ handlers' = [u \in Types |-> handlers'[u]]
      BY DEF Registered, BusInv, BusTyped
    <3> QED BY <1>1, <3>1
  <2> QED BY <1>1, <2>1 DEF BusInv, BusTyped, FewerAreHeld, Alone
<1>3. \A k : k # l /\ Listens(k)' => Listens(k)
  BY <1>1 DEF Listens
<1>4. ASSUME NEW k \in OnceOnly PROVE KnownOnce(k)'
  <2>1. KnownOnce(k) /\ (IsUsed(k) => IsUsed(k)')
    BY DEF BusInv, IsUsed
  <2>2. CASE k = l
    <3>1. \A u \in Types : IsIn(u, l)' => u = t
      BY <1>1 DEF Listens
    <3> QED BY <2>2, <3>1 DEF KnownOnce
  <2>3. CASE k # l
    <3>1. \A u, v \in Types : IsIn(u, k)' /\ IsIn(v, k)' => u = v
      BY <1>1, <2>1, <2>3 DEF KnownOnce
    <3> QED BY <1>3, <2>1, <2>3, <3>1 DEF KnownOnce, FewerAreHeld
  <2> QED BY <2>2, <2>3
<1>5. ASSUME NEW k \in OnceOnly, ~clearedWithin PROVE HeardOnce(k)'
  <2>1. HeardOnce(k) /\ KnownOnce(k) /\ (IsHeld(k)' => IsHeld(k))
    BY <1>5 DEF BusInv, FewerAreHeld
  <2>2. CASE k = l
    <3>1. ~IsKept(l) /\ ~(heard[l] > 0)
      BY <2>1, <2>2 DEF KnownOnce
    <3>2. ~IsHeld(l)'
      BY <2>1, <2>2, <3>1, HeldIsKept
    <3> QED BY <2>1, <2>2, <3>1, <3>2 DEF HeardOnce
  <2>3. CASE k # l
    BY <1>3, <2>1, <2>3 DEF HeardOnce
  <2> QED BY <2>2, <2>3
<1> QED BY <1>2, <1>4, <1>5 DEF BusInv, FewerAreHeld

LEMMA RemoveAllKeeps ==
  ASSUME BusInv, NEW forGood, RemoveAll(forGood)
  PROVE  BusInv'
<1>1. /\ waiting' = RejectAll /\ handlers' = [t \in Types |-> NoSet] /\ observers' = <<>>
      /\ emissions' = [i \in DOMAIN emissions |->
                         IF emissions[i].live
                         THEN [emissions[i] EXCEPT !.live = FALSE, !.held = Members(emissions[i].type)]
                         ELSE emissions[i]]
      /\ clearedWithin' = (clearedWithin \/ Len(emissions) > 1) /\ UNCHANGED <<heard, onceUsed>>
  BY DEF RemoveAll
<1>2. emissions \in Seq(Emission) /\ Len(emissions) \in Nat /\ DOMAIN emissions = 1..Len(emissions)
  BY DEF BusInv, BusTyped
<1>3. ASSUME NEW i \in DOMAIN emissions
      PROVE  /\ emissions'[i] \in Emission
             /\ \/ emissions[i].type \in Types /\ emissions'[i].held = Members(emissions[i].type)
                \/ emissions'[i] = emissions[i]
  <2>1. emissions[i] \in Emission
    <3> HIDE DEF Emission
    <3> QED BY <1>2
  <2>2. CASE emissions[i].live
    <3>1. emissions'[i] = [emissions[i] EXCEPT !.live = FALSE, !.held = Members(emissions[i].type)]
      BY <1>1, <2>2
    <3>2. emissions[i].type \in Types
      BY <2>1 DEF Emission
    <3>3. Members(emissions[i].type) \in Seq(Everyone)
      BY <3>2, MembersTyped DEF BusInv
    <3> QED BY <2>1, <3>1, <3>2, <3>3 DEF Emission
  <2>3. CASE ~emissions[i].live
    BY <1>1, <2>1, <2>3
  <2> QED BY <2>2, <2>3
<1>4. emissions' \in Seq(Emission) /\ DOMAIN emissions' = DOMAIN emissions /\ Len(emissions') = Len(emissions)
  <2>1. emissions' = [i \in 1..Len(emissions) |-> emissions'[i]]
    BY <1>1, <1>2
  <2>2. emissions' \in [1..Len(emissions) -> Emission]
    BY <1>2, <1>3, <2>1
  <2> QED BY <1>2, <2>2
<1>5. \A t \in Types : Members(t)' = <<>>
  BY <1>1 DEF Members
<1>6. Alone(<<>>) /\ ToSet(<<>>) = {} /\ <<>> \in Seq(Observers)
  BY DEF Alone, ToSet
<1>7. \A l : ~Listens(l)' /\ \A t \in Types : ~IsIn(t, l)'
  BY <1>5, <1>6 DEF Listens, IsIn
<1>8. waiting' \in [Waiters -> {"idle", "pending", "answered", "failed"}]
      /\ \A w \in Waiters : waiting[w] # "idle" => waiting'[w] # "idle"
  BY <1>1 DEF RejectAll, BusInv, BusTyped
<1>9. BusTyped'
  <2>1. \A t \in Types : Alone(Members(t))'
    BY <1>5, <1>6 DEF Alone
  <2>2. handlers' \in [Types -> {NoSet} \cup Seq(Everyone)] /\ clearedWithin' \in BOOLEAN
    BY <1>1
  <2>3. observers' \in Seq(Observers) /\ Alone(observers)'
    BY <1>1, <1>6 DEF Alone
  <2> QED BY <1>1, <1>4, <1>8, <2>1, <2>2, <2>3 DEF BusTyped, BusInv
<1>10. \A l : IsKept(l)' => IsKept(l) \/ Listens(l)
  BY <1>3, <1>4 DEF IsKept, Listens, IsIn
<1>11. ASSUME NEW l \in OnceOnly PROVE KnownOnce(l)'
  BY <1>1, <1>7, <1>8, <1>10 DEF KnownOnce, BusInv, IsUsed
<1>12. \A l : IsHeld(l)' => IsHeld(l) \/ Listens(l)
  <2> SUFFICES ASSUME NEW l, NEW i \in DOMAIN emissions', HeldAt(i, l)', ~Listens(l) PROVE IsHeld(l)
    BY DEF IsHeld
  <2>1. i \in DOMAIN emissions /\ l \in ToSet(emissions'[i].held)
    BY <1>4 DEF HeldAt
  <2>2. emissions'[i] = emissions[i]
    BY <1>3, <2>1 DEF Listens, IsIn
  <2> QED BY <2>1, <2>2 DEF HeldAt, IsHeld
<1>13. ASSUME NEW l \in OnceOnly, ~clearedWithin' PROVE HeardOnce(l)'
  BY <1>1, <1>7, <1>12, <1>13 DEF HeardOnce, BusInv
<1>14. ASSUME ~clearedWithin' PROVE BottomOnly'
  <2>1. ~(Len(emissions) > 1)
    BY <1>1, <1>14
  <2> QED BY <1>2, <1>4, <2>1 DEF BottomOnly
<1> QED BY <1>9, <1>11, <1>13, <1>14 DEF BusInv

LEMMA CallKeeps ==
  ASSUME BusInv, CallListener
  PROVE  BusInv'
<1> DEFINE e == emissions[1]
<1>1. emissions \in Seq(Emission) /\ emissions # <<>> /\ Len(emissions) \in Nat /\ DOMAIN emissions = 1..Len(emissions)
      /\ 1 \in DOMAIN emissions /\ Head(emissions) = e
  BY DEF BusInv, BusTyped, CallListener
<1>2. e \in Emission
  BY <1>1
<1>3. PICK k \in Unheard(Head(emissions)) :
     LET l == Going(Head(emissions))[k] IN
     /\ emissions' = [emissions EXCEPT ![1].seen = @ \cup {l}, ![1].calling = TRUE]
     /\ handlers' = AfterCall(Head(emissions).type, l)
     /\ heard' = IF l \in DOMAIN heard THEN [heard EXCEPT ![l] = @ + 1] ELSE heard
     /\ IF l \in Waiters
        THEN /\ waitTimers' = waitTimers \ {l}
             /\ waiting' = [waiting EXCEPT ![l] = IF @ = "pending" THEN "answered" ELSE @]
        ELSE UNCHANGED <<waitTimers, waiting>>
  BY DEF CallListener
<1> DEFINE l == Going(e)[k]
           f == [e EXCEPT !.seen = @ \cup {l}, !.calling = TRUE]
<1>4. /\ emissions' = [emissions EXCEPT ![1] = f] /\ handlers' = AfterCall(e.type, l)
      /\ heard' = IF l \in DOMAIN heard THEN [heard EXCEPT ![l] = @ + 1] ELSE heard
      /\ waiting' = IF l \in Waiters THEN [waiting EXCEPT ![l] = IF @ = "pending" THEN "answered" ELSE @] ELSE waiting
      /\ UNCHANGED <<observers, onceUsed, clearedWithin>>
  BY <1>1, <1>3 DEF CallListener
<1>5. l \in ToSet(Going(e)) /\ l \notin e.seen
  BY <1>1 DEF Unheard, ToSet
<1>6. /\ e.type \in Types /\ e.phase \in {"type", "all"} /\ e.live \in BOOLEAN /\ e.held \in Seq(Everyone)
      /\ e.seen \subseteq Everyone \cup Observers
  BY <1>2 DEF Emission
<1>7. \/ e.phase = "all" /\ l \in Observers
      \/ e.phase = "type" /\ l \in Everyone /\ (IsIn(e.type, l) \/ HeldAt(1, l))
  <2>1. CASE e.phase = "all"
    <3>1. l \in ToSet(observers)
      BY <1>5, <2>1 DEF Going
    <3>2. l \in Observers
      BY <3>1 DEF ToSet, BusInv, BusTyped
    <3> QED BY <2>1, <3>2
  <2>2. CASE e.phase = "type" /\ e.live
    <3>1. l \in ToSet(Members(e.type))
      BY <1>5, <2>2 DEF Going
    <3>2. Members(e.type) \in Seq(Everyone)
      BY <1>6, MembersTyped DEF BusInv
    <3>3. l \in Everyone
      BY <3>1, <3>2 DEF ToSet
    <3> QED BY <2>2, <3>1, <3>3 DEF IsIn
  <2>3. CASE e.phase = "type" /\ ~e.live
    <3>1. l \in ToSet(e.held)
      BY <1>5, <2>3 DEF Going
    <3>2. l \in Everyone
      BY <1>6, <3>1 DEF ToSet
    <3> QED BY <1>5, <2>3, <3>1, <3>2 DEF HeldAt
  <2> QED BY <1>6, <2>1, <2>2, <2>3
<1>8. f \in Emission /\ f.held = e.held /\ f.phase = e.phase /\ f.live = e.live /\ f.seen = e.seen \cup {l}
  BY <1>2, <1>7 DEF Emission
<1> HIDE DEF f, l
<1>9. FewerAreHeld
  BY <1>1, <1>4, <1>8, TopStays DEF BusInv, HeldAt
<1>10. FewerListen
  <2>1. CASE l \in OnceOnly /\ handlers[e.type] # NoSet
    <3>1. handlers' = [handlers EXCEPT ![e.type] = Excluding(handlers[e.type], l)]
      BY <1>4, <2>1 DEF AfterCall, Unregistered
    <3>2. \A t \in Types : handlers'[t] \in {handlers[t], NoSet, Excluding(handlers[t], l)}
      BY <1>6, <3>1 DEF BusInv, BusTyped
    <3>3. \A t \in Types : handlers'[t] = handlers[t] \/ handlers'[t] = NoSet \/ handlers[t] # NoSet
      BY <1>6, <2>1, <3>1 DEF BusInv, BusTyped
    <3>4. handlers' = [t \in Types |-> handlers'[t]]
      BY <3>1 DEF BusInv, BusTyped
    <3> QED BY <3>2, <3>3, <3>4, LessListen
  <2>2. CASE ~(l \in OnceOnly /\ handlers[e.type] # NoSet)
    <3>1. handlers' = handlers
      BY <1>4, <2>2 DEF AfterCall, Unregistered
    <3> QED BY <3>1, SameListen
  <2> QED BY <2>1, <2>2
<1>11. waiting' \in [Waiters -> {"idle", "pending", "answered", "failed"}]
       /\ \A w \in Waiters : waiting[w] # "idle" => waiting'[w] # "idle"
  BY <1>4 DEF BusInv, BusTyped
<1>12. heard' \in [Everyone -> Nat] /\ \A j \in Everyone : j # l => heard'[j] = heard[j]
  BY <1>4 DEF BusInv, BusTyped
<1>13. BusTyped'
  BY <1>4, <1>9, <1>10, <1>11, <1>12 DEF BusInv, BusTyped, FewerListen, FewerAreHeld, Alone
<1>14. \A j : Listens(j)' => Listens(j)
  BY <1>10 DEF FewerListen, Listens
<1>15. ASSUME l \in OnceOnly PROVE Listens(l) \/ IsHeld(l)
  BY <1>1, <1>6, <1>7, <1>15, OncesApart DEF Listens, IsHeld
<1>16. ASSUME NEW j \in OnceOnly PROVE KnownOnce(j)'
  <2>1. KnownOnce(j) /\ (IsUsed(j) => IsUsed(j)') /\ j \in Everyone
    BY <1>4, <1>11, OncesApart DEF BusInv, IsUsed
  <2>2. \A t, u \in Types : IsIn(t, j)' /\ IsIn(u, j)' => t = u
    BY <1>10, <2>1 DEF FewerListen, KnownOnce
  <2>3. heard'[j] > 0 => heard[j] > 0 \/ Listens(j) \/ IsKept(j)
    BY <1>12, <1>15, <2>1, HeldIsKept
  <2> QED BY <1>9, <1>14, <2>1, <2>2, <2>3 DEF KnownOnce, FewerAreHeld
<1>17. ASSUME NEW j \in OnceOnly, ~clearedWithin' PROVE HeardOnce(j)'
  <2>1. ~clearedWithin /\ HeardOnce(j) /\ BottomOnly /\ KnownOnce(j) /\ j \in Everyone
    BY <1>4, <1>17, OncesApart DEF BusInv
  <2>2. Listens(j)' => Listens(j)
    BY <1>14
  <2>3. IsHeld(j)' => IsHeld(j)
    BY <1>9 DEF FewerAreHeld
  <2>4. CASE j # l
    <3>1. heard'[j] = heard[j]
      BY <1>12, <2>1, <2>4
    <3> QED BY <2>1, <2>2, <2>3, <3>1 DEF HeardOnce
  <2>5. CASE j = l
    <3>1. heard[j] = 0 /\ heard'[j] = 1
      <4>1. heard \in [Everyone -> Nat] /\ heard[j] \in Nat /\ j \in DOMAIN heard
        BY <2>1 DEF BusInv, BusTyped
      <4>2. heard[j] = 0
        BY <1>15, <1>17, <2>1, <2>5, <4>1 DEF HeardOnce
      <4>3. heard' = [heard EXCEPT ![j] = @ + 1]
        BY <1>4, <2>5, <4>1
      <4> QED BY <4>1, <4>2, <4>3
    <3>2. e.phase = "type" /\ (IsIn(e.type, j) \/ HeldAt(1, j))
      BY <1>7, <1>17, <2>5, OncesApart
    <3>0. PICK t \in Types : t = e.type
      BY <1>6
    <3>3. ~Listens(j)'
      <4>1. CASE IsIn(t, j)
        <5>1. handlers[t] # NoSet
          BY <4>1 DEF IsIn, Members, ToSet
        <5>2. handlers' = [handlers EXCEPT ![t] = Excluding(handlers[t], j)]
          BY <1>4, <1>17, <2>5, <3>0, <5>1 DEF AfterCall, Unregistered
        <5>3. Members(t) \in Seq(Everyone) /\ Alone(Members(t)) /\ Members(t) = handlers[t]
          BY <5>1, MembersTyped DEF BusInv
        <5>4. j \notin ToSet(Excluding(handlers[t], j))
          BY <5>3, ExcludedStay
        <5>5. handlers'[t] = Excluding(handlers[t], j)
          BY <5>2 DEF BusInv, BusTyped
        <5>6. ~IsIn(t, j)'
          <6>1. Members(t)' = handlers'[t] \/ Members(t)' = <<>>
            BY DEF Members
          <6> QED BY <5>4, <5>5, <6>1 DEF IsIn, ToSet
        <5>7. ASSUME NEW u \in Types, IsIn(u, j)' PROVE FALSE
          <6>1. IsIn(u, j)
            BY <1>10, <5>7 DEF FewerListen
          <6>2. u = t
            BY <2>1, <4>1, <6>1 DEF KnownOnce
          <6> QED BY <5>6, <5>7, <6>2
        <5> QED BY <5>7 DEF Listens
      <4>2. CASE HeldAt(1, j)
        <5>1. IsHeld(j)
          BY <1>1, <4>2 DEF IsHeld
        <5>2. ~Listens(j)
          BY <2>1, <5>1 DEF HeardOnce
        <5> QED BY <1>14, <5>2
      <4> QED BY <3>0, <3>2, <4>1, <4>2
    <3>4. ~IsHeld(j)'
      <4> SUFFICES ASSUME NEW i \in DOMAIN emissions', HeldAt(i, j)' PROVE FALSE
        BY DEF IsHeld
      <4>1. /\ DOMAIN emissions' = DOMAIN emissions /\ emissions'[1] = f
            /\ \A h \in DOMAIN emissions : h # 1 => emissions'[h] = emissions[h]
        <5> HIDE DEF Emission
        <5> QED BY <1>1, <1>4, <1>8, ChangedStay
      <4>2. i # 1
        <5>1. j \in f.seen
          BY <1>8, <2>5
        <5> QED BY <4>1, <5>1 DEF HeldAt
      <4>3. i \in DOMAIN emissions /\ HeldAt(i, j)
        BY <4>1, <4>2 DEF HeldAt
      <4>4. IsHeld(j) /\ emissions[i].held # <<>>
        BY <4>3 DEF IsHeld, HeldAt, ToSet
      <4>5. i = Len(emissions)
        BY <2>1, <4>3, <4>4 DEF BottomOnly
      <4>6. HeldAt(1, j)
        BY <1>6, <2>1, <3>2, <4>4 DEF HeardOnce, Listens
      <4>7. 1 = Len(emissions)
        BY <1>1, <2>1, <4>6 DEF BottomOnly, HeldAt, ToSet
      <4> QED BY <4>2, <4>5, <4>7
    <3> QED BY <3>1, <3>3, <3>4 DEF HeardOnce
  <2> QED BY <2>4, <2>5
<1>18. ~clearedWithin' => BottomOnly'
  BY <1>4, <1>9 DEF BusInv, FewerAreHeld
<1> QED BY <1>13, <1>16, <1>17, <1>18 DEF BusInv

LEMMA BusStep == BusInv /\ [BusNext]_busVars => BusInv'
<1> SUFFICES ASSUME BusInv, [BusNext]_busVars PROVE BusInv'
  OBVIOUS
<1>0. /\ BusTyped /\ waiting \in [Waiters -> {"idle", "pending", "answered", "failed"}]
      /\ observers \in Seq(Observers) /\ Alone(observers)
      /\ emissions \in Seq(Emission) /\ Len(emissions) \in Nat /\ DOMAIN emissions = 1..Len(emissions)
  BY DEF BusInv, BusTyped
<1>a. ASSUME emissions' = emissions PROVE FewerAreHeld
  <2>1. \A i \in DOMAIN emissions : SameHeld(i, i)
    BY <1>a DEF SameHeld, HeldAt
  <2> QED BY <1>0, <1>a, <2>1, EmissionsStay
<1>b. ASSUME observers' = observers PROVE observers' \in Seq(Observers) /\ Alone(observers)'
  BY <1>0, <1>b DEF Alone
<1>1. ASSUME NEW t \in Types, NEW l \in Listeners \cup Onces, On(t, l) PROVE BusInv'
  <2>1. /\ \A other \in Types : l \notin ToSet(Members(other))
        /\ l \notin onceUsed /\ onceUsed' = IF l \in Onces THEN onceUsed \cup {l} ELSE onceUsed
        /\ handlers' = Registered(t, l) /\ emissions' = Forget(l)
        /\ UNCHANGED <<observers, waiting, heard, clearedWithin>>
    BY <1>1 DEF On
  <2>2. ~Listens(l) /\ l \in Everyone /\ onceUsed \subseteq onceUsed'
    BY <2>1, OncesApart DEF Listens, IsIn, Everyone
  <2>3. l \in OnceOnly => ~IsUsed(l) /\ IsUsed(l)'
    BY <2>1, OncesApart DEF IsUsed
  <2>4. l \notin OnceOnly \/ ~IsKept(l)
    BY <2>3 DEF BusInv, KnownOnce
  <2>5. FewerAreHeld
    BY <1>0, <2>1, <2>4, ForgetStays
  <2> QED BY <1>0, <2>1, <2>2, <2>3, <2>5, RegisterKeeps
<1>2. ASSUME NEW t \in Types, NEW w \in Waiters, WaitFor(t, w) PROVE BusInv'
  <2>1. /\ waiting[w] = "idle" /\ waiting' = [waiting EXCEPT ![w] = "pending"]
        /\ handlers' = IF disposed THEN handlers ELSE Registered(t, w)
        /\ UNCHANGED <<observers, emissions, heard, onceUsed, clearedWithin>>
    BY <1>2 DEF WaitFor
  <2>2. /\ waiting' \in [Waiters -> {"idle", "pending", "answered", "failed"}]
        /\ \A v \in Waiters : waiting[v] # "idle" => waiting'[v] # "idle"
        /\ waiting'[w] = "pending"
    BY <1>0, <2>1
  <2>3. ~IsUsed(w) /\ IsUsed(w)' /\ w \in OnceOnly /\ w \in Everyone
    BY <2>1, <2>2, OncesApart DEF IsUsed
  <2>4. ~Listens(w)
    BY <2>3 DEF BusInv, KnownOnce
  <2>5. CASE disposed
    <3>1. FewerListen
      BY <2>1, <2>5, SameListen
    <3> QED BY <1>a, <1>b, <2>1, <2>2, <3>1, BusGoesOn
  <2>6. CASE ~disposed
    BY <1>a, <2>1, <2>2, <2>3, <2>4, <2>6, RegisterKeeps
  <2> QED BY <2>5, <2>6
<1>3. ASSUME NEW t \in Types, NEW l, Off(t, l) PROVE BusInv'
  <2>1. /\ handlers' = Unregistered(t, l)
        /\ UNCHANGED <<observers, emissions, waiting, heard, onceUsed, clearedWithin>>
    BY <1>3 DEF Off
  <2>2. FewerListen
    <3>1. CASE handlers[t] = NoSet
      BY <2>1, <3>1, SameListen DEF Unregistered
    <3>2. CASE handlers[t] # NoSet
      <4>1. handlers' = [handlers EXCEPT ![t] = Excluding(handlers[t], l)]
        BY <2>1, <3>2 DEF Unregistered
      <4>2. \A u \in Types : handlers'[u] \in {handlers[u], NoSet, Excluding(handlers[u], l)}
        BY <4>1 DEF BusInv, BusTyped
      <4>3. \A u \in Types : handlers'[u] = handlers[u] \/ handlers'[u] = NoSet \/ handlers[u] # NoSet
        BY <3>2, <4>1 DEF BusInv, BusTyped
      <4>4. handlers' = [u \in Types |-> handlers'[u]]
        BY <4>1 DEF BusInv, BusTyped
      <4> QED BY <4>2, <4>3, <4>4, LessListen
    <3> QED BY <3>1, <3>2
  <2> QED BY <1>0, <1>a, <1>b, <2>1, <2>2, BusGoesOn
<1>4. ASSUME NEW o \in Observers, OnAll(o) PROVE BusInv'
  <2>1. /\ o \notin ToSet(observers) /\ observers' = Append(observers, o) /\ emissions' = Forget(o)
        /\ UNCHANGED <<handlers, waiting, heard, onceUsed, clearedWithin>>
    BY <1>4 DEF OnAll
  <2>2. observers' \in Seq(Observers) /\ Alone(observers')
    BY <1>0, <2>1, AppendedAlone
  <2>3. FewerAreHeld
    BY <1>0, <2>1, ForgetStays, OncesApart
  <2>4. Alone(observers)'
    BY <2>2 DEF Alone
  <2> QED BY <1>0, <2>1, <2>2, <2>3, <2>4, SameListen, BusGoesOn
<1>5. ASSUME NEW o \in Observers, OffAll(o) PROVE BusInv'
  <2>1. /\ observers' = Excluding(observers, o)
        /\ UNCHANGED <<handlers, emissions, waiting, heard, onceUsed, clearedWithin>>
    BY <1>5 DEF OffAll
  <2>2. observers' \in Seq(Observers) /\ Alone(observers')
    BY <1>0, <2>1, ExcludedStay
  <2>3. Alone(observers)'
    BY <2>2 DEF Alone
  <2> QED BY <1>0, <1>a, <2>1, <2>2, <2>3, SameListen, BusGoesOn
<1>6. ASSUME NEW w \in Waiters, WaitTimesOut(w) PROVE BusInv'
  <2>1. /\ handlers' = Drop(w) /\ waiting' = [waiting EXCEPT ![w] = IF @ = "pending" THEN "failed" ELSE @]
        /\ UNCHANGED <<observers, emissions, heard, onceUsed, clearedWithin>>
    BY <1>6 DEF WaitTimesOut
  <2>2. /\ waiting' \in [Waiters -> {"idle", "pending", "answered", "failed"}]
        /\ \A v \in Waiters : waiting[v] # "idle" => waiting'[v] # "idle"
    BY <1>0, <2>1
  <2>3. FewerListen
    <3>1. \A t \in Types : handlers'[t] = IF handlers[t] = NoSet THEN NoSet ELSE Excluding(handlers[t], w)
      BY <2>1 DEF Drop
    <3>2. handlers' = [t \in Types |-> handlers'[t]]
      BY <2>1 DEF Drop
    <3>3. \A t \in Types : handlers'[t] \in {handlers[t], NoSet, Excluding(handlers[t], w)}
      BY <3>1
    <3>4. \A t \in Types : handlers'[t] = handlers[t] \/ handlers'[t] = NoSet \/ handlers[t] # NoSet
      BY <3>1
    <3> QED BY <3>2, <3>3, <3>4, LessListen
  <2> QED BY <1>a, <1>b, <2>1, <2>2, <2>3, BusGoesOn
<1>7. ASSUME NEW t \in Types, Emit(t) PROVE BusInv'
  <2> DEFINE e == [type |-> t, phase |-> "type", live |-> handlers[t] # NoSet, held |-> <<>>,
                   seen |-> {}, calling |-> FALSE]
  <2>1. emissions' = <<e>> \o emissions /\ UNCHANGED <<handlers, observers, waiting, heard, onceUsed, clearedWithin>>
    BY <1>7 DEF Emit
  <2>2. e \in Emission /\ e.held = <<>>
    <3>1. <<>> \in Seq(Everyone) /\ (handlers[t] # NoSet) \in BOOLEAN
      OBVIOUS
    <3> QED BY <3>1 DEF Emission
  <2> HIDE DEF e
  <2>3. FewerAreHeld
    BY <1>0, <2>1, <2>2, EmitStays
  <2> QED BY <1>0, <1>b, <2>1, <2>3, SameListen, BusGoesOn
<1>8. ASSUME ListenerReturns PROVE BusInv'
  <2> DEFINE e == [emissions[1] EXCEPT !.calling = FALSE]
  <2>1. /\ emissions # <<>> /\ 1 \in DOMAIN emissions /\ emissions' = [emissions EXCEPT ![1] = e]
        /\ UNCHANGED <<handlers, observers, waiting, heard, onceUsed, clearedWithin>>
    BY <1>0, <1>8 DEF ListenerReturns
  <2>2. /\ e \in Emission /\ e.held = emissions[1].held /\ e.phase = emissions[1].phase
        /\ e.live = emissions[1].live /\ e.seen = emissions[1].seen
    <3>1. emissions[1] \in Emission
      BY <1>0, <2>1
    <3> QED BY <3>1 DEF Emission
  <2> HIDE DEF e
  <2>3. FewerAreHeld
    BY <1>0, <2>1, <2>2, TopStays DEF HeldAt
  <2> QED BY <1>0, <1>b, <2>1, <2>3, SameListen, BusGoesOn
<1>9. ASSUME EmissionMovesOn PROVE BusInv'
  <2>1. emissions # <<>> /\ UNCHANGED <<handlers, observers, waiting, heard, onceUsed, clearedWithin>>
    BY <1>9 DEF EmissionMovesOn
  <2>2. FewerAreHeld
    <3>1. CASE Head(emissions).phase = "type"
      <4> DEFINE e == [emissions[1] EXCEPT !.phase = "all", !.seen = {}]
      <4>0. 1 \in DOMAIN emissions /\ Head(emissions) = emissions[1]
        BY <1>0, <2>1
      <4>1. 1 \in DOMAIN emissions /\ emissions' = [emissions EXCEPT ![1] = e]
        <5>1. emissions' = [emissions EXCEPT ![1].phase = "all", ![1].seen = {}]
          BY <1>9, <3>1 DEF EmissionMovesOn
        <5> QED BY <4>0, <5>1
      <4>2. e \in Emission /\ e.held = emissions[1].held /\ e.phase = "all"
        <5>1. emissions[1] \in Emission
          BY <1>0, <4>1
        <5> QED BY <5>1 DEF Emission
      <4> HIDE DEF e
      <4> QED BY <1>0, <2>1, <4>1, <4>2, TopStays
    <3>2. CASE Head(emissions).phase # "type"
      BY <1>0, <1>9, <3>2, EndStays DEF EmissionMovesOn
    <3> QED BY <3>1, <3>2
  <2> QED BY <1>0, <1>b, <2>1, <2>2, SameListen, BusGoesOn
<1>10. CASE UNCHANGED busVars
  BY <1>0, <1>a, <1>b, <1>10, SameListen, BusGoesOn DEF busVars
<1> QED
  BY <1>1, <1>2, <1>3, <1>4, <1>5, <1>6, <1>7, <1>8, <1>9, <1>10, CallKeeps, RemoveAllKeeps DEF BusNext

LEMMA BusHolds == BusInv => (~clearedWithin => \A l \in OnceOnly : heard[l] <= 1)
BY DEF BusInv, HeardOnce

-----------------------------------------------------------------------------
(***************************************************************************)
(* Dead letters: those of a thread are the end of all that were recorded   *)
(* and not removed.                                                        *)
(***************************************************************************)
EndOf(s, all) == Len(s) <= Len(all) /\ \A i \in 1..Len(s) : s[i] = all[(Len(all) - Len(s)) + i]

LetterInv ==
  /\ letters \in [LetterThreads -> Seq(Nat)] /\ letterHistory \in [LetterThreads -> Seq(Nat)]
  /\ letterCount \in Nat
  /\ \A t \in LetterThreads :
       /\ EndOf(letters[t], letterHistory[t]) /\ Len(letters[t]) <= MaxPerThread
       /\ Alone(letterHistory[t])
       /\ \A k \in DOMAIN letterHistory[t] : letterHistory[t][k] <= letterCount

LEMMA EndIsSuffix ==
  ASSUME NEW s \in Seq(Nat), NEW all \in Seq(Nat), EndOf(s, all)
  PROVE  IsSuffix(s, all)
<1>1. Len(s) \in Nat /\ Len(all) \in Nat /\ Len(s) <= Len(all)
  BY DEF EndOf
<1> DEFINE r == Reverse(s)
           q == Reverse(all)
<1>2. r \in Seq(Nat) /\ Len(r) = Len(s) /\ \A i \in 1..Len(s) : r[i] = s[(Len(s) - i) + 1]
  BY <1>1 DEF Reverse
<1>3. q \in Seq(Nat) /\ Len(q) = Len(all) /\ \A i \in 1..Len(all) : q[i] = all[(Len(all) - i) + 1]
  BY <1>1 DEF Reverse
<1> HIDE DEF r, q
<1>4. ASSUME NEW i \in 1..Len(s) PROVE r[i] = q[i]
  <2>1. (Len(s) - i) + 1 \in 1..Len(s) /\ i \in 1..Len(all)
        /\ (Len(all) - Len(s)) + ((Len(s) - i) + 1) = (Len(all) - i) + 1
    BY <1>1
  <2>2. s[(Len(s) - i) + 1] = all[(Len(all) - Len(s)) + ((Len(s) - i) + 1)]
    BY <2>1 DEF EndOf
  <2> QED BY <1>2, <1>3, <2>1, <2>2
<1> DEFINE a == SubSeq(r, 1, Len(r))
           b == SubSeq(q, 1, Len(r))
<1>f. ASSUME NEW x \in Seq(Nat), NEW n \in Nat, n <= Len(x)
      PROVE  SubSeq(x, 1, n) = [i \in 1..n |-> x[i]]
  BY <1>f
<1>5. a = [i \in 1..Len(s) |-> r[i]]
  BY <1>1, <1>2, <1>f
<1>6. b = [i \in 1..Len(s) |-> q[i]]
  BY <1>1, <1>2, <1>3, <1>f
<1> HIDE DEF a, b
<1>8. a = b
  BY <1>4, <1>5, <1>6
<1> QED BY <1>1, <1>2, <1>3, <1>8 DEF a, b, r, q, IsSuffix, IsPrefix

LEMMA EndExcluding ==
  ASSUME NEW s \in Seq(Nat), NEW all \in Seq(Nat), EndOf(s, all), Alone(all), NEW e \in ToSet(s)
  PROVE  EndOf(Excluding(s, e), Excluding(all, e)) /\ Len(Excluding(s, e)) <= Len(s)
<1>1. Len(s) \in Nat /\ Len(all) \in Nat /\ Len(s) <= Len(all) /\ DOMAIN s = 1..Len(s) /\ DOMAIN all = 1..Len(all)
  BY DEF EndOf
<1> DEFINE k == CHOOSE i \in DOMAIN s : s[i] = e
           n == CHOOSE i \in DOMAIN all : all[i] = e
           d == Len(all) - Len(s)
<1>2. k \in DOMAIN s /\ s[k] = e
  BY DEF ToSet
<1> HIDE DEF k
<1>3. d + k \in DOMAIN all /\ all[d + k] = e
  BY <1>1, <1>2 DEF EndOf
<1>4. n \in DOMAIN all /\ all[n] = e
  BY <1>3
<1> HIDE DEF n
<1>5. n = d + k
  BY <1>3, <1>4 DEF Alone
<1>6. Excluding(s, e) = RemoveAt(s, k)
  BY DEF Excluding, k
<1>7. e \in ToSet(all) /\ Excluding(all, e) = RemoveAt(all, n)
  <2>1. e \in ToSet(all)
    BY <1>4 DEF ToSet
  <2> QED BY <2>1 DEF Excluding, n
<1> DEFINE r == RemoveAt(s, k)
           q == RemoveAt(all, n)
<1>8. /\ Len(r) = Len(s) - 1
      /\ \A i \in 1..(Len(s) - 1) : (i < k => r[i] = s[i]) /\ (~(i < k) => r[i] = s[i + 1])
  BY <1>2, RemovedPlaces
<1>9. /\ Len(q) = Len(all) - 1
      /\ \A i \in 1..(Len(all) - 1) : (i < n => q[i] = all[i]) /\ (~(i < n) => q[i] = all[i + 1])
  BY <1>4, RemovedPlaces
<1> HIDE DEF r, q
<1>10. k \in Nat /\ d \in Nat /\ d = Len(all) - Len(s)
  BY <1>1, <1>2
<1>11. \A i \in 1..Len(s) : s[i] = all[d + i]
  BY DEF EndOf
<1> HIDE DEF d
<1>12. ASSUME NEW i \in 1..(Len(s) - 1) PROVE r[i] = q[d + i]
  <2>1. i \in Nat /\ d + i \in 1..(Len(all) - 1) /\ i \in 1..Len(s) /\ i + 1 \in 1..Len(s) /\ d + (i + 1) = (d + i) + 1
    BY <1>1, <1>10
  <2>2. CASE i < k
    <3>1. d + i < n
      BY <1>5, <1>10, <2>1, <2>2
    <3> QED BY <1>8, <1>9, <1>11, <2>1, <2>2, <3>1
  <2>3. CASE ~(i < k)
    <3>1. ~(d + i < n)
      BY <1>5, <1>10, <2>1, <2>3
    <3>2. r[i] = s[i + 1] /\ q[d + i] = all[(d + i) + 1]
      BY <1>8, <1>9, <2>1, <2>3, <3>1
    <3>3. s[i + 1] = all[d + (i + 1)]
      BY <1>11, <2>1
    <3> QED BY <2>1, <3>2, <3>3
  <2> QED BY <2>2, <2>3
<1>13. Len(q) - Len(r) = d /\ Len(r) <= Len(q) /\ Len(r) <= Len(s)
  BY <1>1, <1>8, <1>9, <1>10
<1>14. EndOf(r, q)
  BY <1>8, <1>12, <1>13 DEF EndOf
<1> QED BY <1>6, <1>7, <1>13, <1>14 DEF r, q

LEMMA EndRecords ==
  ASSUME NEW s \in Seq(Nat), NEW all \in Seq(Nat), EndOf(s, all), NEW n \in Nat, NEW limit \in Nat
  PROVE  EndOf(Newest(Append(s, n), limit), Append(all, n))
<1> DEFINE s1 == Append(s, n)
           all1 == Append(all, n)
           t == Newest(s1, limit)
           d == Len(all) - Len(s)
<1>1. /\ s1 \in Seq(Nat) /\ Len(s1) = Len(s) + 1 /\ Len(s) \in Nat
      /\ (\A k \in 1..Len(s) : s1[k] = s[k]) /\ s1[Len(s) + 1] = n
  BY AppendedStay
<1>2. /\ all1 \in Seq(Nat) /\ Len(all1) = Len(all) + 1 /\ Len(all) \in Nat
      /\ (\A k \in 1..Len(all) : all1[k] = all[k]) /\ all1[Len(all) + 1] = n
  BY AppendedStay
<1>3. Len(s) <= Len(all) /\ d \in Nat /\ \A i \in 1..Len(s) : s[i] = all[d + i]
  BY <1>1, <1>2 DEF EndOf
<1>4. /\ Len(t) \in Nat /\ Len(t) <= Len(s1)
      /\ \A i \in 1..Len(t) : /\ t[i] = s1[Len(s1) - Len(t) + i]
                              /\ Len(s1) - Len(t) + i \in 1..Len(s1)
  <2> HIDE DEF s1
  <2> QED BY <1>1, NewestPlaces
<1> HIDE DEF s1, all1, t
<1>5. ASSUME NEW i \in 1..Len(s1) PROVE s1[i] = all1[d + i]
  <2>1. CASE i \in 1..Len(s)
    <3>1. d + i \in 1..Len(all)
      BY <1>1, <1>2, <1>3, <2>1
    <3> QED BY <1>1, <1>2, <1>3, <2>1, <3>1
  <2>2. CASE i = Len(s) + 1
    <3>1. d + i = Len(all) + 1
      BY <1>1, <1>2, <1>3, <2>2
    <3> QED BY <1>1, <1>2, <2>2, <3>1
  <2> QED BY <1>1, <2>1, <2>2
<1>6. d = Len(all) - Len(s)
  OBVIOUS
<1> HIDE DEF d
<1>7. ASSUME NEW i \in 1..Len(t) PROVE t[i] = all1[(Len(all1) - Len(t)) + i]
  <2>1. t[i] = all1[d + (Len(s1) - Len(t) + i)]
    BY <1>4, <1>5
  <2>2. d + (Len(s1) - Len(t) + i) = (Len(all1) - Len(t)) + i
    BY <1>1, <1>2, <1>3, <1>4, <1>6
  <2> QED BY <2>1, <2>2
<1>8. Len(t) <= Len(all1)
  BY <1>1, <1>2, <1>3, <1>4
<1> QED BY <1>7, <1>8 DEF EndOf, t, s1, all1

LEMMA LettersInitially == LetterInit => LetterInv
<1> SUFFICES ASSUME LetterInit PROVE LetterInv
  OBVIOUS
<1>1. <<>> \in Seq(Nat) /\ Len(<<>>) = 0 /\ DOMAIN <<>> = {} /\ 1..0 = {}
  OBVIOUS
<1> QED BY <1>1, CoordinationAssumption DEF LetterInit, LetterInv, EndOf, Alone

LEMMA LettersStep == LetterInv /\ [LetterNext]_letterVars => LetterInv'
<1> SUFFICES ASSUME LetterInv, [LetterNext]_letterVars PROVE LetterInv'
  OBVIOUS
<1>0. MaxPerThread \in Nat
  BY CoordinationAssumption
<1>1. ASSUME NEW t \in LetterThreads, NEW l \in Seq(Nat), NEW h \in Seq(Nat), letterCount' \in Nat,
             letterCount' >= letterCount,
             letters' = [letters EXCEPT ![t] = l], letterHistory' = [letterHistory EXCEPT ![t] = h],
             EndOf(l, h), Len(l) <= MaxPerThread, Alone(h), \A k \in DOMAIN h : h[k] <= letterCount'
      PROVE  LetterInv'
  <2>1. letters' \in [LetterThreads -> Seq(Nat)] /\ letterHistory' \in [LetterThreads -> Seq(Nat)]
    BY <1>1 DEF LetterInv
  <2>2. ASSUME NEW u \in LetterThreads
        PROVE  /\ EndOf(letters'[u], letterHistory'[u]) /\ Len(letters'[u]) <= MaxPerThread
               /\ Alone(letterHistory'[u])
               /\ \A k \in DOMAIN letterHistory'[u] : letterHistory'[u][k] <= letterCount'
    <3>1. CASE u = t
      <4>1. letters'[u] = l /\ letterHistory'[u] = h
        BY <1>1, <3>1 DEF LetterInv
      <4> QED BY <1>1, <4>1
    <3>2. CASE u # t
      <4>1. letters'[u] = letters[u] /\ letterHistory'[u] = letterHistory[u] /\ letterHistory[u] \in Seq(Nat)
        BY <1>1, <3>2 DEF LetterInv
      <4>2. \A k \in DOMAIN letterHistory[u] : letterHistory[u][k] \in Nat
        BY <4>1
      <4> QED BY <1>1, <4>1, <4>2 DEF LetterInv
    <3> QED BY <3>1, <3>2
  <2>3. \A u \in LetterThreads :
          /\ EndOf(letters[u], letterHistory[u])' /\ (Len(letters[u]) <= MaxPerThread)'
          /\ Alone(letterHistory[u])'
          /\ (\A k \in DOMAIN letterHistory[u] : letterHistory[u][k] <= letterCount)'
    BY <2>2 DEF EndOf, Alone
  <2> QED BY <1>1, <2>1, <2>3 DEF LetterInv
<1>2. ASSUME NEW t \in LetterThreads, RecordLetter(t) PROVE LetterInv'
  <2> DEFINE s == letters[t]
             all == letterHistory[t]
             n == letterCount + 1
             l == Newest(Append(s, n), MaxPerThread)
             h == Append(all, n)
  <2>1. letterCount' = n /\ letters' = [letters EXCEPT ![t] = l] /\ letterHistory' = [letterHistory EXCEPT ![t] = h]
    BY <1>2 DEF RecordLetter
  <2>2. s \in Seq(Nat) /\ all \in Seq(Nat) /\ n \in Nat /\ n > letterCount /\ EndOf(s, all) /\ Alone(all)
        /\ letterCount \in Nat /\ \A k \in DOMAIN all : all[k] <= letterCount /\ all[k] \in Nat
    <3>1. s \in Seq(Nat) /\ all \in Seq(Nat) /\ letterCount \in Nat /\ EndOf(s, all) /\ Alone(all)
          /\ \A k \in DOMAIN all : all[k] <= letterCount
      BY DEF LetterInv
    <3>2. \A k \in DOMAIN all : all[k] \in Nat
      BY <3>1
    <3> QED BY <3>1, <3>2
  <2> HIDE DEF s, all, n
  <2>3. n \notin ToSet(all)
    BY <2>2 DEF ToSet
  <2>4. h \in Seq(Nat) /\ Alone(h) /\ ToSet(h) = ToSet(all) \cup {n}
    BY <2>2, <2>3, AppendedAlone
  <2>5. EndOf(l, h)
    BY <1>0, <2>2, EndRecords
  <2>6. l \in Seq(Nat) /\ Len(l) <= MaxPerThread
    <3>1. Append(s, n) \in Seq(Nat)
      BY <2>2
    <3> QED BY <1>0, <3>1, NewestPlaces
  <2> HIDE DEF l, h
  <2>7. \A k \in DOMAIN h : h[k] <= letterCount'
    <3> TAKE k \in DOMAIN h
    <3>1. h[k] \in ToSet(all) \cup {n}
      BY <2>4 DEF ToSet
    <3>2. CASE h[k] = n
      BY <2>1, <2>2, <3>2
    <3>3. CASE h[k] \in ToSet(all)
      <4>1. PICK j \in DOMAIN all : h[k] = all[j]
        BY <3>3 DEF ToSet
      <4> QED BY <2>1, <2>2, <4>1
    <3> QED BY <3>1, <3>2, <3>3
  <2>8. letterCount' \in Nat /\ letterCount' >= letterCount
    BY <2>1, <2>2
  <2> QED BY <1>1, <2>1, <2>4, <2>5, <2>6, <2>7, <2>8
<1>3. ASSUME NEW t \in LetterThreads, NEW id \in 1..MaxLetters, RemoveLetter(t, id) PROVE LetterInv'
  <2> DEFINE s == letters[t]
             all == letterHistory[t]
             l == Excluding(s, id)
             h == Excluding(all, id)
  <2>1. id \in ToSet(s) /\ letterCount' = letterCount
        /\ letters' = [letters EXCEPT ![t] = l] /\ letterHistory' = [letterHistory EXCEPT ![t] = h]
    BY <1>3 DEF RemoveLetter
  <2>2. s \in Seq(Nat) /\ all \in Seq(Nat) /\ EndOf(s, all) /\ Alone(all) /\ Len(s) <= MaxPerThread
        /\ letterCount \in Nat /\ \A k \in DOMAIN all : all[k] <= letterCount
    BY DEF LetterInv
  <2>3. Alone(s)
    <3>1. Len(s) \in Nat /\ Len(all) \in Nat /\ DOMAIN s = 1..Len(s) /\ DOMAIN all = 1..Len(all) /\ Len(s) <= Len(all)
      BY <2>2 DEF EndOf
    <3> HIDE DEF s, all
    <3>2. ASSUME NEW i \in DOMAIN s, NEW j \in DOMAIN s, s[i] = s[j] PROVE i = j
      <4>1. (Len(all) - Len(s)) + i \in DOMAIN all /\ (Len(all) - Len(s)) + j \in DOMAIN all
        BY <3>1
      <4>2. all[(Len(all) - Len(s)) + i] = all[(Len(all) - Len(s)) + j]
        BY <2>2, <3>1, <3>2 DEF EndOf
      <4>3. (Len(all) - Len(s)) + i = (Len(all) - Len(s)) + j
        BY <2>2, <4>1, <4>2 DEF Alone
      <4> QED BY <3>1, <4>3
    <3> QED BY <3>2 DEF Alone
  <2> HIDE DEF s, all
  <2>4. EndOf(l, h) /\ Len(l) <= Len(s)
    BY <2>1, <2>2, EndExcluding
  <2>5. l \in Seq(Nat)
    BY <2>2, <2>3, ExcludedStay
  <2>6. h \in Seq(Nat) /\ Alone(h) /\ ToSet(h) = ToSet(all) \ {id}
    BY <2>2, ExcludedStay
  <2> HIDE DEF l, h
  <2>7. \A k \in DOMAIN h : h[k] <= letterCount
    <3> TAKE k \in DOMAIN h
    <3>1. h[k] \in ToSet(all)
      BY <2>6 DEF ToSet
    <3> QED BY <2>2, <3>1 DEF ToSet
  <2>8. Len(l) <= MaxPerThread /\ letterCount' \in Nat /\ letterCount' >= letterCount
    BY <1>0, <2>1, <2>2, <2>4, <2>5
  <2> QED BY <1>1, <2>1, <2>4, <2>5, <2>6, <2>7, <2>8
<1>4. ASSUME NEW t \in LetterThreads, ClearLetters(t) PROVE LetterInv'
  <2>1. letters' = [letters EXCEPT ![t] = <<>>] /\ letterHistory' = [letterHistory EXCEPT ![t] = <<>>]
        /\ letterCount' = letterCount
    BY <1>4 DEF ClearLetters
  <2>2. <<>> \in Seq(Nat) /\ Len(<<>>) = 0 /\ DOMAIN <<>> = {} /\ 1..0 = {} /\ 0 <= MaxPerThread /\ 0 <= 0
    BY <1>0
  <2>3. EndOf(<<>>, <<>>) /\ Alone(<<>>)
    BY <2>2 DEF EndOf, Alone
  <2>4. letterCount' \in Nat /\ letterCount' >= letterCount
    BY <2>1 DEF LetterInv
  <2> QED BY <1>1, <2>1, <2>2, <2>3, <2>4
<1>5. CASE UNCHANGED letterVars
  BY <1>5 DEF letterVars, LetterInv, EndOf, Alone
<1> QED BY <1>2, <1>3, <1>4, <1>5 DEF LetterNext

LEMMA LettersHold ==
  ASSUME LetterInv
  PROVE  \A t \in LetterThreads : IsSuffix(letters[t], letterHistory[t]) /\ Len(letters[t]) <= MaxPerThread
BY EndIsSuffix DEF LetterInv

-----------------------------------------------------------------------------
(***************************************************************************)
(* Tokens.  What a reader got is what it yielded and what it was handed;   *)
(* everything in the queue is newer than anything a reader got.            *)
(***************************************************************************)
Shared(got, queue, n) ==
  /\ got \in [TokenReaders -> Seq(Nat)] /\ queue \in Seq(Nat) /\ n \in Nat
  /\ \A k \in DOMAIN queue : queue[k] \in 1..n
  /\ \A r \in TokenReaders : \A i \in DOMAIN got[r] : got[r][i] \in 1..n
  /\ Ascending(queue) /\ \A r \in TokenReaders : Ascending(got[r])
  /\ \A r \in TokenReaders : \A i \in DOMAIN got[r], k \in DOMAIN queue : got[r][i] < queue[k]
  /\ \A t \in 1..n : \/ \E k \in DOMAIN queue : queue[k] = t
                     \/ \E r \in TokenReaders : \E i \in DOMAIN got[r] : got[r][i] = t
  /\ \A r, u \in TokenReaders : \A i \in DOMAIN got[r], j \in DOMAIN got[u] :
       got[r][i] = got[u][j] => r = u

LEMMA AscendingAppend ==
  ASSUME NEW s \in Seq(Nat), NEW t \in Nat, Ascending(s), \A i \in DOMAIN s : s[i] < t
  PROVE  Append(s, t) \in Seq(Nat) /\ Ascending(Append(s, t))
BY DEF Ascending

LEMMA AscendingTail ==
  ASSUME NEW s \in Seq(Nat), s # <<>>, Ascending(s)
  PROVE  /\ Tail(s) \in Seq(Nat) /\ Ascending(Tail(s)) /\ Head(s) \in Nat
         /\ \A i \in DOMAIN Tail(s) : Head(s) < Tail(s)[i]
BY DEF Ascending

LEMMA AppendPlaces ==
  ASSUME NEW s \in Seq(Nat), NEW t \in Nat
  PROVE  /\ Append(s, t) \in Seq(Nat)
         /\ \A i \in DOMAIN s : i \in DOMAIN Append(s, t) /\ Append(s, t)[i] = s[i]
         /\ \A i \in DOMAIN Append(s, t) : \/ i \in DOMAIN s /\ Append(s, t)[i] = s[i]
                                           \/ i \notin DOMAIN s /\ Append(s, t)[i] = t
         /\ \E i \in DOMAIN Append(s, t) : Append(s, t)[i] = t
<1>1. Append(s, t)[Len(s) + 1] = t /\ Len(s) + 1 \in DOMAIN Append(s, t)
  OBVIOUS
<1>2. Append(s, t) \in Seq(Nat) /\ DOMAIN s = 1..Len(s) /\ DOMAIN Append(s, t) = 1..(Len(s) + 1)
  OBVIOUS
<1>3. Len(s) \in Nat /\ \A i \in 1..Len(s) : Append(s, t)[i] = s[i]
  OBVIOUS
<1> QED BY <1>1, <1>2, <1>3

LEMMA TailPlaces ==
  ASSUME NEW s \in Seq(Nat), s # <<>>
  PROVE  /\ Tail(s) \in Seq(Nat) /\ Head(s) \in Nat /\ 1 \in DOMAIN s /\ Head(s) = s[1]
         /\ \A i \in DOMAIN Tail(s) : i + 1 \in DOMAIN s /\ Tail(s)[i] = s[i + 1]
         /\ \A k \in DOMAIN s : s[k] = Head(s) \/ \E i \in DOMAIN Tail(s) : Tail(s)[i] = s[k]
<1>1. Tail(s) \in Seq(Nat) /\ Head(s) \in Nat /\ 1 \in DOMAIN s /\ Head(s) = s[1]
  OBVIOUS
<1>2. \A i \in DOMAIN Tail(s) : i + 1 \in DOMAIN s /\ Tail(s)[i] = s[i + 1]
  OBVIOUS
<1>3. \A k \in DOMAIN s : k # 1 => k - 1 \in DOMAIN Tail(s) /\ Tail(s)[k - 1] = s[k]
  OBVIOUS
<1> QED BY <1>1, <1>2, <1>3

LEMMA QueuePut ==
  ASSUME NEW got, NEW queue, NEW n, Shared(got, queue, n)
  PROVE  Shared(got, Append(queue, n + 1), n + 1)
<1> DEFINE q == Append(queue, n + 1)
<1>1. n \in Nat /\ queue \in Seq(Nat) /\ n + 1 \in Nat
  BY DEF Shared
<1>2. /\ \A k \in DOMAIN queue : queue[k] \in 1..n
      /\ \A r \in TokenReaders : \A i \in DOMAIN got[r] : got[r][i] \in 1..n
  BY DEF Shared
<1>3. /\ q \in Seq(Nat)
      /\ \A i \in DOMAIN queue : i \in DOMAIN q /\ q[i] = queue[i]
      /\ \A i \in DOMAIN q : \/ i \in DOMAIN queue /\ q[i] = queue[i]
                             \/ i \notin DOMAIN queue /\ q[i] = n + 1
      /\ \E i \in DOMAIN q : q[i] = n + 1
  BY <1>1, AppendPlaces
<1>4. Ascending(q)
  BY <1>1, <1>2, AscendingAppend DEF Shared
<1> HIDE DEF q
<1>5. \A k \in DOMAIN q : q[k] \in 1..(n + 1)
  <2>1. 1..n \subseteq 1..(n + 1) /\ n + 1 \in 1..(n + 1)
    BY <1>1
  <2> QED BY <1>2, <1>3, <2>1, Zenon
<1>6. \A r \in TokenReaders : \A i \in DOMAIN got[r], k \in DOMAIN q : got[r][i] < q[k]
  <2> SUFFICES ASSUME NEW r \in TokenReaders, NEW i \in DOMAIN got[r], NEW k \in DOMAIN q
               PROVE  got[r][i] < q[k]
    OBVIOUS
  <2>1. CASE k \in DOMAIN queue
    BY <1>3, <2>1 DEF Shared
  <2>2. CASE k \notin DOMAIN queue
    <3>1. got[r][i] \in 1..n
      BY <1>2
    <3>2. q[k] = n + 1
      BY <1>3, <2>2
    <3> QED BY <1>1, <3>1, <3>2
  <2> QED BY <2>1, <2>2
<1>7. \A t \in 1..(n + 1) : \/ \E k \in DOMAIN q : q[k] = t
                            \/ \E r \in TokenReaders : \E i \in DOMAIN got[r] : got[r][i] = t
  <2> SUFFICES ASSUME NEW t \in 1..(n + 1), ~\E k \in DOMAIN q : q[k] = t
               PROVE  \E r \in TokenReaders : \E i \in DOMAIN got[r] : got[r][i] = t
    OBVIOUS
  <2>1. t # n + 1
    BY <1>3
  <2>2. t \in 1..n
    BY <1>1, <2>1
  <2>3. ~\E k \in DOMAIN queue : queue[k] = t
    BY <1>3
  <2> QED BY <2>2, <2>3 DEF Shared
<1>8. \A r \in TokenReaders : \A i \in DOMAIN got[r] : got[r][i] \in 1..(n + 1)
  BY <1>1, <1>2
<1>9. Shared(got, q, n + 1)
  BY <1>1, <1>3, <1>4, <1>5, <1>6, <1>7, <1>8 DEF Shared
<1> QED BY <1>9 DEF q

(* A token that is newer than all that were got, and not behind any that   *)
(* waits, goes to a reader.                                                *)
LEMMA Given ==
  ASSUME NEW got, NEW queue, NEW n, Shared(got, queue, n), NEW r \in TokenReaders,
         NEW t \in Nat, t >= 1, NEW m \in Nat, m >= n, t <= m,
         NEW q \in Seq(Nat), Ascending(q), \A k \in DOMAIN q : q[k] \in 1..m /\ q[k] > t,
         \A k \in DOMAIN q : \E j \in DOMAIN queue : queue[j] = q[k],
         \A k \in DOMAIN queue : queue[k] = t \/ \E j \in DOMAIN q : q[j] = queue[k],
         \A u \in TokenReaders : \A i \in DOMAIN got[u] : got[u][i] < t,
         \A i \in 1..m : i <= n \/ i = t
  PROVE  Shared([got EXCEPT ![r] = Append(@, t)], q, m)
<1> DEFINE g == [got EXCEPT ![r] = Append(@, t)]
<1>1. n \in Nat /\ got[r] \in Seq(Nat) /\ got \in [TokenReaders -> Seq(Nat)]
  BY DEF Shared
<1>2. /\ Append(got[r], t) \in Seq(Nat) /\ Ascending(Append(got[r], t))
      /\ \A i \in DOMAIN got[r] : i \in DOMAIN Append(got[r], t) /\ Append(got[r], t)[i] = got[r][i]
      /\ \A i \in DOMAIN Append(got[r], t) : \/ i \in DOMAIN got[r] /\ Append(got[r], t)[i] = got[r][i]
                                             \/ i \notin DOMAIN got[r] /\ Append(got[r], t)[i] = t
      /\ \E i \in DOMAIN Append(got[r], t) : Append(got[r], t)[i] = t
  BY <1>1, AscendingAppend, AppendPlaces DEF Shared
<1>3. g[r] = Append(got[r], t) /\ (\A u \in TokenReaders \ {r} : g[u] = got[u]) /\ g \in [TokenReaders -> Seq(Nat)]
  BY <1>1, <1>2
<1> HIDE DEF g
<1>4. \A u \in TokenReaders : Ascending(g[u])
  BY <1>2, <1>3 DEF Shared
<1>5. \A u \in TokenReaders : \A i \in DOMAIN g[u] :
        \/ u = r /\ g[u][i] = t
        \/ i \in DOMAIN got[u] /\ g[u][i] = got[u][i]
  BY <1>2, <1>3
<1>6. \A u \in TokenReaders : \A i \in DOMAIN got[u] : i \in DOMAIN g[u] /\ g[u][i] = got[u][i]
  BY <1>2, <1>3
<1>7. \A u \in TokenReaders : \A i \in DOMAIN g[u] : g[u][i] \in 1..m /\ g[u][i] <= t
  <2> SUFFICES ASSUME NEW u \in TokenReaders, NEW i \in DOMAIN g[u] PROVE g[u][i] \in 1..m /\ g[u][i] <= t
    OBVIOUS
  <2>1. CASE g[u][i] = t
    BY <2>1
  <2>2. CASE i \in DOMAIN got[u] /\ g[u][i] = got[u][i]
    <3>1. got[u][i] \in 1..n /\ got[u][i] < t
      BY <2>2 DEF Shared
    <3> QED BY <1>1, <2>2, <3>1
  <2> QED BY <1>5, <2>1, <2>2
<1>8. ASSUME NEW v \in TokenReaders, NEW u \in TokenReaders, NEW i \in DOMAIN g[v], NEW j \in DOMAIN g[u],
             g[v][i] = g[u][j]
      PROVE  v = u
  <2>1. CASE g[v][i] = t
    <3>1. \A w \in TokenReaders : \A k \in DOMAIN got[w] : got[w][k] \in Nat
      BY DEF Shared
    <3>2. \A w \in TokenReaders : \A k \in DOMAIN got[w] : got[w][k] # t
      BY <3>1
    <3>3. v = r
      BY <1>5, <2>1, <3>2
    <3>4. g[u][j] = t
      BY <1>8, <2>1
    <3>5. u = r
      BY <1>5, <3>2, <3>4
    <3> QED BY <3>3, <3>5
  <2>2. CASE g[v][i] # t
    <3>1. i \in DOMAIN got[v] /\ j \in DOMAIN got[u] /\ got[v][i] = got[u][j]
      BY <1>5, <1>8, <2>2
    <3> QED BY <3>1 DEF Shared
  <2> QED BY <2>1, <2>2
<1>9. ASSUME NEW x \in 1..m
      PROVE  \/ \E k \in DOMAIN q : q[k] = x
             \/ \E u \in TokenReaders : \E i \in DOMAIN g[u] : g[u][i] = x
  <2>1. CASE x = t
    <3>1. PICK i \in DOMAIN Append(got[r], t) : Append(got[r], t)[i] = t
      BY <1>2
    <3>2. i \in DOMAIN g[r] /\ g[r][i] = x
      BY <1>3, <2>1, <3>1
    <3> QED BY <3>2
  <2>2. CASE x # t
    <3>0. x <= n
      BY <1>9, <2>2
    <3>1. x \in 1..n
      BY <1>1, <1>9, <3>0
    <3>2. CASE \E k \in DOMAIN queue : queue[k] = x
      BY <2>2, <3>2
    <3>3. CASE \E u \in TokenReaders : \E i \in DOMAIN got[u] : got[u][i] = x
      BY <1>6, <3>3
    <3> QED BY <3>1, <3>2, <3>3 DEF Shared
  <2> QED BY <2>1, <2>2
<1>10. \A u \in TokenReaders : \A i \in DOMAIN g[u], k \in DOMAIN q : g[u][i] < q[k]
  <2> SUFFICES ASSUME NEW u \in TokenReaders, NEW i \in DOMAIN g[u], NEW k \in DOMAIN q PROVE g[u][i] < q[k]
    OBVIOUS
  <2>1. g[u][i] \in 1..m /\ g[u][i] <= t /\ q[k] \in 1..m /\ q[k] > t
    BY <1>7
  <2> QED BY <2>1
<1>11. Shared(g, q, m)
  BY <1>3, <1>4, <1>7, <1>8, <1>9, <1>10 DEF Shared
<1> QED BY <1>11 DEF g

LEMMA Handed ==
  ASSUME NEW got, NEW n, Shared(got, <<>>, n), NEW r \in TokenReaders
  PROVE  Shared([got EXCEPT ![r] = Append(@, n + 1)], <<>>, n + 1)
<1>1. n \in Nat
  BY DEF Shared
<1>2. \A u \in TokenReaders : \A i \in DOMAIN got[u] : got[u][i] < n + 1
  BY <1>1 DEF Shared
<1>3. DOMAIN <<>> = {}
  OBVIOUS
<1> DEFINE q == <<>>
<1>4. q \in Seq(Nat)
  OBVIOUS
<1>5. Ascending(q)
  BY <1>3 DEF Ascending
<1>6. DOMAIN q = {}
  BY <1>3
<1>7. n + 1 \in Nat /\ n + 1 >= n /\ n + 1 >= 1 /\ n + 1 <= n + 1
  BY <1>1
<1>8. \A i \in 1..(n + 1) : i <= n \/ i = n + 1
  BY <1>1
<1>9. Shared(got, q, n)
  OBVIOUS
<1> HIDE DEF q
<1>10. /\ \A k \in DOMAIN q : q[k] \in 1..(n + 1) /\ q[k] > n + 1
       /\ \A k \in DOMAIN q : \E j \in DOMAIN q : q[j] = q[k]
       /\ \A k \in DOMAIN q : q[k] = n + 1 \/ \E j \in DOMAIN q : q[j] = q[k]
  BY <1>6
<1>11. Shared([got EXCEPT ![r] = Append(@, n + 1)], q, n + 1)
  BY <1>2, <1>4, <1>5, <1>7, <1>8, <1>9, <1>10, Given
<1> QED BY <1>11 DEF q

LEMMA Taken ==
  ASSUME NEW got, NEW queue, NEW n, Shared(got, queue, n), NEW r \in TokenReaders, queue # <<>>
  PROVE  Shared([got EXCEPT ![r] = Append(@, Head(queue))], Tail(queue), n)
<1> DEFINE q == Tail(queue)
           h == Head(queue)
<1>1. n \in Nat /\ queue \in Seq(Nat) /\ Ascending(queue)
  BY DEF Shared
<1>2. /\ q \in Seq(Nat) /\ h \in Nat /\ 1 \in DOMAIN queue /\ h = queue[1]
      /\ \A i \in DOMAIN q : i + 1 \in DOMAIN queue /\ q[i] = queue[i + 1]
      /\ \A k \in DOMAIN queue : queue[k] = h \/ \E i \in DOMAIN q : q[i] = queue[k]
  BY <1>1, TailPlaces
<1>3. Ascending(q) /\ \A i \in DOMAIN q : h < q[i]
  BY <1>1, AscendingTail
<1> HIDE DEF q, h
<1>4. h \in 1..n /\ \A i \in DOMAIN q : q[i] \in 1..n
  BY <1>2 DEF Shared
<1>5. \A u \in TokenReaders : \A i \in DOMAIN got[u] : got[u][i] < h
  BY <1>2 DEF Shared
<1>6. \A k \in DOMAIN q : q[k] \in 1..n /\ q[k] > h
  BY <1>1, <1>2, <1>3, <1>4
<1>7. \A k \in DOMAIN q : \E j \in DOMAIN queue : queue[j] = q[k]
  BY <1>2
<1>8. h >= 1 /\ n >= n /\ h <= n
  BY <1>1, <1>4
<1>9. \A i \in 1..n : i <= n \/ i = h
  BY <1>1
<1>10. \A k \in DOMAIN queue : queue[k] = h \/ \E j \in DOMAIN q : q[j] = queue[k]
  BY <1>2
<1>11. h \in Nat /\ q \in Seq(Nat) /\ Ascending(q) /\ n \in Nat
  BY <1>1, <1>2, <1>3
<1>12. Shared([got EXCEPT ![r] = Append(@, h)], q, n)
  BY <1>5, <1>6, <1>7, <1>8, <1>9, <1>10, <1>11, Given
<1> QED BY <1>12 DEF q, h

ReaderAt == {"loop", "flush", "waiting", "returned"}
Got(r) == tokenReader[r].yielded \o HandedTo(r)
AllGot == [r \in TokenReaders |-> Got(r)]

WriterInv ==
  /\ tokenReader \in [TokenReaders -> [at : ReaderAt, handed : Nat \cup {End}, yielded : Seq(Nat)]]
  /\ Shared(AllGot, tokens, pushed)
  /\ waiters \in Seq(TokenReaders)
  /\ waiters # <<>> => tokens = <<>>
  /\ \A i \in DOMAIN waiters : tokenReader[waiters[i]].at = "waiting" /\ tokenReader[waiters[i]].handed = 0
  /\ \A i, j \in DOMAIN waiters : waiters[i] = waiters[j] => i = j
  /\ \A r \in TokenReaders : tokenReader[r].at # "waiting" => tokenReader[r].handed = 0

LEMMA NothingHanded ==
  ASSUME WriterInv, NEW r \in TokenReaders, tokenReader[r].handed \in {0, End}
  PROVE  Got(r) = tokenReader[r].yielded
<1>1. HandedTo(r) = <<>> /\ tokenReader[r].yielded \in Seq(Nat)
  BY DEF WriterInv, HandedTo, End
<1> QED BY <1>1, ConcatEmptySeq DEF Got

LEMMA SomethingHanded ==
  ASSUME WriterInv, NEW r \in TokenReaders, tokenReader[r].handed \notin {0, End}
  PROVE  Got(r) = Append(tokenReader[r].yielded, tokenReader[r].handed)
<1>1. tokenReader[r].handed \in Nat /\ tokenReader[r].handed > 0 /\ tokenReader[r].yielded \in Seq(Nat)
  BY DEF WriterInv, End
<1>2. Got(r) = tokenReader[r].yielded \o <<tokenReader[r].handed>>
  BY <1>1 DEF Got, HandedTo
<1> QED BY <1>1, <1>2, AppendIsConcat

LEMMA WriterInitially == TokenInit => WriterInv
<1> SUFFICES ASSUME TokenInit PROVE WriterInv
  OBVIOUS
<1>1. /\ pushed = 0 /\ tokens = <<>> /\ waiters = <<>>
      /\ tokenReader = [r \in TokenReaders |-> [at |-> "loop", handed |-> 0, yielded |-> <<>>]]
  BY DEF TokenInit
<1>2. \A r \in TokenReaders : Got(r) = <<>>
  BY <1>1 DEF Got, HandedTo
<1>3. AllGot = [r \in TokenReaders |-> <<>>] /\ <<>> \in Seq(Nat) /\ DOMAIN <<>> = {}
  BY <1>2 DEF AllGot
<1>4. Shared(AllGot, tokens, pushed)
  BY <1>1, <1>3 DEF Shared, Ascending
<1> QED BY <1>1, <1>4 DEF WriterInv, ReaderAt

(* A step that leaves the queue and the readers' tokens as they are.       *)
LEMMA GotStays ==
  ASSUME WriterInv, tokens' = tokens, pushed' = pushed, \A r \in TokenReaders : Got(r)' = Got(r)
  PROVE  Shared(AllGot, tokens, pushed)'
<1>1. AllGot' = AllGot
  BY DEF AllGot
<1> QED BY <1>1 DEF WriterInv, Shared

LEMMA WriterStep == WriterInv /\ [TokenNext]_tokenVars => WriterInv'
<1> SUFFICES ASSUME WriterInv, [TokenNext]_tokenVars PROVE WriterInv'
  OBVIOUS
<1>0. /\ tokenReader \in [TokenReaders -> [at : ReaderAt, handed : Nat \cup {End}, yielded : Seq(Nat)]]
      /\ waiters \in Seq(TokenReaders)
      /\ Shared(AllGot, tokens, pushed) /\ pushed \in Nat /\ tokens \in Seq(Nat)
  BY DEF WriterInv, Shared
<1>1. ASSUME UNCHANGED writerVars PROVE WriterInv'
  <2>1. \A r \in TokenReaders : Got(r)' = Got(r)
    BY <1>1 DEF Got, HandedTo, writerVars
  <2>2. Shared(AllGot, tokens, pushed)'
    BY <1>1, <2>1, GotStays DEF writerVars
  <2> QED BY <1>1, <2>2 DEF WriterInv, writerVars
<1>2. ASSUME PushToken PROVE WriterInv'
  <2>1. CASE waiters # <<>>
    <3>0. PICK r \in TokenReaders : r = Head(waiters)
      BY <1>0, <2>1
    <3>1. /\ r = waiters[1] /\ tokens = <<>>
          /\ tokenReader[r].at = "waiting" /\ tokenReader[r].handed = 0
      BY <1>0, <2>1, <3>0 DEF WriterInv
    <3>2. /\ pushed' = pushed + 1 /\ waiters' = Tail(waiters) /\ tokens' = tokens
          /\ tokenReader' = [tokenReader EXCEPT ![r].handed = pushed + 1]
      BY <1>2, <2>1, <3>0 DEF PushToken
    <3>3. /\ waiters' \in Seq(TokenReaders)
          /\ \A i \in DOMAIN waiters' : i + 1 \in DOMAIN waiters /\ waiters'[i] = waiters[i + 1] /\ waiters'[i] # r
      <4>1. waiters' \in Seq(TokenReaders) /\ 1 \in DOMAIN waiters
        BY <1>0, <2>1, <3>2
      <4>2. \A i \in DOMAIN waiters' : i + 1 \in DOMAIN waiters /\ waiters'[i] = waiters[i + 1] /\ i + 1 # 1
        BY <1>0, <2>1, <3>2
      <4> QED BY <3>1, <4>1, <4>2 DEF WriterInv
    <3>4. Got(r) = tokenReader[r].yielded /\ tokenReader[r].yielded \in Seq(Nat)
      BY <1>0, <3>1, NothingHanded
    <3>5. Got(r)' = Append(Got(r), pushed + 1)
      <4>1. tokenReader'[r].yielded = tokenReader[r].yielded /\ tokenReader'[r].handed = pushed + 1
        BY <1>0, <3>1, <3>2
      <4>2. HandedTo(r)' = <<pushed + 1>>
        BY <1>0, <4>1 DEF HandedTo
      <4> QED BY <1>0, <3>4, <4>1, <4>2, AppendIsConcat DEF Got
    <3>6. \A u \in TokenReaders \ {r} : Got(u)' = Got(u)
      BY <1>0, <3>2 DEF Got, HandedTo
    <3>7. AllGot' = [AllGot EXCEPT ![r] = Append(@, pushed + 1)]
      BY <3>1, <3>5, <3>6 DEF AllGot
    <3>8. Shared(AllGot, tokens, pushed)'
      BY <1>0, <3>1, <3>2, <3>7, Handed
    <3>9. /\ tokenReader' \in [TokenReaders -> [at : ReaderAt, handed : Nat \cup {End}, yielded : Seq(Nat)]]
          /\ \A u \in TokenReaders : tokenReader'[u].at = tokenReader[u].at
          /\ \A u \in TokenReaders \ {r} : tokenReader'[u].handed = tokenReader[u].handed
      <4> DEFINE rec == [tokenReader[r] EXCEPT !.handed = pushed + 1]
      <4>1. pushed + 1 \in Nat \cup {End}
        BY <1>0
      <4>2. rec \in [at : ReaderAt, handed : Nat \cup {End}, yielded : Seq(Nat)] /\ rec.at = tokenReader[r].at
        BY <1>0, <4>1
      <4>3. tokenReader' = [tokenReader EXCEPT ![r] = rec]
        BY <3>2
      <4> HIDE DEF rec
      <4> QED BY <1>0, <4>2, <4>3
    <3>10. \A i \in DOMAIN waiters' : waiters'[i] \in TokenReaders
      BY <3>3
    <3>11. \A i \in DOMAIN waiters' : tokenReader'[waiters'[i]].at = "waiting" /\ tokenReader'[waiters'[i]].handed = 0
      BY <3>3, <3>9, <3>10 DEF WriterInv
    <3>12. \A i, j \in DOMAIN waiters' : waiters'[i] = waiters'[j] => i = j
      BY <1>0, <3>3 DEF WriterInv
    <3>13. \A u \in TokenReaders : tokenReader'[u].at # "waiting" => tokenReader'[u].handed = 0
      BY <3>1, <3>9 DEF WriterInv
    <3> QED BY <3>1, <3>2, <3>3, <3>8, <3>9, <3>11, <3>12, <3>13 DEF WriterInv
  <2>2. CASE waiters = <<>>
    <3>1. pushed' = pushed + 1 /\ tokens' = Append(tokens, pushed + 1) /\ UNCHANGED <<waiters, tokenReader>>
      BY <1>2, <2>2 DEF PushToken
    <3>2. AllGot' = AllGot
      BY <3>1 DEF AllGot, Got, HandedTo
    <3>3. Shared(AllGot, tokens, pushed)'
      BY <1>0, <3>1, <3>2, QueuePut
    <3> QED BY <2>2, <3>1, <3>3 DEF WriterInv
  <2> QED BY <2>1, <2>2
<1>3. ASSUME EndTokens PROVE WriterInv'
  <2>1. /\ waiters' = <<>> /\ tokens' = tokens /\ pushed' = pushed
        /\ tokenReader' = [r \in TokenReaders |-> IF r \in ToSet(waiters) THEN [tokenReader[r] EXCEPT !.handed = End]
                                                  ELSE tokenReader[r]]
    BY <1>3 DEF EndTokens
  <2>2. \A r \in ToSet(waiters) : r \in TokenReaders /\ tokenReader[r].at = "waiting" /\ tokenReader[r].handed = 0
    BY <1>0 DEF WriterInv, ToSet
  <2>3. /\ tokenReader' \in [TokenReaders -> [at : ReaderAt, handed : Nat \cup {End}, yielded : Seq(Nat)]]
        /\ \A r \in TokenReaders : /\ tokenReader'[r].at = tokenReader[r].at
                                   /\ tokenReader'[r].yielded = tokenReader[r].yielded
        /\ \A r \in ToSet(waiters) : tokenReader'[r].handed = End
        /\ \A r \in TokenReaders \ ToSet(waiters) : tokenReader'[r].handed = tokenReader[r].handed
    BY <1>0, <2>1, <2>2
  <2>4. \A r \in TokenReaders : Got(r)' = Got(r)
    <3>1. ASSUME NEW r \in ToSet(waiters) PROVE Got(r)' = Got(r)
      <4>1. HandedTo(r)' = <<>> /\ HandedTo(r) = <<>>
        BY <2>2, <2>3, <3>1 DEF HandedTo, End
      <4> QED BY <2>2, <2>3, <4>1 DEF Got
    <3>2. ASSUME NEW r \in TokenReaders \ ToSet(waiters) PROVE Got(r)' = Got(r)
      BY <2>3, <3>2 DEF Got, HandedTo
    <3> QED BY <3>1, <3>2
  <2>5. Shared(AllGot, tokens, pushed)'
    BY <2>1, <2>4, GotStays
  <2>6. waiters' \in Seq(TokenReaders) /\ DOMAIN waiters' = {}
    BY <2>1
  <2>7. \A r \in TokenReaders : tokenReader'[r].at # "waiting" => tokenReader'[r].handed = 0
    BY <2>2, <2>3 DEF WriterInv
  <2> QED BY <2>1, <2>3, <2>5, <2>6, <2>7 DEF WriterInv
<1>4. ASSUME NEW r \in TokenReaders, TakeQueued(r) PROVE WriterInv'
  <2>1. /\ tokens # <<>> /\ tokens' = Tail(tokens) /\ pushed' = pushed /\ waiters' = waiters
        /\ tokenReader[r].at \in {"loop", "flush"}
        /\ tokenReader' = [tokenReader EXCEPT ![r] =
             [at |-> tokenReader[r].at, handed |-> 0, yielded |-> Append(@.yielded, Head(tokens))]]
    BY <1>4 DEF TakeQueued, Yields
  <2>2. tokenReader[r].handed = 0 /\ waiters = <<>>
    BY <2>1 DEF WriterInv
  <2>3. Head(tokens) \in Nat
    BY <1>0, <2>1
  <2>4. Got(r) = tokenReader[r].yielded /\ tokenReader[r].yielded \in Seq(Nat)
    BY <1>0, <2>2, NothingHanded
  <2>5. /\ tokenReader'[r] = [at |-> tokenReader[r].at, handed |-> 0, yielded |-> Append(Got(r), Head(tokens))]
        /\ Append(Got(r), Head(tokens)) \in Seq(Nat)
    BY <1>0, <2>1, <2>3, <2>4
  <2>6. Got(r)' = Append(Got(r), Head(tokens))
    <3>1. HandedTo(r)' = <<>>
      BY <2>5 DEF HandedTo
    <3> QED BY <2>5, <3>1, ConcatEmptySeq DEF Got
  <2>7. \A u \in TokenReaders \ {r} : Got(u)' = Got(u)
    BY <1>0, <2>1 DEF Got, HandedTo
  <2>8. AllGot' = [AllGot EXCEPT ![r] = Append(@, Head(tokens))]
    BY <2>6, <2>7 DEF AllGot
  <2>9. Shared(AllGot, tokens, pushed)'
    BY <1>0, <2>1, <2>8, Taken
  <2>10. /\ tokenReader' \in [TokenReaders -> [at : ReaderAt, handed : Nat \cup {End}, yielded : Seq(Nat)]]
         /\ \A u \in TokenReaders : tokenReader'[u].at # "waiting" => tokenReader'[u].handed = 0
    BY <1>0, <2>1, <2>5 DEF WriterInv
  <2>11. DOMAIN waiters' = {}
    BY <2>1, <2>2
  <2> QED BY <2>1, <2>2, <2>9, <2>10, <2>11 DEF WriterInv
<1>5. ASSUME NEW r \in TokenReaders, Stop(r) PROVE WriterInv'
  <2>1. /\ UNCHANGED <<pushed, tokens, waiters>> /\ tokenReader[r].at \in {"loop", "flush"}
        /\ tokenReader' = [tokenReader EXCEPT ![r].at = "returned"]
    BY <1>5 DEF Stop
  <2>2. /\ tokenReader' \in [TokenReaders -> [at : ReaderAt, handed : Nat \cup {End}, yielded : Seq(Nat)]]
        /\ \A u \in TokenReaders : /\ tokenReader'[u].handed = tokenReader[u].handed
                                   /\ tokenReader'[u].yielded = tokenReader[u].yielded
        /\ \A u \in TokenReaders \ {r} : tokenReader'[u].at = tokenReader[u].at
    BY <1>0, <2>1 DEF ReaderAt
  <2>3. \A u \in TokenReaders : Got(u)' = Got(u)
    BY <2>2 DEF Got, HandedTo
  <2>4. Shared(AllGot, tokens, pushed)'
    BY <2>1, <2>3, GotStays
  <2>5. \A i \in DOMAIN waiters : waiters[i] # r /\ waiters[i] \in TokenReaders
    BY <1>0, <2>1 DEF WriterInv
  <2> QED BY <2>1, <2>2, <2>4, <2>5 DEF WriterInv
<1>6. ASSUME NEW r \in TokenReaders, Wait(r) PROVE WriterInv'
  <2>1. /\ UNCHANGED <<pushed, tokens>> /\ tokenReader[r].at = "loop" /\ tokens = <<>>
        /\ tokenReader' = [tokenReader EXCEPT ![r].at = "waiting"] /\ waiters' = Append(waiters, r)
    BY <1>6 DEF Wait
  <2>2. /\ tokenReader' \in [TokenReaders -> [at : ReaderAt, handed : Nat \cup {End}, yielded : Seq(Nat)]]
        /\ \A u \in TokenReaders : /\ tokenReader'[u].handed = tokenReader[u].handed
                                   /\ tokenReader'[u].yielded = tokenReader[u].yielded
        /\ \A u \in TokenReaders \ {r} : tokenReader'[u].at = tokenReader[u].at
        /\ tokenReader'[r].at = "waiting" /\ tokenReader[r].handed = 0
    BY <1>0, <2>1 DEF ReaderAt, WriterInv
  <2>3. \A u \in TokenReaders : Got(u)' = Got(u)
    BY <2>2 DEF Got, HandedTo
  <2>4. Shared(AllGot, tokens, pushed)'
    BY <2>1, <2>3, GotStays
  <2>5. \A i \in DOMAIN waiters : waiters[i] # r /\ waiters[i] \in TokenReaders
    BY <1>0, <2>1 DEF WriterInv
  <2>6. /\ waiters' \in Seq(TokenReaders)
        /\ \A i \in DOMAIN waiters' : \/ i \in DOMAIN waiters /\ waiters'[i] = waiters[i]
                                      \/ i = Len(waiters) + 1 /\ waiters'[i] = r
    BY <1>0, <2>1
  <2>7. \A i, j \in DOMAIN waiters' : waiters'[i] = waiters'[j] => i = j
    BY <2>5, <2>6 DEF WriterInv
  <2>8. \A i \in DOMAIN waiters' : tokenReader'[waiters'[i]].at = "waiting" /\ tokenReader'[waiters'[i]].handed = 0
    <3>1. \A i \in DOMAIN waiters : tokenReader'[waiters[i]].at = "waiting" /\ tokenReader'[waiters[i]].handed = 0
      BY <2>2, <2>5 DEF WriterInv
    <3> QED BY <2>2, <2>6, <3>1
  <2>9. \A u \in TokenReaders : tokenReader'[u].at # "waiting" => tokenReader'[u].handed = 0
    BY <2>2 DEF WriterInv
  <2> QED BY <2>1, <2>2, <2>4, <2>6, <2>7, <2>8, <2>9 DEF WriterInv
<1>7. ASSUME NEW r \in TokenReaders, Resume(r) PROVE WriterInv'
  <2>1. /\ UNCHANGED <<pushed, tokens, waiters>> /\ tokenReader[r].at = "waiting" /\ tokenReader[r].handed # 0
    BY <1>7 DEF Resume
  <2>2. \A i \in DOMAIN waiters : waiters[i] # r /\ waiters[i] \in TokenReaders
    BY <1>0, <2>1 DEF WriterInv
  <2>3. /\ tokenReader' \in [TokenReaders -> [at : ReaderAt, handed : Nat \cup {End}, yielded : Seq(Nat)]]
        /\ tokenReader'[r].handed = 0
        /\ \A u \in TokenReaders \ {r} : tokenReader'[u] = tokenReader[u]
        /\ tokenReader'[r].yielded = Got(r)
    <3>1. CASE tokenReader[r].handed = End
      <4>1. tokenReader' = [tokenReader EXCEPT ![r].at = "flush", ![r].handed = 0]
        BY <1>7, <3>1 DEF Resume
      <4>2. Got(r) = tokenReader[r].yielded
        BY <3>1, NothingHanded
      <4> QED BY <1>0, <4>1, <4>2 DEF ReaderAt
    <3>2. CASE tokenReader[r].handed # End
      <4>1. tokenReader' = [tokenReader EXCEPT ![r] =
              [at |-> "loop", handed |-> 0, yielded |-> Append(@.yielded, tokenReader[r].handed)]]
        BY <1>7, <3>2 DEF Resume, Yields
      <4>2. Got(r) = Append(tokenReader[r].yielded, tokenReader[r].handed)
        BY <2>1, <3>2, SomethingHanded
      <4>3. Append(tokenReader[r].yielded, tokenReader[r].handed) \in Seq(Nat)
        BY <1>0, <3>2
      <4> QED BY <1>0, <4>1, <4>2, <4>3 DEF ReaderAt
    <3> QED BY <3>1, <3>2
  <2>4. Got(r)' = Got(r)
    <3>1. HandedTo(r)' = <<>> /\ tokenReader'[r].yielded \in Seq(Nat)
      BY <2>3 DEF HandedTo
    <3> QED BY <2>3, <3>1 DEF Got
  <2>5. \A u \in TokenReaders : Got(u)' = Got(u)
    BY <2>3, <2>4 DEF Got, HandedTo
  <2>6. Shared(AllGot, tokens, pushed)'
    BY <2>1, <2>5, GotStays
  <2>7. \A u \in TokenReaders : tokenReader'[u].at # "waiting" => tokenReader'[u].handed = 0
    BY <2>3 DEF WriterInv
  <2> QED BY <2>1, <2>2, <2>3, <2>6, <2>7 DEF WriterInv
<1>8. PushItem \/ Drain \/ UNCHANGED tokenVars => UNCHANGED writerVars
  BY DEF PushItem, Drain, tokenVars
<1> QED
  BY <1>1, <1>2, <1>3, <1>4, <1>5, <1>6, <1>7, <1>8 DEF TokenNext

LEMMA WriterHolds ==
  ASSUME WriterInv
  PROVE  /\ \A t \in 1..pushed :
              Cardinality({r \in TokenReaders : t \in ToSet(tokenReader[r].yielded \o HandedTo(r))})
                + (IF t \in ToSet(tokens) THEN 1 ELSE 0) = 1
         /\ \A r \in TokenReaders : Ascending(tokenReader[r].yielded \o HandedTo(r))
<1>1. \A r \in TokenReaders : AllGot[r] = Got(r) /\ Ascending(Got(r))
  BY DEF WriterInv, Shared, AllGot
<1>2. ASSUME NEW t \in 1..pushed
      PROVE Cardinality({r \in TokenReaders : t \in ToSet(Got(r))}) + (IF t \in ToSet(tokens) THEN 1 ELSE 0) = 1
  <2> DEFINE Holders == {r \in TokenReaders : t \in ToSet(Got(r))}
  <2>1. \A r \in TokenReaders : r \in Holders <=> \E i \in DOMAIN AllGot[r] : AllGot[r][i] = t
    BY <1>1 DEF ToSet
  <2> HIDE DEF Holders
  <2>2. \A r, u \in Holders : r = u
    BY <2>1 DEF WriterInv, Shared, Holders
  <2>3. t \in ToSet(tokens) <=> \E k \in DOMAIN tokens : tokens[k] = t
    BY DEF ToSet
  <2>4. CASE t \in ToSet(tokens)
    <3>1. PICK k \in DOMAIN tokens : tokens[k] = t
      BY <2>3, <2>4
    <3>2. \A r \in TokenReaders : \A i \in DOMAIN AllGot[r] : AllGot[r][i] < tokens[k]
      BY DEF WriterInv, Shared
    <3>3. Holders = {}
      BY <2>1, <3>1, <3>2 DEF Holders
    <3> QED BY <2>4, <3>3, FS_EmptySet DEF Holders
  <2>5. CASE t \notin ToSet(tokens)
    <3>1. PICK r \in TokenReaders : r \in Holders
      BY <1>2, <2>1, <2>3, <2>5 DEF WriterInv, Shared
    <3>2. Holders = {r}
      BY <2>2, <3>1
    <3>3. Cardinality({r}) = 1
      BY FS_Singleton
    <3> QED BY <2>5, <3>2, <3>3 DEF Holders
  <2> QED BY <2>4, <2>5
<1> QED BY <1>1, <1>2 DEF Got

-----------------------------------------------------------------------------
LEMMA AroundOnce ==
  ASSUME NEW i \in Int, 0 <= i, i < Capacity + Capacity
  PROVE  /\ i < Capacity => Around(i) = i
         /\ ~(i < Capacity) => Around(i) = i - Capacity
<1>1. ASSUME NEW c \in Nat, c > 0, NEW j \in Nat, j < c PROVE j % c = j
  BY <1>1
<1>2. ASSUME NEW c \in Nat, c > 0, NEW j \in Nat, j >= c, j < c + c PROVE j % c = j - c
  BY <1>2
<1> QED BY <1>1, <1>2, TokenAssumption DEF Around

-----------------------------------------------------------------------------
(***************************************************************************)
(* The ring.  What was drained and what is in the ring are, in order, all  *)
(* items but those that were dropped or refused.                           *)
(***************************************************************************)
Complete(all, gone, n) ==
  /\ all \in Seq(Nat) /\ n \in Nat /\ gone \subseteq 1..n /\ Ascending(all)
  /\ \A i \in DOMAIN all : all[i] \in 1..n /\ all[i] \notin gone
  /\ \A t \in 1..n : t \in gone \/ \E i \in DOMAIN all : all[i] = t

LEMMA OneMore ==
  ASSUME NEW all, NEW gone, NEW n, Complete(all, gone, n)
  PROVE  Complete(Append(all, n + 1), gone, n + 1)
<1> DEFINE more == Append(all, n + 1)
<1>1. /\ all \in Seq(Nat) /\ n \in Nat /\ n + 1 \in Nat /\ gone \subseteq 1..n /\ Ascending(all)
      /\ \A i \in DOMAIN all : all[i] \in 1..n /\ all[i] \notin gone
  BY DEF Complete
<1>2. /\ more \in Seq(Nat)
      /\ \A i \in DOMAIN all : i \in DOMAIN more /\ more[i] = all[i]
      /\ \A i \in DOMAIN more : \/ i \in DOMAIN all /\ more[i] = all[i]
                                \/ i \notin DOMAIN all /\ more[i] = n + 1
      /\ \E i \in DOMAIN more : more[i] = n + 1
  BY <1>1, AppendPlaces
<1>3. Ascending(more)
  <2>1. \A i \in DOMAIN all : all[i] < n + 1
    BY <1>1
  <2> QED BY <1>1, <2>1, AscendingAppend
<1> HIDE DEF more
<1>4. \A i \in DOMAIN more : more[i] \in 1..(n + 1) /\ more[i] \notin gone
  BY <1>1, <1>2
<1>5. ASSUME NEW t \in 1..(n + 1), t \notin gone PROVE \E i \in DOMAIN more : more[i] = t
  <2>1. CASE t = n + 1
    BY <1>2, <2>1
  <2>2. CASE t # n + 1
    <3>1. t \in 1..n
      BY <1>1, <1>5, <2>2
    <3>2. PICK i \in DOMAIN all : all[i] = t
      BY <1>5, <3>1 DEF Complete
    <3> QED BY <1>2, <3>2
  <2> QED BY <2>1, <2>2
<1>6. gone \subseteq 1..(n + 1)
  BY <1>1
<1>7. Complete(more, gone, n + 1)
  BY <1>1, <1>2, <1>3, <1>4, <1>5, <1>6 DEF Complete
<1> QED BY <1>7 DEF more

LEMMA OneRefused ==
  ASSUME NEW all, NEW gone, NEW n, Complete(all, gone, n)
  PROVE  Complete(all, gone \cup {n + 1}, n + 1)
<1>1. /\ all \in Seq(Nat) /\ n \in Nat /\ n + 1 \in Nat /\ gone \subseteq 1..n /\ Ascending(all)
      /\ \A i \in DOMAIN all : all[i] \in 1..n /\ all[i] \notin gone
  BY DEF Complete
<1>2. \A i \in DOMAIN all : all[i] \in 1..(n + 1) /\ all[i] \notin gone \cup {n + 1}
  BY <1>1
<1>3. gone \cup {n + 1} \subseteq 1..(n + 1)
  BY <1>1
<1>4. ASSUME NEW t \in 1..(n + 1), t \notin gone \cup {n + 1} PROVE \E i \in DOMAIN all : all[i] = t
  <2>1. t \in 1..n /\ t \notin gone
    BY <1>1, <1>4
  <2> QED BY <2>1 DEF Complete
<1> QED BY <1>1, <1>2, <1>3, <1>4 DEF Complete

(* The oldest item of the ring goes.                                       *)
LEMMA OneDropped ==
  ASSUME NEW old \in Seq(Nat), NEW new \in Seq(Nat), new # <<>>, NEW gone, NEW n, Complete(old \o new, gone, n)
  PROVE  Complete(old \o Tail(new), gone \cup {Head(new)}, n)
<1> DEFINE all == old \o new
           less == old \o Tail(new)
           h == Head(new)
           p == Len(old) + 1
<1>1. /\ all \in Seq(Nat) /\ n \in Nat /\ gone \subseteq 1..n /\ Ascending(all)
      /\ \A i \in DOMAIN all : all[i] \in 1..n /\ all[i] \notin gone
  BY DEF Complete
<1>2. less \in Seq(Nat) /\ p \in DOMAIN all /\ all[p] = h /\ DOMAIN all \subseteq Nat /\ p \in Nat
  OBVIOUS
<1> DEFINE rest == Tail(new)
<1>a. /\ Len(old) \in Nat /\ Len(new) \in Nat /\ Len(new) > 0 /\ rest \in Seq(Nat) /\ Len(rest) = Len(new) - 1
      /\ \A k \in 1..(Len(new) - 1) : rest[k] = new[k + 1]
  OBVIOUS
<1> HIDE DEF rest
<1>b. /\ DOMAIN all = 1..(Len(old) + Len(new)) /\ DOMAIN less = 1..(Len(old) + (Len(new) - 1))
      /\ \A k \in 1..(Len(old) + Len(new)) : all[k] = IF k <= Len(old) THEN old[k] ELSE new[k - Len(old)]
      /\ \A k \in 1..(Len(old) + (Len(new) - 1)) : less[k] = IF k <= Len(old) THEN old[k] ELSE rest[k - Len(old)]
  <2>1. less = old \o rest
    BY DEF rest
  <2>2. ASSUME NEW s \in Seq(Nat), NEW r \in Seq(Nat)
        PROVE  /\ DOMAIN (s \o r) = 1..(Len(s) + Len(r))
               /\ \A k \in 1..(Len(s) + Len(r)) : (s \o r)[k] = IF k <= Len(s) THEN s[k] ELSE r[k - Len(s)]
    OBVIOUS
  <2>3. /\ DOMAIN (old \o rest) = 1..(Len(old) + Len(rest))
        /\ \A k \in 1..(Len(old) + Len(rest)) : (old \o rest)[k] = IF k <= Len(old) THEN old[k] ELSE rest[k - Len(old)]
    BY <1>a, <2>2, Zenon
  <2>4. /\ DOMAIN all = 1..(Len(old) + Len(new))
        /\ \A k \in 1..(Len(old) + Len(new)) : all[k] = IF k <= Len(old) THEN old[k] ELSE new[k - Len(old)]
    BY <2>2, Zenon
  <2> HIDE DEF all, less
  <2> QED BY <1>a, <2>1, <2>3, <2>4, Zenon
<1>c. ASSUME NEW i \in DOMAIN less
      PROVE  IF i < p THEN i \in DOMAIN all /\ less[i] = all[i]
             ELSE i + 1 \in DOMAIN all /\ less[i] = all[i + 1]
  <2>1. i \in Nat /\ i >= 1 /\ i <= Len(old) + (Len(new) - 1)
    BY <1>a, <1>b, <1>c
  <2> HIDE DEF all, less
  <2>2. CASE i < p
    <3>1. i \in 1..(Len(old) + Len(new)) /\ i \in 1..(Len(old) + (Len(new) - 1)) /\ i <= Len(old)
      BY <1>a, <2>1, <2>2
    <3> QED BY <1>b, <2>2, <3>1
  <2>3. CASE ~(i < p)
    <3>1. /\ i + 1 \in 1..(Len(old) + Len(new)) /\ i \in 1..(Len(old) + (Len(new) - 1))
          /\ ~(i <= Len(old)) /\ ~(i + 1 <= Len(old))
          /\ i - Len(old) \in 1..(Len(new) - 1) /\ (i - Len(old)) + 1 = (i + 1) - Len(old)
      <4> DEFINE a == Len(old)
                 b == Len(new)
      <4>1. a \in Nat /\ b \in Nat /\ i \in Nat /\ i > a /\ i <= a + (b - 1) /\ i >= 1
        BY <1>a, <2>1, <2>3
      <4> HIDE DEF a, b
      <4>2. i + 1 \in 1..(a + b) /\ i \in 1..(a + (b - 1)) /\ ~(i <= a) /\ ~(i + 1 <= a)
        BY <4>1
      <4>3. i - a \in 1..(b - 1) /\ (i - a) + 1 = (i + 1) - a
        BY <4>1
      <4> QED BY <4>2, <4>3 DEF a, b
    <3>2. less[i] = rest[i - Len(old)] /\ all[i + 1] = new[(i + 1) - Len(old)]
      BY <1>b, <3>1
    <3>3. rest[i - Len(old)] = new[(i - Len(old)) + 1]
      BY <1>a, <3>1, Zenon
    <3> QED BY <1>b, <2>3, <3>1, <3>2, <3>3
  <2> QED BY <2>2, <2>3
<1>3. \A i \in DOMAIN less : IF i < p THEN i \in DOMAIN all /\ less[i] = all[i]
                             ELSE i + 1 \in DOMAIN all /\ less[i] = all[i + 1]
  BY <1>c
<1>d. ASSUME NEW i \in DOMAIN all
      PROVE  \/ i < p /\ i \in DOMAIN less /\ less[i] = all[i]
             \/ i = p
             \/ i > p /\ i - 1 \in DOMAIN less /\ less[i - 1] = all[i]
  <2>1. i \in Nat /\ i >= 1 /\ i <= Len(old) + Len(new)
    BY <1>a, <1>b, <1>d
  <2> HIDE DEF all, less
  <2>2. CASE i < p
    <3>1. i \in DOMAIN less
      BY <1>a, <1>b, <2>1, <2>2
    <3> QED BY <1>3, <2>2, <3>1
  <2>3. CASE i > p
    <3>1. i - 1 \in DOMAIN less /\ ~(i - 1 < p) /\ (i - 1) + 1 = i
      BY <1>a, <1>b, <2>1, <2>3
    <3>2. less[i - 1] = all[(i - 1) + 1]
      BY <1>3, <3>1
    <3> QED BY <2>3, <3>1, <3>2
  <2> QED BY <1>a, <2>1, <2>2, <2>3
<1>4. \A i \in DOMAIN all : \/ i < p /\ i \in DOMAIN less /\ less[i] = all[i]
                            \/ i = p
                            \/ i > p /\ i - 1 \in DOMAIN less /\ less[i - 1] = all[i]
  BY <1>d
<1>5. DOMAIN less \subseteq Nat
  BY <1>a, <1>b
<1> HIDE DEF all, less, h, p
<1>6. \A i, j \in DOMAIN all : all[i] = all[j] => i = j
  <2> SUFFICES ASSUME NEW i \in DOMAIN all, NEW j \in DOMAIN all, all[i] = all[j] PROVE i = j
    OBVIOUS
  <2>1. i \in Nat /\ j \in Nat /\ all[i] \in Nat /\ all[j] \in Nat
    BY <1>1, <1>2
  <2>2. ~(i < j) /\ ~(j < i)
    BY <1>1, <2>1 DEF Ascending
  <2> QED BY <2>1, <2>2
<1>7. Ascending(less)
  <2> SUFFICES ASSUME NEW i \in DOMAIN less, NEW j \in DOMAIN less, i < j PROVE less[i] < less[j]
    BY DEF Ascending
  <2>1. i \in Nat /\ j \in Nat
    BY <1>5
  <2>2. PICK a \in DOMAIN all : less[i] = all[a] /\ (a = i \/ a = i + 1) /\ (i < p => a = i) /\ (~(i < p) => a = i + 1)
    BY <1>3
  <2>3. PICK b \in DOMAIN all : less[j] = all[b] /\ (b = j \/ b = j + 1) /\ (j < p => b = j) /\ (~(j < p) => b = j + 1)
    BY <1>3
  <2>4. a < b
    BY <1>2, <2>1, <2>2, <2>3
  <2> QED BY <1>1, <2>2, <2>3, <2>4 DEF Ascending
<1>8. \A i \in DOMAIN less : less[i] \in 1..n /\ less[i] \notin gone \cup {h}
  <2> SUFFICES ASSUME NEW i \in DOMAIN less PROVE less[i] \in 1..n /\ less[i] \notin gone \cup {h}
    OBVIOUS
  <2>1. PICK a \in DOMAIN all : less[i] = all[a] /\ a # p
    BY <1>2, <1>3, <1>5
  <2> QED BY <1>1, <1>2, <1>6, <2>1
<1>9. ASSUME NEW t \in 1..n, t \notin gone \cup {h} PROVE \E i \in DOMAIN less : less[i] = t
  <2>1. PICK a \in DOMAIN all : all[a] = t
    BY <1>9 DEF Complete, all
  <2>2. a # p
    BY <1>2, <1>9, <2>1
  <2> QED BY <1>4, <2>1, <2>2
<1>10. gone \cup {h} \subseteq 1..n
  BY <1>1, <1>2
<1>11. Complete(less, gone \cup {h}, n)
  BY <1>1, <1>2, <1>7, <1>8, <1>9, <1>10 DEF Complete
<1> QED BY <1>11 DEF less, h

RingInv ==
  /\ ringSize \in 0..Capacity /\ ringHead \in 0..(Capacity - 1)
  /\ ringTail = Around(ringHead + ringSize)
  /\ ring \in [0..(Capacity - 1) -> Nat \cup {Empty}]
  /\ InRing \in Seq(Nat) /\ drained \in Seq(Nat)
  /\ Complete(drained \o InRing, dropped \cup refused, items)

LEMMA RingPlaces ==
  ASSUME RingInv
  PROVE  /\ Len(InRing) = ringSize /\ DOMAIN InRing = 1..ringSize /\ ringSize \in Nat
         /\ \A i \in 1..ringSize : InRing[i] = ring[Around(ringHead + i - 1)]
<1>1. ringSize \in Nat
  BY TokenAssumption DEF RingInv
<1> QED BY <1>1 DEF InRing

LEMMA RingNumbers ==
  ASSUME RingInv
  PROVE  /\ Capacity \in Nat /\ Capacity > 0 /\ ringSize \in Nat /\ ringSize <= Capacity
         /\ ringHead \in Nat /\ ringHead < Capacity /\ items \in Nat /\ ringTail \in 0..(Capacity - 1)
         /\ /\ ringHead + ringSize < Capacity => ringTail = ringHead + ringSize
            /\ ~(ringHead + ringSize < Capacity) => ringTail = ringHead + ringSize - Capacity
<1>1. /\ Capacity \in Nat /\ Capacity > 0 /\ ringSize \in Nat /\ ringSize <= Capacity
      /\ ringHead \in Nat /\ ringHead < Capacity /\ items \in Nat
  BY TokenAssumption DEF RingInv, Complete
<1>2. ringHead + ringSize \in Int /\ 0 <= ringHead + ringSize /\ ringHead + ringSize < Capacity + Capacity
  BY <1>1
<1>3. /\ ringHead + ringSize < Capacity => ringTail = ringHead + ringSize
      /\ ~(ringHead + ringSize < Capacity) => ringTail = ringHead + ringSize - Capacity
  <2>1. ringTail = Around(ringHead + ringSize)
    BY DEF RingInv
  <2> QED BY <1>1, <1>2, <2>1, AroundOnce
<1> QED BY <1>1, <1>2, <1>3

LEMMA RingInitially == TokenInit => RingInv
<1> SUFFICES ASSUME TokenInit PROVE RingInv
  OBVIOUS
<1>1. /\ ring = [i \in 0..(Capacity - 1) |-> Empty] /\ ringHead = 0 /\ ringTail = 0 /\ ringSize = 0
      /\ refused = {} /\ dropped = {} /\ items = 0 /\ drained = <<>>
  BY DEF TokenInit
<1>2. InRing = <<>>
  BY <1>1 DEF InRing
<1>3. drained \o InRing = <<>> /\ <<>> \in Seq(Nat) /\ DOMAIN <<>> = {}
  BY <1>1, <1>2
<1>4. Complete(drained \o InRing, dropped \cup refused, items)
  BY <1>1, <1>3 DEF Complete, Ascending
<1>5. Around(0) = 0
  <2>1. 0 \in Int /\ 0 <= 0 /\ 0 < Capacity + Capacity /\ 0 < Capacity
    BY TokenAssumption
  <2> QED BY <2>1, AroundOnce
<1> QED BY <1>1, <1>2, <1>3, <1>4, <1>5, TokenAssumption DEF RingInv

LEMMA RingStep == RingInv /\ [TokenNext]_tokenVars => RingInv'
<1> SUFFICES ASSUME RingInv, [TokenNext]_tokenVars PROVE RingInv'
  OBVIOUS
<1> USE TokenAssumption
<1>0. /\ ringSize \in 0..Capacity /\ ringHead \in 0..(Capacity - 1)
      /\ ringTail = Around(ringHead + ringSize)
      /\ ring \in [0..(Capacity - 1) -> Nat \cup {Empty}]
      /\ InRing \in Seq(Nat) /\ drained \in Seq(Nat)
      /\ Complete(drained \o InRing, dropped \cup refused, items)
      /\ items \in Nat
  BY DEF RingInv, Complete
<1>n. /\ Capacity \in Nat /\ Capacity > 0 /\ ringSize \in Nat /\ ringSize <= Capacity
      /\ ringHead \in Nat /\ ringHead < Capacity /\ items \in Nat /\ ringTail \in 0..(Capacity - 1)
      /\ /\ ringHead + ringSize < Capacity => ringTail = ringHead + ringSize
         /\ ~(ringHead + ringSize < Capacity) => ringTail = ringHead + ringSize - Capacity
  BY RingNumbers
<1>a. ASSUME NEW i \in Nat, i < Capacity PROVE Around(i) = i
  <2>1. i \in Int /\ 0 <= i /\ i < Capacity + Capacity
    BY <1>n, <1>a
  <2> QED BY <1>a, <2>1, AroundOnce
<1>b. ASSUME NEW i \in Nat, i < Capacity + Capacity, ~(i < Capacity) PROVE Around(i) = i - Capacity
  <2>1. i \in Int /\ 0 <= i
    OBVIOUS
  <2> QED BY <1>b, <2>1, AroundOnce
<1>1. ASSUME UNCHANGED ringVars PROVE RingInv'
  <2>1. InRing' = InRing
    BY <1>1 DEF InRing, ringVars, Around
  <2> QED BY <1>1, <2>1 DEF RingInv, ringVars, Around
<1>2. ASSUME PushItem PROVE RingInv'
  <2>1. CASE ringSize >= Capacity /\ strategy = "error"
    <3>1. /\ items' = items + 1 /\ refused' = refused \cup {items + 1}
          /\ UNCHANGED <<ring, ringHead, ringTail, ringSize, dropped, drained>>
      BY <1>2, <2>1 DEF PushItem
    <3>2. InRing' = InRing
      BY <3>1 DEF InRing, Around
    <3>3. dropped' \cup refused' = (dropped \cup refused) \cup {items + 1}
      BY <3>1
    <3>4. Complete(drained \o InRing, dropped \cup refused, items)'
      BY <1>0, <3>1, <3>2, <3>3, OneRefused
    <3> QED BY <1>0, <3>1, <3>2, <3>4 DEF RingInv, Around
  <2>2. CASE ~(ringSize >= Capacity) /\ ~(ringSize >= Capacity /\ strategy = "error")
    <3>1. /\ items' = items + 1 /\ ring' = [ring EXCEPT ![ringTail] = items + 1]
          /\ ringTail' = Around(ringTail + 1) /\ ringHead' = ringHead /\ ringSize' = ringSize + 1
          /\ UNCHANGED <<dropped, refused, drained>>
      BY <1>2, <2>2 DEF PushItem
    <3>2. ringSize' \in 0..Capacity
      BY <1>0, <2>2, <3>1
    <3>3. ringTail' = Around(ringHead' + ringSize') /\ ringTail \in 0..(Capacity - 1)
      <4>1. ringTail + 1 \in Nat /\ ringTail + 1 < Capacity + Capacity
        BY <1>n
      <4>2. ringHead + (ringSize + 1) \in Nat /\ ringHead + (ringSize + 1) < Capacity + Capacity
        BY <1>n, <2>2
      <4>3. /\ ringTail + 1 < Capacity => ringTail' = ringTail + 1
            /\ ~(ringTail + 1 < Capacity) => ringTail' = ringTail + 1 - Capacity
        BY <1>a, <1>b, <1>n, <3>1, <4>1
      <4>4. /\ ringHead + (ringSize + 1) < Capacity => Around(ringHead' + ringSize') = ringHead + (ringSize + 1)
            /\ ~(ringHead + (ringSize + 1) < Capacity) => Around(ringHead' + ringSize') = ringHead + (ringSize + 1) - Capacity
        BY <1>a, <1>b, <1>n, <3>1, <4>2
      <4> QED BY <1>n, <2>2, <4>3, <4>4
    <3>4. \A i \in 1..ringSize : Around(ringHead + i - 1) \in 0..(Capacity - 1) /\ Around(ringHead + i - 1) # ringTail
      <4> TAKE i \in 1..ringSize
      <4>1. i \in Nat /\ i >= 1 /\ i <= ringSize /\ ringHead + i - 1 \in Nat /\ ringHead + i - 1 < Capacity + Capacity
        BY <1>n
      <4>2. /\ ringHead + i - 1 < Capacity => Around(ringHead + i - 1) = ringHead + i - 1
            /\ ~(ringHead + i - 1 < Capacity) => Around(ringHead + i - 1) = ringHead + i - 1 - Capacity
        BY <1>a, <1>b, <1>n, <4>1
      <4> QED BY <1>n, <2>2, <4>1, <4>2
    <3>5. ring' \in [0..(Capacity - 1) -> Nat \cup {Empty}]
      <4>1. items + 1 \in Nat \cup {Empty}
        BY <1>n
      <4> QED BY <1>0, <1>n, <3>1, <4>1
    <3>6. InRing' = Append(InRing, items + 1)
      <4>1. InRing' = [i \in 1..(ringSize + 1) |-> ring'[Around(ringHead + i - 1)]]
        BY <3>1 DEF InRing, Around
      <4>2. \A i \in 1..ringSize : ring'[Around(ringHead + i - 1)] = ring[Around(ringHead + i - 1)]
        BY <1>0, <3>1, <3>4
      <4>3. ring'[Around(ringHead + (ringSize + 1) - 1)] = items + 1
        <5>1. ringHead + (ringSize + 1) - 1 = ringHead + ringSize
          BY <1>n
        <5>2. Around(ringHead + (ringSize + 1) - 1) = ringTail
          BY <1>0, <5>1
        <5> QED BY <1>0, <1>n, <3>1, <5>2
      <4>4. Append(InRing, items + 1) = [i \in 1..(ringSize + 1) |-> IF i = ringSize + 1 THEN items + 1 ELSE InRing[i]]
        BY <1>0, RingPlaces
      <4>5. \A i \in 1..(ringSize + 1) : i = ringSize + 1 \/ i \in 1..ringSize
        BY <1>0
      <4> QED BY <4>1, <4>2, <4>3, <4>4, <4>5, RingPlaces
    <3>7. InRing' \in Seq(Nat) /\ drained' \o InRing' = Append(drained \o InRing, items + 1)
      BY <1>0, <3>1, <3>6
    <3>8. Complete(drained \o InRing, dropped \cup refused, items)'
      <4>1. Complete(Append(drained \o InRing, items + 1), dropped \cup refused, items + 1)
        BY <1>0, OneMore
      <4>2. dropped' \cup refused' = dropped \cup refused /\ items' = items + 1
        BY <3>1
      <4> QED BY <3>7, <4>1, <4>2
    <3> QED BY <1>0, <3>1, <3>2, <3>3, <3>5, <3>7, <3>8 DEF RingInv
  <2>3. CASE ringSize >= Capacity /\ strategy # "error"
    <3>1. /\ items' = items + 1 /\ ring' = [ring EXCEPT ![ringTail] = items + 1]
          /\ ringTail' = Around(ringTail + 1) /\ ringHead' = Around(ringHead + 1) /\ ringSize' = ringSize
          /\ dropped' = dropped \cup {ring[ringHead]} /\ UNCHANGED <<refused, drained>>
      BY <1>2, <2>3 DEF PushItem
    <3>2. ringSize = Capacity /\ ringTail = ringHead
      <4>1. ringSize = Capacity
        BY <1>n, <2>3
      <4> QED BY <1>n, <4>1
    <3>3. ringHead' \in 0..(Capacity - 1) /\ ringTail' = Around(ringHead' + ringSize')
      <4>1. ringHead + 1 \in Nat /\ ringHead + 1 < Capacity + Capacity
        BY <1>n
      <4>2. /\ ringHead + 1 < Capacity => ringHead' = ringHead + 1
            /\ ~(ringHead + 1 < Capacity) => ringHead' = ringHead + 1 - Capacity
        BY <1>a, <1>b, <1>n, <3>1, <4>1
      <4>3. ringHead' \in Nat /\ ringHead' < Capacity
        BY <1>n, <4>2
      <4>4. ringHead' + ringSize' \in Nat /\ ringHead' + ringSize' < Capacity + Capacity /\ ~(ringHead' + ringSize' < Capacity)
            /\ ringHead' + ringSize' - Capacity = ringHead'
        BY <1>n, <3>1, <3>2, <4>3
      <4>5. Around(ringHead' + ringSize') = ringHead'
        BY <1>a, <1>b, <1>n, <3>1, <3>2, <4>3, <4>4
      <4> QED BY <1>n, <3>1, <3>2, <4>3, <4>5
    <3>4. ring' \in [0..(Capacity - 1) -> Nat \cup {Empty}]
      <4>1. items + 1 \in Nat \cup {Empty}
        BY <1>n
      <4> QED BY <1>0, <1>n, <3>1, <4>1
    <3>5. /\ \A i \in 1..(ringSize - 1) : /\ Around(ringHead' + i - 1) = Around(ringHead + (i + 1) - 1)
                                          /\ Around(ringHead' + i - 1) \in 0..(Capacity - 1)
                                          /\ Around(ringHead' + i - 1) # ringTail
          /\ Around(ringHead' + ringSize - 1) = ringTail
      <4>1. ringHead + 1 \in Nat /\ ringHead + 1 < Capacity + Capacity
        BY <1>n
      <4>2. /\ ringHead + 1 < Capacity => ringHead' = ringHead + 1
            /\ ~(ringHead + 1 < Capacity) => ringHead' = ringHead + 1 - Capacity
        BY <1>a, <1>b, <1>n, <3>1, <4>1
      <4>3. ASSUME NEW i \in 1..ringSize
            PROVE  /\ ringHead' + i - 1 < Capacity => Around(ringHead' + i - 1) = ringHead' + i - 1
                   /\ ~(ringHead' + i - 1 < Capacity) => Around(ringHead' + i - 1) = ringHead' + i - 1 - Capacity
        <5>1. ringHead' + i - 1 \in Nat /\ ringHead' + i - 1 < Capacity + Capacity
          BY <1>n, <3>2, <4>2
        <5> QED BY <1>a, <1>b, <1>n, <3>2, <4>2, <5>1
      <4>4. ASSUME NEW i \in 1..(ringSize - 1)
            PROVE  /\ Around(ringHead' + i - 1) = Around(ringHead + (i + 1) - 1)
                   /\ Around(ringHead' + i - 1) \in 0..(Capacity - 1)
                   /\ Around(ringHead' + i - 1) # ringTail
        <5>1. i \in Nat /\ i >= 1 /\ i < Capacity /\ i \in 1..ringSize
          BY <1>n, <3>2
        <5>2. ringHead + (i + 1) - 1 \in Nat /\ ringHead + (i + 1) - 1 < Capacity + Capacity
          BY <1>n, <5>1
        <5>3. /\ ringHead + (i + 1) - 1 < Capacity => Around(ringHead + (i + 1) - 1) = ringHead + (i + 1) - 1
              /\ ~(ringHead + (i + 1) - 1 < Capacity) => Around(ringHead + (i + 1) - 1) = ringHead + (i + 1) - 1 - Capacity
          BY <1>a, <1>b, <1>n, <5>2
        <5>4. /\ ringHead' + i - 1 < Capacity => Around(ringHead' + i - 1) = ringHead' + i - 1
              /\ ~(ringHead' + i - 1 < Capacity) => Around(ringHead' + i - 1) = ringHead' + i - 1 - Capacity
          BY <4>3, <5>1
        <5> QED BY <1>n, <3>2, <4>2, <5>1, <5>3, <5>4
      <4>5. Around(ringHead' + ringSize - 1) = ringTail
        <5>1. ringSize \in 1..ringSize
          BY <1>n, <3>2
        <5>2. /\ ringHead' + ringSize - 1 < Capacity => Around(ringHead' + ringSize - 1) = ringHead' + ringSize - 1
              /\ ~(ringHead' + ringSize - 1 < Capacity) => Around(ringHead' + ringSize - 1) = ringHead' + ringSize - 1 - Capacity
          BY <4>3, <5>1
        <5> QED BY <1>n, <3>2, <4>2, <5>2
      <4> QED BY <4>4, <4>5
    <3>6. InRing # <<>> /\ Head(InRing) = ring[ringHead]
      <4>1. ringSize \in Nat /\ ringSize > 0 /\ 1 \in 1..ringSize
        BY <1>n, <3>2
      <4>2. InRing[1] = ring[Around(ringHead + 1 - 1)] /\ Len(InRing) = ringSize
        BY <4>1, RingPlaces
      <4>3. ringHead + 1 - 1 = ringHead /\ Around(ringHead) = ringHead
        BY <1>a, <1>b, <1>n
      <4> QED BY <1>0, <4>1, <4>2, <4>3
    <3>7. InRing' = Append(Tail(InRing), items + 1)
      <4>1. InRing' = [i \in 1..ringSize |-> ring'[Around(ringHead' + i - 1)]]
        BY <3>1 DEF InRing, Around
      <4>2. \A i \in 1..(ringSize - 1) : ring'[Around(ringHead' + i - 1)] = ring[Around(ringHead + (i + 1) - 1)]
        BY <1>0, <3>1, <3>5
      <4>3. ring'[Around(ringHead' + ringSize - 1)] = items + 1
        BY <1>0, <3>1, <3>2, <3>5
      <4>4. Append(Tail(InRing), items + 1) = [i \in 1..ringSize |-> IF i = ringSize THEN items + 1 ELSE InRing[i + 1]]
        BY <1>0, <3>6, RingPlaces
      <4>5. \A i \in 1..ringSize : i = ringSize \/ (i \in 1..(ringSize - 1) /\ i + 1 \in 1..ringSize)
        BY <1>0
      <4> QED BY <4>1, <4>2, <4>3, <4>4, <4>5, RingPlaces
    <3>8. InRing' \in Seq(Nat) /\ drained' \o InRing' = Append(drained \o Tail(InRing), items + 1)
      <4>1. Tail(InRing) \in Seq(Nat) /\ items + 1 \in Nat
        BY <1>0, <1>n, <3>6
      <4>2. ASSUME NEW s \in Seq(Nat), NEW r \in Seq(Nat), NEW n \in Nat PROVE s \o Append(r, n) = Append(s \o r, n)
        OBVIOUS
      <4>3. InRing' \in Seq(Nat)
        BY <3>7, <4>1
      <4> QED BY <1>0, <3>1, <3>7, <4>1, <4>2, <4>3
    <3>9. dropped' \cup refused' = (dropped \cup refused) \cup {Head(InRing)}
      BY <3>1, <3>6
    <3>10. Complete(drained \o Tail(InRing), (dropped \cup refused) \cup {Head(InRing)}, items)
      BY <1>0, <3>6, OneDropped
    <3>11. Complete(drained \o InRing, dropped \cup refused, items)'
      <4>1. Complete(Append(drained \o Tail(InRing), items + 1), (dropped \cup refused) \cup {Head(InRing)}, items + 1)
        BY <3>10, OneMore
      <4>2. items' = items + 1
        BY <3>1
      <4> QED BY <3>8, <3>9, <4>1, <4>2
    <3> QED BY <1>0, <3>1, <3>3, <3>4, <3>8, <3>11 DEF RingInv
  <2> QED BY <2>1, <2>2, <2>3
<1>3. ASSUME Drain PROVE RingInv'
  <2>1. /\ drained' = drained \o InRing /\ ring' = [i \in 0..(Capacity - 1) |-> Empty]
        /\ ringHead' = 0 /\ ringTail' = 0 /\ ringSize' = 0 /\ UNCHANGED <<refused, dropped, items>>
    BY <1>3 DEF Drain
  <2>2. InRing' = <<>>
    BY <2>1 DEF InRing
  <2>3. drained' \in Seq(Nat) /\ drained' \o InRing' = drained \o InRing
    BY <1>0, <2>1, <2>2
  <2>4. Around(0) = 0
    BY <1>a, <1>b, <1>n
  <2> QED BY <1>0, <2>1, <2>2, <2>3, <2>4 DEF RingInv, Around
<1>4. PushToken \/ EndTokens \/ (\E r \in TokenReaders : TakeQueued(r) \/ Stop(r) \/ Wait(r) \/ Resume(r))
        \/ UNCHANGED tokenVars => UNCHANGED ringVars
  BY DEF PushToken, EndTokens, TakeQueued, Stop, Wait, Resume, tokenVars
<1> QED BY <1>1, <1>2, <1>3, <1>4 DEF TokenNext

LEMMA RingHolds ==
  ASSUME RingInv
  PROVE  /\ Ascending(drained \o InRing)
         /\ ToSet(drained \o InRing) = 1..items \ (dropped \cup refused)
         /\ ringSize = Len(InRing) /\ Empty \notin ToSet(InRing)
<1> DEFINE all == drained \o InRing
<1>1. Complete(all, dropped \cup refused, items)
  BY DEF RingInv
<1>2. Empty \notin ToSet(InRing) /\ ringSize = Len(InRing)
  BY RingPlaces, TokenAssumption DEF RingInv, ToSet
<1> HIDE DEF all
<1>3. Ascending(all) /\ ToSet(all) = 1..items \ (dropped \cup refused)
  BY <1>1 DEF Complete, ToSet
<1> QED BY <1>2, <1>3 DEF all

-----------------------------------------------------------------------------
(***************************************************************************)
(* Topics, the bus, dead letters and streams beside one another.           *)
(***************************************************************************)
EachOnceInv == TopicInv /\ BusInv /\ LetterInv /\ WriterInv /\ RingInv

LEMMA EachOnceStart == ServicesInit => EachOnceInv
BY TopicsInitially, BusInitially, LettersInitially, WriterInitially, RingInitially
   DEF ServicesInit, EachOnceInv

LEMMA EachOnceStep == EachOnceInv /\ [ServicesNext]_servicesVars => EachOnceInv'
<1> SUFFICES ASSUME EachOnceInv, [ServicesNext]_servicesVars PROVE EachOnceInv'
  OBVIOUS
<1>1. [TopicNext]_topicVars
  BY DEF ServicesNext, servicesVars, coordinationVars
<1>2. [BusNext]_busVars
  BY DEF ServicesNext, servicesVars, coordinationVars
<1>3. [LetterNext]_letterVars
  BY DEF ServicesNext, servicesVars, coordinationVars
<1>4. [TokenNext]_tokenVars
  BY DEF ServicesNext, servicesVars, outsideVars
<1> QED
  BY <1>1, <1>2, <1>3, <1>4, TopicsStep, BusStep, LettersStep, WriterStep, RingStep DEF EachOnceInv

(* Every delivery goes to those, and only those, who subscribed with a      *)
(* pattern that covers its topic, each one time; a listener of once() or    *)
(* waitFor() is called once at most, unless removeAll() ran within an       *)
(* emission; the dead letters kept are the newest that were not removed;    *)
(* and the readers of a writer share what it was given, none twice and in   *)
(* order, while a buffered reader loses what was dropped or refused and     *)
(* nothing else: for any number of subscribers, listeners, letters,         *)
(* readers and any capacity (coordination/pubsub.ts, events/bus.ts,         *)
(* dlq.ts, pregel/streaming.ts, streaming/).                                *)
THEOREM EveryoneToldOnce == ServicesSpec => []EachOnce
<1>1. EachOnceInv => EachOnce
  BY TopicsHold, BusHolds, LettersHold, WriterHolds, RingHolds
     DEF EachOnceInv, EachOnce, DeliveredOnce, BuffersKeepNewest, TokensTrue
<1> QED
  BY <1>1, EachOnceStart, EachOnceStep, PTL DEF ServicesSpec

-----------------------------------------------------------------------------
(***************************************************************************)
(* Requests and waitFor().  A call that is pending has its timer, and a    *)
(* step settles pending ones or makes one that was idle; which is what     *)
(* SettleOnce allows.                                                      *)
(***************************************************************************)
Answer == {"idle", "pending", "answered", "failed"}
AskStatus == [r \in Asking |-> IF r \in Requests THEN request[r] ELSE waiting[r]]

AskInv ==
  /\ request \in [Requests -> Answer] /\ waiting \in [Waiters -> Answer]
  /\ \A r \in Requests : request[r] = "pending" => r \in pending \cap resolvers \cap timeouts
  /\ \A w \in Waiters : waiting[w] = "pending" => w \in waitTimers

SettlesSome(S, old, new) ==
  \/ new = old
  \/ \E R \in SUBSET {r \in S : old[r] = "pending"} : \E settledAs \in [R -> {"answered", "failed"}] :
       R # {} /\ new = [r \in S |-> IF r \in R THEN settledAs[r] ELSE old[r]]
AsksOne(S, old, new) ==
  \E r \in S : old[r] = "idle" /\ \E s \in {"pending", "answered", "failed"} : new = [old EXCEPT ![r] = s]

LEMMA SettlingIsAllowed ==
  ASSUME NEW S, NEW old \in [S -> Answer], NEW new \in [S -> Answer],
         \A r \in S : new[r] = old[r] \/ (old[r] = "pending" /\ new[r] \in {"answered", "failed"})
  PROVE  SettlesSome(S, old, new)
<1> DEFINE R == {r \in S : new[r] # old[r]}
           settledAs == [r \in R |-> new[r]]
<1>1. R \in SUBSET {r \in S : old[r] = "pending"} /\ settledAs \in [R -> {"answered", "failed"}]
  OBVIOUS
<1>2. new = [r \in S |-> IF r \in R THEN settledAs[r] ELSE old[r]]
  <2>1. \A r \in S : new[r] = IF r \in R THEN settledAs[r] ELSE old[r]
    OBVIOUS
  <2> HIDE DEF R, settledAs
  <2>2. new = [r \in S |-> new[r]]
    OBVIOUS
  <2> QED BY <2>1, <2>2
<1>3. R = {} => new = old
  <2>1. R = {} => \A r \in S : new[r] = old[r]
    OBVIOUS
  <2>2. new = [r \in S |-> new[r]] /\ old = [r \in S |-> old[r]]
    OBVIOUS
  <2> HIDE DEF R, settledAs
  <2> QED BY <2>1, <2>2
<1> HIDE DEF R, settledAs
<1> QED BY <1>1, <1>2, <1>3 DEF SettlesSome

LEMMA AskInitially == ServicesInit => AskInv /\ Promised!Init
BY DEF ServicesInit, BrokerInit, BusInit, AskInv, Answer, Promised!Init, Asking

LEMMA AskStatusTyped == AskInv => AskStatus \in [Asking -> Answer]
BY DEF AskInv, AskStatus, Asking

LEMMA AskAllowed ==
  ASSUME AskInv, AskInv', SettlesSome(Asking, AskStatus, AskStatus') \/ AsksOne(Asking, AskStatus, AskStatus')
  PROVE  [Promised!Next]_AskStatus
BY DEF SettlesSome, AsksOne, AskStatus, Promised!Next, Promised!Settle, Promised!Settled, Promised!Ask

LEMMA BrokerAsks ==
  ASSUME AskInv, [BrokerNext]_brokerVars, UNCHANGED <<waiting, waitTimers>>
  PROVE  AskInv' /\ (SettlesSome(Asking, AskStatus, AskStatus') \/ AsksOne(Asking, AskStatus, AskStatus'))
<1>1. ASSUME NEW r \in Requests, NEW serializable \in BOOLEAN, MakeRequest(r, serializable)
      PROVE  AskInv' /\ AsksOne(Asking, AskStatus, AskStatus')
  <2>1. request[r] = "idle" /\ \E s \in {"pending", "failed"} : request' = [request EXCEPT ![r] = s]
    BY <1>1 DEF MakeRequest
  <2>2. AskInv'
    BY <1>1, <2>1 DEF MakeRequest, AskInv, Answer
  <2>3. PICK s \in {"pending", "failed"} : request' = [request EXCEPT ![r] = s]
    BY <2>1
  <2>4. AskStatus' = [AskStatus EXCEPT ![r] = s]
    BY <2>3 DEF AskStatus, Asking, AskInv
  <2>5. AskStatus[r] = "idle" /\ r \in Asking
    BY <2>1 DEF AskStatus, Asking
  <2> QED BY <2>2, <2>4, <2>5 DEF AsksOne
<1>2. ASSUME \/ \E r \in Requests : RequestTimesOut(r) \/ Reply(r)
             \/ DisposeBroker
             \/ UNCHANGED brokerVars
      PROVE  AskInv' /\ SettlesSome(Asking, AskStatus, AskStatus')
  <2>1. /\ request' \in [Requests -> Answer]
        /\ \A q \in Requests : \/ request'[q] = request[q]
                               \/ request[q] = "pending" /\ request'[q] \in {"answered", "failed"}
    BY <1>2 DEF RequestTimesOut, Reply, DisposeBroker, Settled, brokerVars, AskInv, Answer
  <2>2. AskInv'
    <3>1. \A q \in Requests : request'[q] = "pending" => q \in pending' \cap resolvers' \cap timeouts'
      BY <1>2 DEF RequestTimesOut, Reply, DisposeBroker, Settled, brokerVars, AskInv, Answer
    <3> QED BY <2>1, <3>1 DEF AskInv
  <2>3. \A r \in Asking : \/ AskStatus'[r] = AskStatus[r]
                          \/ AskStatus[r] = "pending" /\ AskStatus'[r] \in {"answered", "failed"}
    BY <2>1 DEF AskStatus, Asking
  <2>4. AskStatus \in [Asking -> Answer] /\ AskStatus' \in [Asking -> Answer]
    BY <2>2, AskStatusTyped DEF AskInv, AskStatus, Asking
  <2> HIDE DEF Answer
  <2> QED BY <2>2, <2>3, <2>4, SettlingIsAllowed
<1> QED BY <1>1, <1>2 DEF BrokerNext

LEMMA BusAsks ==
  ASSUME AskInv, [BusNext]_busVars, UNCHANGED brokerVars
  PROVE  AskInv' /\ (SettlesSome(Asking, AskStatus, AskStatus') \/ AsksOne(Asking, AskStatus, AskStatus'))
<1>1. ASSUME NEW t \in Types, NEW w \in Waiters, WaitFor(t, w)
      PROVE  AskInv' /\ (SettlesSome(Asking, AskStatus, AskStatus') \/ AsksOne(Asking, AskStatus, AskStatus'))
  <2>1. waiting[w] = "idle" /\ waiting' = [waiting EXCEPT ![w] = "pending"] /\ waitTimers' = waitTimers \cup {w}
    BY <1>1 DEF WaitFor
  <2>2. AskInv'
    BY <2>1 DEF AskInv, Answer, brokerVars
  <2>3. CASE w \in Requests
    <3>1. AskStatus' = AskStatus
      BY <2>1, <2>3 DEF AskStatus, Asking, AskInv, brokerVars
    <3> QED BY <2>2, <3>1 DEF SettlesSome
  <2>4. CASE w \notin Requests
    <3>1. AskStatus' = [AskStatus EXCEPT ![w] = "pending"]
      BY <2>1, <2>4 DEF AskStatus, Asking, AskInv, brokerVars
    <3>2. AskStatus[w] = "idle" /\ w \in Asking
      BY <2>1, <2>4 DEF AskStatus, Asking
    <3> QED BY <2>2, <3>1, <3>2 DEF AsksOne
  <2> QED BY <2>3, <2>4
<1>2. ASSUME /\ waiting' \in [Waiters -> Answer]
             /\ \A w \in Waiters : \/ waiting'[w] = waiting[w]
                                   \/ waiting[w] = "pending" /\ waiting'[w] \in {"answered", "failed"}
             /\ \A w \in Waiters : waiting'[w] = "pending" => w \in waitTimers'
      PROVE  AskInv' /\ SettlesSome(Asking, AskStatus, AskStatus')
  <2>1. AskInv'
    BY <1>2 DEF AskInv, brokerVars
  <2>2. \A r \in Asking : \/ AskStatus'[r] = AskStatus[r]
                          \/ AskStatus[r] = "pending" /\ AskStatus'[r] \in {"answered", "failed"}
    BY <1>2 DEF AskStatus, Asking, brokerVars
  <2>3. AskStatus \in [Asking -> Answer] /\ AskStatus' \in [Asking -> Answer]
    BY <2>1, AskStatusTyped DEF AskInv, AskStatus, Asking
  <2> HIDE DEF Answer
  <2> QED BY <2>1, <2>2, <2>3, SettlingIsAllowed
<1>3. ASSUME NEW w \in Waiters, WaitTimesOut(w) PROVE AskInv' /\ SettlesSome(Asking, AskStatus, AskStatus')
  <2>1. waitTimers' = waitTimers \ {w} /\ waiting' = [waiting EXCEPT ![w] = IF @ = "pending" THEN "failed" ELSE @]
    BY <1>3 DEF WaitTimesOut
  <2> QED BY <1>2, <2>1 DEF AskInv, Answer
<1>4. ASSUME CallListener PROVE AskInv' /\ SettlesSome(Asking, AskStatus, AskStatus')
  <2>1. PICK k \in Unheard(Head(emissions)) :
          LET l == Going(Head(emissions))[k] IN
          IF l \in Waiters
          THEN /\ waitTimers' = waitTimers \ {l}
               /\ waiting' = [waiting EXCEPT ![l] = IF @ = "pending" THEN "answered" ELSE @]
          ELSE UNCHANGED <<waitTimers, waiting>>
    BY <1>4 DEF CallListener
  <2> DEFINE l == Going(Head(emissions))[k]
  <2>2. CASE l \in Waiters
    <3>1. /\ waitTimers' = waitTimers \ {l}
          /\ waiting' = [waiting EXCEPT ![l] = IF @ = "pending" THEN "answered" ELSE @]
      BY <2>1, <2>2
    <3> HIDE DEF l
    <3> QED BY <1>2, <2>2, <3>1 DEF AskInv, Answer
  <2>3. CASE l \notin Waiters
    <3>1. UNCHANGED <<waitTimers, waiting>>
      BY <2>1, <2>3
    <3> QED BY <1>2, <3>1 DEF AskInv
  <2> QED BY <2>2, <2>3
<1>5. ASSUME NEW forGood \in BOOLEAN, RemoveAll(forGood) PROVE AskInv' /\ SettlesSome(Asking, AskStatus, AskStatus')
  <2>1. waiting' = RejectAll /\ waitTimers' = {}
    BY <1>5 DEF RemoveAll
  <2> QED BY <1>2, <2>1 DEF AskInv, RejectAll, Answer
<1>6. ASSUME UNCHANGED <<waiting, waitTimers>> PROVE AskInv' /\ SettlesSome(Asking, AskStatus, AskStatus')
  BY <1>2, <1>6 DEF AskInv
<1>7. \/ UNCHANGED <<waiting, waitTimers>>
      \/ CallListener
      \/ \E t \in Types, w \in Waiters : WaitFor(t, w)
      \/ \E w \in Waiters : WaitTimesOut(w)
      \/ \E forGood \in BOOLEAN : RemoveAll(forGood)
  BY DEF BusNext, busVars, On, Off, OnAll, OffAll, Emit, ListenerReturns, EmissionMovesOn
<1> QED BY <1>1, <1>3, <1>4, <1>5, <1>6, <1>7

LEMMA AskStep == AskInv /\ [ServicesNext]_servicesVars => AskInv' /\ [Promised!Next]_AskStatus
<1> SUFFICES ASSUME AskInv, [ServicesNext]_servicesVars PROVE AskInv' /\ [Promised!Next]_AskStatus
  OBVIOUS
<1>1. \/ [BrokerNext]_brokerVars /\ UNCHANGED <<waiting, waitTimers>>
      \/ [BusNext]_busVars /\ UNCHANGED brokerVars
  BY DEF ServicesNext, servicesVars, coordinationVars, busVars
<1>2. AskInv' /\ (SettlesSome(Asking, AskStatus, AskStatus') \/ AsksOne(Asking, AskStatus, AskStatus'))
  BY <1>1, BrokerAsks, BusAsks
<1> QED BY <1>2, AskAllowed

(* Every step of the broker and the bus is one that SettleOnce allows: a    *)
(* request or waitFor() that is settled stays as it is, whatever arrives    *)
(* late, and one that is pending can only become answered or failed; and    *)
(* a pending one never loses its timer, which is what will settle it if     *)
(* nothing else does (request-reply.ts:73-88, 105-134, 172-188;             *)
(* bus.ts:68-90, 96-111).                                                   *)
PendingIsTimed ==
  /\ \A r \in Requests : request[r] = "pending" => r \in timeouts \cap pending
  /\ \A w \in Waiters : waiting[w] = "pending" => w \in waitTimers

THEOREM AnswersComeOnce ==
  ServicesSpec => Promised!Init /\ [][Promised!Next]_AskStatus /\ []PendingIsTimed
<1>1. AskInv => PendingIsTimed
  BY DEF AskInv, PendingIsTimed
<1> QED
  BY <1>1, AskInitially, AskStep, PTL DEF ServicesSpec
=============================================================================
