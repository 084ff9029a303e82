--------------------------- MODULE NodeExecution ---------------------------
(***************************************************************************)
(* Execution of one graph node by concurrent callers: executeNode          *)
(* (src/src/pregel/execution.ts), which runs                               *)
(*                                                                         *)
(*   cache -> input filter -> circuit breaker -> timeout -> retry -> fn    *)
(*         -> output filter -> cache store                                 *)
(*                                                                         *)
(* The breaker (circuit-breaker.ts) and the cache are shared by all calls  *)
(* of the node: parallel Sends, concurrent threads and batch() inputs.     *)
(* A call has two activities: the caller's await (pc) and the retry loop   *)
(* (loop).  They are separate because Promise.race lets the timeout settle *)
(* the former without stopping the latter.                                 *)
(***************************************************************************)
EXTENDS Integers, FiniteSets

CONSTANTS
  Calls,        \* invocations of executeNode for this node
  Threshold,    \* circuitBreaker.threshold: failures before opening
  ResetAfter,   \* circuitBreaker.resetAfter, in clock ticks
  MaxAttempts,  \* retry.maxAttempts after Math.max(1, .)
  HasRetry,     \* nodeDef.retry is configured
  HasTimeout,   \* nodeDef.timeout > 0
  HasFallback,  \* circuitBreaker.fallback is configured
  HasCache,     \* nodeDef.cache is configured (all calls share one key)
  CacheTtl,     \* cache.ttl, in clock ticks
  HasFilters,   \* contentFilters is not empty
  MaxTime       \* bound on the clock

ASSUME NodeExecutionAssumption ==
  /\ Threshold \in Nat \ {0}
  /\ ResetAfter \in Nat
  /\ MaxAttempts \in Nat \ {0}
  /\ CacheTtl \in Nat
  /\ MaxTime \in Nat
  /\ HasRetry \in BOOLEAN /\ HasTimeout \in BOOLEAN /\ HasFallback \in BOOLEAN
  /\ HasCache \in BOOLEAN /\ HasFilters \in BOOLEAN

VARIABLES
  now,                 \* Date.now()
  cbState,             \* CircuitBreaker._state
  consecutiveFailures, \* CircuitBreaker.consecutiveFailures
  lastFailureTime,     \* CircuitBreaker.lastFailureTime
  probeInFlight,       \* CircuitBreaker._probeInFlight
  nodeCache,           \* the cached result of the node's key, with its timestamp
  pc,                  \* the awaiting side of each call
  outcome,             \* how each call settled
  isProbe,             \* the call was admitted while half open
  loop,                \* the retry loop of each call
  attempt,             \* its current attempt, 1..MaxAttempts
  raised               \* the node function called interrupt() in this call

breakerVars == <<cbState, consecutiveFailures, lastFailureTime, probeInFlight>>
loopVars == <<loop, attempt, raised>>
vars == <<now, breakerVars, nodeCache, pc, outcome, isProbe, loopVars>>

CircuitState == {"closed", "open", "half_open"}
Outcome == {"none", "ok", "cached", "fallback", "rejected_open", "blocked",
            "failed", "timeout", "interrupt"}
LoopState == {"off", "running", "sleeping", "done"}
FnResult == {"ok", "error", "fatal", "interrupt"}

NoEntry == [result |-> "none", timestamp |-> 0]
CacheEntry == [result : {"none", "ok", "fallback"}, timestamp : Nat]

TypeOK ==
  /\ now \in 0..MaxTime
  /\ cbState \in CircuitState
  /\ consecutiveFailures \in Nat
  /\ lastFailureTime \in 0..MaxTime
  /\ probeInFlight \in BOOLEAN
  /\ nodeCache \in CacheEntry
  /\ pc \in [Calls -> {"idle", "waiting", "settled"}]
  /\ outcome \in [Calls -> Outcome]
  /\ isProbe \in [Calls -> BOOLEAN]
  /\ loop \in [Calls -> LoopState]
  /\ attempt \in [Calls -> 0..MaxAttempts]
  /\ raised \in [Calls -> BOOLEAN]

Init ==
  /\ now = 0
  /\ cbState = "closed"
  /\ consecutiveFailures = 0
  /\ lastFailureTime = 0
  /\ probeInFlight = FALSE
  /\ nodeCache = NoEntry
  /\ pc = [c \in Calls |-> "idle"]
  /\ outcome = [c \in Calls |-> "none"]
  /\ isProbe = [c \in Calls |-> FALSE]
  /\ loop = [c \in Calls |-> "off"]
  /\ attempt = [c \in Calls |-> 0]
  /\ raised = [c \in Calls |-> FALSE]

-----------------------------------------------------------------------------
(* Mutant: resetAfter is not waited for. *)
StateNowIgnoringReset ==
  IF cbState = "open" THEN "half_open" ELSE cbState

(* CircuitBreaker.state: reading it turns an expired "open" into half_open. *)
StateNow ==
  IF cbState = "open" /\ now - lastFailureTime >= ResetAfter
    THEN "half_open" ELSE cbState

OnSuccess ==
  /\ consecutiveFailures' = 0
  /\ cbState' = "closed"
  /\ probeInFlight' = FALSE
  /\ UNCHANGED lastFailureTime

(* Mutant: the failure path forgets to free the probe slot. *)
OnFailureKeepingProbe ==
  /\ UNCHANGED probeInFlight
  /\ consecutiveFailures' = consecutiveFailures + 1
  /\ lastFailureTime' = now
  /\ cbState' = IF cbState = "half_open" \/ consecutiveFailures + 1 >= Threshold
                  THEN "open" ELSE cbState

OnFailure ==
  /\ probeInFlight' = FALSE
  /\ consecutiveFailures' = consecutiveFailures + 1
  /\ lastFailureTime' = now
  /\ cbState' = IF cbState = "half_open" \/ consecutiveFailures + 1 >= Threshold
                  THEN "open" ELSE cbState

CacheHit == HasCache /\ nodeCache.result # "none" /\ now - nodeCache.timestamp < CacheTtl

Store(result) ==
  nodeCache' = IF HasCache THEN [result |-> result, timestamp |-> now] ELSE nodeCache

Settle(c, o) ==
  /\ pc' = [pc EXCEPT ![c] = "settled"]
  /\ outcome' = [outcome EXCEPT ![c] = o]

-----------------------------------------------------------------------------
(* executeNode up to the first await. *)

ReturnCached(c) ==
  /\ pc[c] = "idle"
  /\ CacheHit
  /\ Settle(c, "cached")
  /\ UNCHANGED <<now, breakerVars, nodeCache, isProbe, loopVars>>

(* An expired entry is deleted on the lookup that finds it. *)
CacheMiss == nodeCache' = IF HasCache THEN NoEntry ELSE nodeCache

InputBlocked(c) ==
  /\ pc[c] = "idle" /\ ~CacheHit
  /\ HasFilters
  /\ CacheMiss
  /\ Settle(c, "blocked")
  /\ UNCHANGED <<now, breakerVars, isProbe, loopVars>>

(* The breaker refuses: open, or half open with a probe already in flight. *)
Refuses == StateNow = "open" \/ (StateNow = "half_open" /\ probeInFlight)

(* executeNode answers the refusal with the node's fallback, whose result   *)
(* passes the output filter and is cached like any other.                   *)
RejectOpen(c) ==
  /\ pc[c] = "idle" /\ ~CacheHit
  /\ Refuses
  /\ cbState' = StateNow
  /\ \/ /\ ~HasFallback
        /\ CacheMiss
        /\ Settle(c, "rejected_open")
     \/ /\ HasFallback
        /\ Store("fallback")
        /\ Settle(c, "fallback")
     \/ /\ HasFallback /\ HasFilters
        /\ CacheMiss
        /\ Settle(c, "blocked")
     \/ /\ HasFallback            \* the fallback itself throws
        /\ CacheMiss
        /\ Settle(c, "failed")
  /\ UNCHANGED <<now, consecutiveFailures, lastFailureTime, probeInFlight,
                 isProbe, loopVars>>

Admit(c) ==
  /\ pc[c] = "idle" /\ ~CacheHit
  /\ ~Refuses
  /\ CacheMiss
  /\ cbState' = StateNow
  /\ probeInFlight' = (probeInFlight \/ StateNow = "half_open")
  /\ isProbe' = [isProbe EXCEPT ![c] = (StateNow = "half_open")]
  /\ pc' = [pc EXCEPT ![c] = "waiting"]
  /\ loop' = [loop EXCEPT ![c] = "running"]
  /\ attempt' = [attempt EXCEPT ![c] = 1]
  /\ UNCHANGED <<now, consecutiveFailures, lastFailureTime, outcome, raised>>

-----------------------------------------------------------------------------
(* The call's promise settles; a call the timeout settled ignores it. *)

SettleSuccess(c) ==
  IF pc[c] = "waiting"
    THEN /\ OnSuccess
         /\ \/ Store("ok") /\ Settle(c, "ok")
            \/ HasFilters /\ UNCHANGED nodeCache /\ Settle(c, "blocked")
    ELSE UNCHANGED <<breakerVars, nodeCache, pc, outcome>>

(* Mutant: a late rejection is still charged to the breaker. *)
SettleFailureAlways(c, o) ==
  OnFailure /\ Settle(c, o) /\ UNCHANGED nodeCache

SettleFailure(c, o) ==
  IF pc[c] = "waiting"
    THEN OnFailure /\ Settle(c, o) /\ UNCHANGED nodeCache
    ELSE UNCHANGED <<breakerVars, nodeCache, pc, outcome>>

FnSucceeds(c) ==
  /\ loop[c] = "running"
  /\ loop' = [loop EXCEPT ![c] = "done"]
  /\ SettleSuccess(c)
  /\ UNCHANGED <<now, isProbe, attempt, raised>>

(* withRetry retries everything but a non-recoverable ONIError; an          *)
(* interrupt signal is not an Error and is retried like one.                *)
WillRetry(c, r) == HasRetry /\ attempt[c] < MaxAttempts /\ r # "fatal"

ThrownAs(r) == IF r = "interrupt" /\ ~HasRetry THEN "interrupt" ELSE "failed"

FnThrows(c, r) ==
  /\ loop[c] = "running"
  /\ r # "ok"
  /\ raised' = [raised EXCEPT ![c] = @ \/ r = "interrupt"]
  /\ IF WillRetry(c, r)
       THEN /\ loop' = [loop EXCEPT ![c] = "sleeping"]
            /\ UNCHANGED <<breakerVars, nodeCache, pc, outcome>>
       ELSE /\ loop' = [loop EXCEPT ![c] = "done"]
            /\ SettleFailure(c, ThrownAs(r))
  /\ UNCHANGED <<now, isProbe, attempt>>

(* Mutant: the backoff sleep is never woken. *)
RetryNeverWakes(c) ==
  /\ FALSE
  /\ UNCHANGED vars

RetryWakes(c) ==
  /\ loop[c] = "sleeping"
  /\ loop' = [loop EXCEPT ![c] = "running"]
  /\ attempt' = [attempt EXCEPT ![c] = @ + 1]
  /\ UNCHANGED <<now, breakerVars, nodeCache, pc, outcome, isProbe, raised>>

(* The abort timer wins the race: the retry loop is not told. *)
Timeout(c) ==
  /\ HasTimeout
  /\ pc[c] = "waiting"
  /\ SettleFailure(c, "timeout")
  /\ UNCHANGED <<now, isProbe, loopVars>>

(* CircuitBreaker.reset() *)
Reset ==
  /\ cbState' = "closed"
  /\ consecutiveFailures' = 0
  /\ lastFailureTime' = 0
  /\ probeInFlight' = FALSE
  /\ UNCHANGED <<now, nodeCache, pc, outcome, isProbe, loopVars>>

Tick ==
  /\ now < MaxTime
  /\ now' = now + 1
  /\ UNCHANGED <<breakerVars, nodeCache, pc, outcome, isProbe, loopVars>>

Work(c) ==
  \/ FnSucceeds(c)
  \/ \E r \in FnResult : FnThrows(c, r)
  \/ RetryWakes(c)

Next ==
  \/ Tick
  \/ Reset
  \/ \E c \in Calls :
       \/ ReturnCached(c) \/ InputBlocked(c) \/ RejectOpen(c) \/ Admit(c)
       \/ Work(c) \/ Timeout(c)

(* A node function returns or throws, and its retry timer fires. *)
Fairness == \A c \in Calls : WF_vars(Work(c))

Spec == Init /\ [][Next]_vars /\ Fairness

-----------------------------------------------------------------------------
(* Properties *)

(* The breaker is closed exactly while fewer than threshold failures have   *)
(* been counted since the last success: stale calls that settle after it    *)
(* opened or half-opened (onSuccess, onFailure) never leave it closed with  *)
(* a full counter, nor open with a cleared one.                             *)
ClosedIffBelowThreshold ==
  (cbState = "closed") <=> (consecutiveFailures < Threshold)

(* _probeInFlight is held only in half_open and only for a probe that is    *)
(* still awaited, so it can never refuse callers on behalf of nobody.       *)
ProbeFlagHasOwner ==
  probeInFlight =>
    /\ cbState = "half_open"
    /\ \E c \in Calls : pc[c] = "waiting" /\ isProbe[c]

(* The breaker through every interleaving of fresh and stale calls: its     *)
(* state agrees with its counter, its probe slot belongs to a live probe,   *)
(* and no retry loop counts past maxAttempts (TypeOK).                      *)
BreakerSound == TypeOK /\ ClosedIffBelowThreshold /\ ProbeFlagHasOwner

(* After the breaker tripped, no call starts the node function until        *)
(* resetAfter has passed since the last failure that any call reported.     *)
NoAdmissionWhileCooling ==
  [][\A c \in Calls :
       pc[c] = "idle" /\ pc'[c] = "waiting" =>
         \/ consecutiveFailures < Threshold
         \/ now - lastFailureTime >= ResetAfter]_vars

(* The answer of a node function that arrives after its call timed out      *)
(* changes neither the call's outcome nor the shared breaker and cache.     *)
LateAnswerIgnored ==
  [][\A c \in Calls :
       pc[c] = "settled" /\ loop'[c] # loop[c] =>
         /\ outcome'[c] = outcome[c]
         /\ UNCHANGED <<breakerVars, nodeCache>>]_vars

(* Every call the breaker admits is settled: by its function, by the end of *)
(* its retries or by its timeout.                                           *)
AdmittedCallsSettle == \A c \in Calls : pc[c] = "waiting" ~> pc[c] = "settled"
=============================================================================
