--------------------------- MODULE AgentLoopProofs ---------------------------
(***************************************************************************)
(* Proofs about AgentLoop: unsafe tools run alone, cancel() takes effect   *)
(* within the turn, handle and hooks agree on the outcome, and each call   *)
(* the model makes is answered in every conversation it is sent, for every *)
(* set of tools, every batch and every bound.                              *)
(***************************************************************************)
EXTENDS AgentLoop, FiniteSetTheorems, SequenceTheorems, TLAPS

-----------------------------------------------------------------------------
(* Tool calls.  In a serial batch nothing is approved ahead of its turn.    *)

CallsInv ==
  /\ batch \in Seq(Tools)
  /\ calls \in Seq(CallState)
  /\ DOMAIN calls = DOMAIN batch
  /\ Serial(batch) =>
       /\ \A i \in DOMAIN calls : calls[i] # "approved"
       /\ \A i, j \in DOMAIN calls : calls[i] = "running" /\ calls[j] = "running" => i = j

LEMMA CallsInitially == Init => CallsInv
BY AgentLoopAssumption DEF Init, CallsInv, Serial

(* A call that takes a new state leaves the others in theirs.               *)
LEMMA SetCallKeeps ==
  ASSUME CallsInv, NEW i \in DOMAIN calls, NEW s \in CallState, SetCall(i, s),
         s = "approved" => ~Serial(batch),
         s = "running" /\ Serial(batch) => ~Some("running")
  PROVE  CallsInv'
<1>1. /\ calls' = [calls EXCEPT ![i] = s] /\ batch' = batch
  BY DEF SetCall
<1>2. calls' \in Seq(CallState) /\ DOMAIN calls' = DOMAIN calls
  BY <1>1 DEF CallsInv
<1>3. ASSUME Serial(batch), NEW j \in DOMAIN calls
      PROVE  calls'[j] # "approved"
  BY <1>1, <1>3 DEF CallsInv
<1>4. ASSUME Serial(batch), NEW j \in DOMAIN calls, NEW k \in DOMAIN calls,
             calls'[j] = "running", calls'[k] = "running"
      PROVE  j = k
  <2>1. CASE s = "running"
    BY <1>1, <1>4, <2>1 DEF Some
  <2>2. CASE s # "running"
    BY <1>1, <1>4, <2>2 DEF CallsInv
  <2> QED
    BY <2>1, <2>2
<1> QED
  BY <1>1, <1>2, <1>3, <1>4 DEF CallsInv, Serial

LEMMA CallStepKeeps ==
  ASSUME CallsInv, NEW i \in DOMAIN calls, CallStep(i)
  PROVE  CallsInv'
<1>1. CASE CallRefused(i)
  BY <1>1, SetCallKeeps DEF CallRefused, CallState
<1>2. CASE CallApproved(i)
  <2>1. Serial(batch) => ~Some("running")
    BY <1>2 DEF CallApproved, IsToCheck
  <2>2. CASE Serial(batch)
    <3>1. SetCall(i, "running")
      BY <1>2, <2>2 DEF CallApproved
    <3> QED
      BY <2>1, <3>1, SetCallKeeps DEF CallState
  <2>3. CASE ~Serial(batch)
    <3>1. SetCall(i, "approved")
      BY <1>2, <2>3 DEF CallApproved
    <3> QED
      BY <2>3, <3>1, SetCallKeeps DEF CallState
  <2> QED
    BY <2>2, <2>3
<1>3. CASE CallReturns(i)
  BY <1>3, SetCallKeeps DEF CallReturns, CallState
<1>4. CASE CallReturnsUnserializable(i)
  <2>1. SetCall(i, "error") \/ SetCall(i, "unserializable")
    BY <1>4 DEF CallReturnsUnserializable
  <2> QED
    BY <2>1, SetCallKeeps DEF CallState
<1>5. CASE CallThrows(i)
  BY <1>5, SetCallKeeps DEF CallThrows, CallState
<1> QED
  BY <1>1, <1>2, <1>3, <1>4, <1>5 DEF CallStep

LEMMA CallsPreserved == CallsInv /\ [Next]_vars => CallsInv'
<1> SUFFICES ASSUME CallsInv, [Next]_vars
             PROVE  CallsInv'
  OBVIOUS
<1>1. CASE UNCHANGED toolVars
  BY <1>1 DEF toolVars, CallsInv, Serial
<1>2. ASSUME NEW i \in DOMAIN calls, CallStep(i)
      PROVE  CallsInv'
  BY <1>2, CallStepKeeps
<1>3. ASSUME NEW b \in Batches, AnswersWithTools(b)
      PROVE  CallsInv'
  <2>1. /\ b \in Seq(Tools)
        /\ batch' = b /\ calls' = [i \in DOMAIN b |-> "waiting"]
    BY <1>3, AgentLoopAssumption DEF AnswersWithTools
  <2>2. calls' \in Seq(CallState) /\ DOMAIN calls' = DOMAIN b
    BY <2>1 DEF CallState
  <2> QED
    BY <2>1, <2>2 DEF CallsInv
<1>4. CASE CallsStart
  <2>1. /\ batch' = batch /\ ~Serial(batch)
        /\ calls' = [i \in DOMAIN calls |->
                       IF calls[i] = "approved" THEN "running" ELSE calls[i]]
    BY <1>4 DEF CallsStart, CallsInv, Some
  <2>2. calls' \in Seq(CallState) /\ DOMAIN calls' = DOMAIN calls
    BY <2>1 DEF CallsInv, CallState
  <2> QED
    BY <2>1, <2>2 DEF CallsInv, Serial
<1>5. CASE BatchAnswered
  BY <1>5 DEF BatchAnswered, CallsInv, Serial
<1>6. ASSUME NEW retryable \in BOOLEAN, InferenceFails(retryable)
      PROVE  UNCHANGED toolVars
  BY <1>6 DEF InferenceFails, toolVars
<1>7. \/ TurnAborted \/ TurnsExhausted \/ Compacts \/ StartsInference
      \/ InferenceRetried \/ AnswersFinally \/ StopBlocked \/ StopAllowed
      \/ BatchFails \/ Ends \/ Send \/ Cancel \/ UNCHANGED vars
      => UNCHANGED toolVars
  BY DEF TurnAborted, TurnsExhausted, Compacts, StartsInference, InferenceRetried,
         AnswersFinally, StopBlocked, StopAllowed, BatchFails, Ends, Send, Cancel,
         toolVars, vars
<1> QED
  BY <1>1, <1>2, <1>3, <1>4, <1>5, <1>6, <1>7 DEF Next, Loop

(* tools.ts: a tool with parallelSafe = false never runs beside another     *)
(* call of its batch, whatever else the batch holds and is refused of it.   *)
THEOREM UnsafeToolsRunAlone == Spec => []UnsafeRunsAlone
<1>1. CallsInv => UnsafeRunsAlone
  BY DEF CallsInv, UnsafeRunsAlone, Serial
<1> QED
  BY <1>1, CallsInitially, CallsPreserved, PTL DEF Spec

-----------------------------------------------------------------------------
(* cancel() *)

CancelInv ==
  /\ turn \in Nat /\ abortTurn \in Nat
  /\ abortTurn <= turn
  /\ aborted => turn <= abortTurn + 1
  /\ aborted /\ turn > abortTurn => \/ pc \in {"ending", "done"}
                                    \/ pc = "top" /\ ~compacted

LEMMA CancelInitially == Init => CancelInv
BY DEF Init, CancelInv

LEMMA CancelPreserved == CancelInv /\ [Next]_vars => CancelInv'
<1> SUFFICES ASSUME CancelInv, [Next]_vars
             PROVE  CancelInv'
  OBVIOUS
<1> USE DEF CancelInv, outsideVars, endVars
<1>1. CASE TurnAborted \/ TurnsExhausted
  BY <1>1 DEF TurnAborted, TurnsExhausted, Fails
<1>2. CASE Compacts \/ StartsInference
  BY <1>2 DEF Compacts, StartsInference, Stops
<1>3. ASSUME NEW retryable \in BOOLEAN, InferenceFails(retryable)
      PROVE  CancelInv'
  BY <1>3 DEF InferenceFails, Fails
<1>4. CASE InferenceRetried \/ AnswersFinally \/ StopAllowed
  BY <1>4 DEF InferenceRetried, AnswersFinally, StopAllowed
<1>5. ASSUME NEW b \in Batches, AnswersWithTools(b)
      PROVE  CancelInv'
  BY <1>5 DEF AnswersWithTools
<1>6. CASE StopBlocked \/ BatchAnswered
  BY <1>6 DEF StopBlocked, BatchAnswered, NextTurn, Settled
<1>7. ASSUME NEW i \in DOMAIN calls, CallStep(i)
      PROVE  CancelInv'
  BY <1>7 DEF CallStep, CallRefused, CallApproved, CallReturns,
              CallReturnsUnserializable, CallThrows, SetCall
<1>8. CASE CallsStart \/ BatchFails \/ Ends
  BY <1>8 DEF CallsStart, BatchFails, Fails, Ends, convVars
<1>9. CASE Send \/ Cancel
  BY <1>9 DEF Send, Cancel, convVars
<1>10. CASE UNCHANGED vars
  BY <1>10 DEF vars, convVars
<1> QED
  BY <1>1, <1>2, <1>3, <1>4, <1>5, <1>6, <1>7, <1>8, <1>9, <1>10 DEF Next, Loop

(* After cancel() neither the model nor a tool is called in a later turn,   *)
(* whatever the loop was awaiting when the signal fired.                    *)
THEOREM CancelTakesEffect == Spec => []CancelEndsWithinTurn
<1>1. CancelInv => CancelEndsWithinTurn
  BY DEF CancelInv, CancelEndsWithinTurn
<1> QED
  BY <1>1, CancelInitially, CancelPreserved, PTL DEF Spec

-----------------------------------------------------------------------------
(* The outcome.  Until the loop is ending nothing is settled; then an       *)
(* outcome other than "completed" and a result exclude each other, and a    *)
(* cancelled handle beside another outcome was cancelled too late for the   *)
(* loop to see it.                                                          *)

Unseen ==
  status = "cancelled" =>
    /\ outcome = "error" => abortTurn = turn
    /\ outcome = "budget-exceeded" => turn = MaxTurns /\ abortTurn + 1 >= turn

OutcomeInv ==
  /\ turn \in 0..MaxTurns
  /\ pc \in {"infer", "backoff", "stopping", "tools"} => turn < MaxTurns
  /\ Unseen
  /\ pc \notin {"ending", "done"} =>
       outcome = "completed" /\ ~result /\ reported = "nothing" /\ status = "running"
  /\ pc = "ending" =>
       /\ reported = "nothing" /\ status \in {"running", "cancelled"}
       /\ outcome \in Outcome /\ (result <=> outcome = "completed")
       /\ status = "cancelled" => aborted /\ ~result
       /\ outcome = "interrupted" => status = "cancelled"
  /\ pc = "done" =>
       /\ reported = outcome /\ status \in {"completed", "failed", "cancelled"}
       /\ result <=> outcome = "completed"
       /\ status = "completed" <=> result
       /\ status = "failed" => outcome \in {"error", "budget-exceeded"}
       /\ status = "cancelled" => aborted
       /\ outcome = "interrupted" => status = "cancelled"

LEMMA OutcomeInitially == Init => OutcomeInv
BY AgentLoopAssumption DEF Init, OutcomeInv, Unseen

LEMMA OutcomePreserved == CancelInv /\ OutcomeInv /\ [Next]_vars => OutcomeInv'
<1> SUFFICES ASSUME CancelInv, OutcomeInv, [Next]_vars
             PROVE  OutcomeInv'
  OBVIOUS
<1> USE AgentLoopAssumption DEF OutcomeInv, Unseen, outsideVars, endVars
<1>1. CASE TurnAborted
  BY <1>1 DEF TurnAborted, Fails, Stops, Outcome
<1>2. CASE TurnsExhausted
  BY <1>2 DEF TurnsExhausted, Fails, Outcome, CancelInv
<1>3. CASE Compacts \/ StartsInference
  BY <1>3 DEF Compacts, StartsInference
<1>4. ASSUME NEW retryable \in BOOLEAN, InferenceFails(retryable)
      PROVE  OutcomeInv'
  BY <1>4 DEF InferenceFails, Fails, Outcome, CancelInv
<1>5. CASE InferenceRetried \/ AnswersFinally \/ StopAllowed
  BY <1>5 DEF InferenceRetried, AnswersFinally, StopAllowed, Outcome
<1>6. ASSUME NEW b \in Batches, AnswersWithTools(b)
      PROVE  OutcomeInv'
  BY <1>6 DEF AnswersWithTools
<1>7. CASE StopBlocked \/ BatchAnswered
  BY <1>7 DEF StopBlocked, BatchAnswered, NextTurn, Settled
<1>8. ASSUME NEW i \in DOMAIN calls, CallStep(i)
      PROVE  OutcomeInv'
  BY <1>8 DEF CallStep, CallRefused, CallApproved, CallReturns,
              CallReturnsUnserializable, CallThrows, SetCall
<1>9. CASE CallsStart
  BY <1>9 DEF CallsStart
<1>10. CASE BatchFails
  BY <1>10 DEF BatchFails, Fails, Settled, Outcome, CancelInv
<1>11. CASE Ends
  BY <1>11 DEF Ends, Outcome
<1>12. CASE Send
  BY <1>12 DEF Send
<1>13. CASE Cancel
  BY <1>13 DEF Cancel
<1>14. CASE UNCHANGED vars
  BY <1>14 DEF vars
<1> QED
  BY <1>1, <1>2, <1>3, <1>4, <1>5, <1>6, <1>7, <1>8, <1>9, <1>10, <1>11, <1>12,
     <1>13, <1>14 DEF Next, Loop

(* However cancel() races the last answer, an error or the turn limit, the  *)
(* handle and what the hook and the memory are told agree on completion and *)
(* on interruption, and differ only where the loop no longer looked at the  *)
(* signal before it ended by an error or by the turn limit.                 *)
THEOREM OutcomesAgree == Spec => []OutcomeAgrees
<1>1. OutcomeInv => OutcomeAgrees
  BY DEF OutcomeInv, Unseen, OutcomeAgrees
<1> QED
  BY <1>1, CancelInitially, CancelPreserved, OutcomeInitially, OutcomePreserved, PTL DEF Spec

(* Both together: whatever a cancel races, the loop ends within the turn    *)
(* and tells of its end as said above.                                      *)
THEOREM CancelsHonoured == Spec => []CancelHonoured
<1>1. CancelEndsWithinTurn /\ OutcomeAgrees => CancelHonoured
  BY DEF CancelHonoured
<1> QED
  BY <1>1, CancelTakesEffect, OutcomesAgree, PTL

-----------------------------------------------------------------------------
(* The elements of a sequence at some of its positions.  The rank of a      *)
(* position is how many of the chosen are at or before it: it says where    *)
(* the element goes.                                                        *)

Rank(P, m) == Cardinality({j \in P : j <= m})

LEMMA ChosenFinite ==
  ASSUME NEW n \in Nat, NEW P \in SUBSET (1..n)
  PROVE  /\ IsFiniteSet(P) /\ Cardinality(P) \in Nat
         /\ \A m : IsFiniteSet({j \in P : j <= m}) /\ Rank(P, m) \in Nat
<1>1. IsFiniteSet(P)
  <2>1. IsFiniteSet(1..n)
    BY FS_Interval
  <2> QED BY <2>1, FS_Subset
<1>2. ASSUME NEW m
      PROVE  IsFiniteSet({j \in P : j <= m})
  <2>1. {j \in P : j <= m} \subseteq P
    OBVIOUS
  <2> QED BY <1>1, <2>1, FS_Subset
<1> QED BY <1>1, <1>2, FS_CardinalityType DEF Rank

(* Positions chosen one behind the other have ranks one behind the other.   *)
LEMMA RanksRun ==
  ASSUME NEW n \in Nat, NEW P \in SUBSET (1..n), NEW p \in Nat, NEW k \in Nat,
         \A l \in 1..k : p + l \in P
  PROVE  Rank(P, p + k) = Rank(P, p) + k
<1> DEFINE before == {j \in P : j <= p}
           run == (p + 1)..(p + k)
<1>1. {j \in P : j <= p + k} = before \cup run
  <2>1. ASSUME NEW j \in run PROVE j \in P /\ j <= p + k
    <3>1. j - p \in 1..k /\ p + (j - p) = j
      OBVIOUS
    <3> QED BY <3>1
  <2>2. ASSUME NEW j \in P, j <= p + k, ~(j <= p) PROVE j \in run
    BY <2>2
  <2>3. ASSUME NEW j \in P, j <= p PROVE j <= p + k
    BY <2>3
  <2> QED BY <2>1, <2>2, <2>3
<1>2. before \cap run = {}
  OBVIOUS
<1>3. IsFiniteSet(before) /\ Cardinality(before) \in Nat
  BY ChosenFinite DEF Rank
<1>4. IsFiniteSet(run) /\ Cardinality(run) = k
  <2>1. p + 1 \in Int /\ p + k \in Int
    OBVIOUS
  <2>2. /\ IsFiniteSet(run)
        /\ Cardinality(run) = IF p + 1 > p + k THEN 0 ELSE p + k - (p + 1) + 1
    BY <2>1, FS_Interval
  <2> QED BY <2>2
<1> HIDE DEF before, run
<1>5. Cardinality(before \cup run) = Cardinality(before) + k
  <2>1. Cardinality(before \cup run)
          = Cardinality(before) + Cardinality(run) - Cardinality(before \cap run)
    BY <1>3, <1>4, FS_Union
  <2> QED BY <1>2, <1>3, <1>4, <2>1, FS_EmptySet
<1> QED BY <1>1, <1>5 DEF Rank, before

(* A later position has a higher rank. *)
LEMMA RanksRise ==
  ASSUME NEW n \in Nat, NEW P \in SUBSET (1..n), NEW k \in P, NEW m \in P, k < m
  PROVE  Rank(P, k) < Rank(P, m)
<1> DEFINE upto == {j \in P : j <= k}
           all == {j \in P : j <= m}
<1>0. \A j \in P : j \in 1..n
  OBVIOUS
<1>1. upto \cup {m} \subseteq all /\ m \notin upto
  <2>1. k \in Nat /\ m \in Nat /\ \A j \in P : j \in Nat
    BY <1>0
  <2>2. \A j \in P : j <= k => j <= m
    BY <2>1
  <2>3. m <= m /\ ~(m <= k)
    BY <2>1
  <2> QED BY <2>2, <2>3
<1>2. /\ IsFiniteSet(upto) /\ IsFiniteSet(all)
      /\ Cardinality(upto) \in Nat /\ Cardinality(all) \in Nat
  BY ChosenFinite DEF Rank
<1> HIDE DEF upto, all
<1>3. Cardinality(upto \cup {m}) = Cardinality(upto) + 1
  BY <1>1, <1>2, FS_AddElement
<1>4. Cardinality(upto \cup {m}) <= Cardinality(all)
  BY <1>1, <1>2, FS_Subset
<1>5. Cardinality(upto) < Cardinality(all)
  BY <1>2, <1>3, <1>4
<1> QED BY <1>5 DEF Rank, upto, all

(* The ranks of the chosen positions are 1, 2 and so on, each once.         *)
LEMMA RankWithin ==
  ASSUME NEW n \in Nat, NEW P \in SUBSET (1..n), NEW k \in P
  PROVE  Rank(P, k) \in 1..Cardinality(P)
<1> DEFINE upto == {j \in P : j <= k}
<1>1. upto \subseteq P /\ k \in upto
  OBVIOUS
<1>2. /\ IsFiniteSet(upto) /\ IsFiniteSet(P)
      /\ Cardinality(upto) \in Nat /\ Cardinality(P) \in Nat
  BY ChosenFinite DEF Rank
<1> HIDE DEF upto
<1>3. Cardinality(upto) <= Cardinality(P)
  BY <1>1, <1>2, FS_Subset
<1>4. Cardinality(upto) # 0
  BY <1>1, <1>2, FS_EmptySet
<1>5. Cardinality(upto) \in 1..Cardinality(P)
  BY <1>2, <1>3, <1>4
<1> QED BY <1>5 DEF Rank, upto

LEMMA RankOnce ==
  ASSUME NEW n \in Nat, NEW P \in SUBSET (1..n), NEW k \in P, NEW m \in P,
         Rank(P, k) = Rank(P, m)
  PROVE  k = m
<1>1. k \in Nat /\ m \in Nat /\ Rank(P, k) \in Nat /\ Rank(P, m) \in Nat
  <2>1. \A j \in P : j \in 1..n
    OBVIOUS
  <2>2. Rank(P, k) \in Nat /\ Rank(P, m) \in Nat
    BY ChosenFinite
  <2> QED BY <2>1, <2>2
<1>2. ~(k < m)
  <2>1. k < m => Rank(P, k) < Rank(P, m)
    BY RanksRise
  <2> QED BY <1>1, <2>1
<1>3. ~(m < k)
  <2>1. m < k => Rank(P, m) < Rank(P, k)
    BY RanksRise
  <2> QED BY <1>1, <2>1
<1> QED BY <1>1, <1>2, <1>3

LEMMA RankTaken ==
  ASSUME NEW n \in Nat, NEW P \in SUBSET (1..n), NEW i \in 1..Cardinality(P)
  PROVE  \E k \in P : Rank(P, k) = i
<1> DEFINE f == [k \in P |-> Rank(P, k)]
<1>1. IsFiniteSet(P) /\ Cardinality(P) \in Nat
  BY ChosenFinite
<1>2. f \in Injection(P, 1..Cardinality(P))
  <2>1. \A k \in P : Rank(P, k) \in 1..Cardinality(P)
    BY RankWithin
  <2>2. \A k, m \in P : Rank(P, k) = Rank(P, m) => k = m
    BY RankOnce
  <2>3. f \in [P -> 1..Cardinality(P)]
    BY <2>1
  <2>4. \A k, m \in P : f[k] = f[m] => k = m
    BY <2>2
  <2> HIDE DEF f
  <2> QED BY <2>3, <2>4 DEF Injection, IsInjective
<1>3. IsFiniteSet(1..Cardinality(P)) /\ Cardinality(1..Cardinality(P)) = Cardinality(P)
  <2>1. 1 \in Int /\ Cardinality(P) \in Int
    BY <1>1
  <2>2. Cardinality(1..Cardinality(P))
          = IF 1 > Cardinality(P) THEN 0 ELSE Cardinality(P) - 1 + 1
    BY <2>1, FS_Interval
  <2> QED BY <1>1, <2>1, <2>2, FS_Interval
<1>4. f \in Surjection(P, 1..Cardinality(P))
  <2> HIDE DEF f
  <2> QED BY <1>1, <1>2, <1>3, FS_Injection
<1>5. PICK k \in P : f[k] = i
  <2> HIDE DEF f
  <2> QED BY <1>4 DEF Surjection
<1> QED BY <1>5

(* Element i comes from a position of rank i, and the element of every      *)
(* chosen position is at the rank of that position.                         *)
LEMMA ElementsPlaced ==
  ASSUME NEW S, NEW s \in Seq(S), NEW P \in SUBSET (1..Len(s))
  PROVE  /\ ElementsAt(s, P) \in Seq(S)
         /\ Len(ElementsAt(s, P)) = Cardinality(P)
         /\ \A i \in 1..Cardinality(P) :
              \E k \in P : Rank(P, k) = i /\ ElementsAt(s, P)[i] = s[k]
         /\ \A k \in P : /\ Rank(P, k) \in 1..Cardinality(P)
                         /\ ElementsAt(s, P)[Rank(P, k)] = s[k]
<1> DEFINE at(i) == CHOOSE k \in P : Rank(P, k) = i
           all == [i \in 1..Cardinality(P) |-> s[at(i)]]
<1>0. Len(s) \in Nat
  OBVIOUS
<1>1. Cardinality(P) \in Nat
  BY <1>0, ChosenFinite
<1>2. \A i \in 1..Cardinality(P) : at(i) \in P /\ Rank(P, at(i)) = i
  <2>1. \A i \in 1..Cardinality(P) : \E k \in P : Rank(P, k) = i
    BY <1>0, RankTaken
  <2> QED BY <2>1
<1>3. ElementsAt(s, P) = all
  BY DEF ElementsAt, Rank
<1>4. \A k \in P : Rank(P, k) \in 1..Cardinality(P) /\ at(Rank(P, k)) = k
  <2>1. ASSUME NEW k \in P
        PROVE  Rank(P, k) \in 1..Cardinality(P) /\ at(Rank(P, k)) = k
    <3>1. Rank(P, k) \in 1..Cardinality(P)
      BY <1>0, RankWithin
    <3>2. at(Rank(P, k)) \in P /\ Rank(P, at(Rank(P, k))) = Rank(P, k)
      BY <1>2, <3>1
    <3> HIDE DEF at
    <3> QED BY <1>0, <3>1, <3>2, RankOnce
  <2> QED BY <2>1
<1> HIDE DEF at
<1>5. all \in Seq(S) /\ Len(all) = Cardinality(P)
  <2>0. \A k \in P : s[k] \in S
    OBVIOUS
  <2>1. \A i \in 1..Cardinality(P) : s[at(i)] \in S
    BY <1>2, <2>0
  <2> QED BY <1>1, <2>1
<1>6. \A i \in 1..Cardinality(P) : all[i] = s[at(i)]
  OBVIOUS
<1> HIDE DEF all
<1> QED BY <1>2, <1>3, <1>4, <1>5, <1>6

-----------------------------------------------------------------------------
(* Conversations: every call is answered right behind its message, every    *)
(* answer has its call, a call is made once, and in a turn before t.        *)

Answer(c) == [role |-> "tool", calls |-> <<>>, answers |-> <<c>>]

CallAt(ms, i, k) == i \in DOMAIN ms /\ k \in DOMAIN ms[i].calls

Paired(ms) ==
  /\ \A i, k : CallAt(ms, i, k) =>
       i + k \in DOMAIN ms /\ ms[i + k] = Answer(ms[i].calls[k])
  /\ \A i \in DOMAIN ms : ms[i].role = "tool" =>
       \E j, k : CallAt(ms, j, k) /\ i = j + k

CallsOnce(ms) ==
  \A i, j, k, l : CallAt(ms, i, k) /\ CallAt(ms, j, l)
                    /\ ms[i].calls[k] = ms[j].calls[l] => i = j /\ k = l

CalledBefore(ms, t) == \A i, k : CallAt(ms, i, k) => ms[i].calls[k][1] < t

Whole(ms, t) ==
  ms \in Seq(Message) /\ Paired(ms) /\ CallsOnce(ms) /\ CalledBefore(ms, t)

LEMMA CallTyped ==
  ASSUME NEW ms \in Seq(Message), NEW i, NEW k, CallAt(ms, i, k)
  PROVE  /\ i \in 1..Len(ms) /\ i \in Nat
         /\ k \in 1..Len(ms[i].calls) /\ k \in Nat /\ k >= 1
         /\ ms[i].calls \in Seq(CallId) /\ ms[i].calls[k] \in CallId
<1>1. i \in DOMAIN ms /\ DOMAIN ms = 1..Len(ms) /\ Len(ms) \in Nat
  BY DEF CallAt
<1>2. ms[i] \in Message
  BY <1>1
<1>3. ms[i].calls \in Seq(CallId)
  BY <1>2 DEF Message
<1>4. k \in 1..Len(ms[i].calls) /\ ms[i].calls[k] \in CallId /\ Len(ms[i].calls) \in Nat
  BY <1>3 DEF CallAt
<1> QED BY <1>1, <1>3, <1>4

LEMMA AnswerTyped ==
  ASSUME NEW c
  PROVE  /\ Answer(c).role = "tool" /\ Answer(c).calls = <<>>
         /\ Answer(c).answers = <<c>> /\ Answer(c).answers[1] = c
         /\ DOMAIN Answer(c).calls = {}
<1>1. DOMAIN <<>> = {}
  OBVIOUS
<1> QED BY <1>1 DEF Answer

(* A message that makes calls is no answer. *)
LEMMA CallersSpeak ==
  ASSUME NEW ms, Paired(ms), NEW i, NEW k, CallAt(ms, i, k)
  PROVE  ms[i].role # "tool" /\ ms[i].calls # <<>>
<1>1. DOMAIN ms[i].calls # {} /\ DOMAIN <<>> = {}
  BY DEF CallAt
<1>2. ms[i].role # "tool"
  <2> SUFFICES ASSUME ms[i].role = "tool"
               PROVE  FALSE
    OBVIOUS
  <2>1. PICK j, l : CallAt(ms, j, l) /\ i = j + l
    BY DEF Paired, CallAt
  <2>2. ms[i] = Answer(ms[j].calls[l])
    BY <2>1 DEF Paired
  <2> QED BY <1>1, <2>2, AnswerTyped
<1> QED BY <1>1, <1>2

-----------------------------------------------------------------------------
(* Choosing messages *)

(* A choice that takes a message with all its answers and an answer with    *)
(* its message keeps the conversation whole.                                *)
LEMMA ChoiceWhole ==
  ASSUME NEW t \in Nat, NEW ms, Whole(ms, t), NEW P \in SUBSET (1..Len(ms)),
         \A i, k : i \in P /\ CallAt(ms, i, k) => i + k \in P,
         \A i, k : CallAt(ms, i, k) /\ i + k \in P => i \in P
  PROVE  Whole(ElementsAt(ms, P), t) /\ Len(ElementsAt(ms, P)) = Cardinality(P)
<1> DEFINE r == ElementsAt(ms, P)
<1>0. /\ ms \in Seq(Message) /\ Len(ms) \in Nat
      /\ Paired(ms) /\ CallsOnce(ms) /\ CalledBefore(ms, t)
  BY DEF Whole
<1>0a. \A k \in P : ms[k] \in Message /\ k \in DOMAIN ms /\ k \in Nat
  BY <1>0
<1>1. /\ r \in Seq(Message) /\ Len(r) = Cardinality(P)
      /\ \A i \in 1..Cardinality(P) : \E k \in P : Rank(P, k) = i /\ r[i] = ms[k]
      /\ \A k \in P : Rank(P, k) \in 1..Cardinality(P) /\ r[Rank(P, k)] = ms[k]
  BY <1>0, ElementsPlaced
<1> HIDE DEF r
<1>2. DOMAIN r = 1..Cardinality(P)
  BY <1>1
<1>3. ASSUME NEW i, NEW k, CallAt(r, i, k)
      PROVE  \E p \in P : Rank(P, p) = i /\ r[i] = ms[p] /\ CallAt(ms, p, k)
  <2>1. i \in 1..Cardinality(P) /\ k \in DOMAIN r[i].calls
    BY <1>2, <1>3 DEF CallAt
  <2>2. PICK p \in P : Rank(P, p) = i /\ r[i] = ms[p]
    BY <1>1, <2>1
  <2> QED BY <1>0a, <2>1, <2>2 DEF CallAt
(* Its answers stay right behind a message. *)
<1>4. ASSUME NEW p \in P, NEW k, CallAt(ms, p, k)
      PROVE  p + k \in P /\ Rank(P, p + k) = Rank(P, p) + k
  <2>1. p \in Nat /\ k \in Nat /\ DOMAIN ms[p].calls = 1..Len(ms[p].calls)
        /\ k \in 1..Len(ms[p].calls) /\ Len(ms[p].calls) \in Nat
    BY <1>0, <1>4, CallTyped
  <2>2. \A l \in 1..k : p + l \in P
    <3>1. ASSUME NEW l \in 1..k PROVE p + l \in P
      <4>1. l \in DOMAIN ms[p].calls
        BY <2>1
      <4>2. CallAt(ms, p, l)
        BY <1>4, <4>1 DEF CallAt
      <4> QED BY <4>2
    <3> QED BY <3>1
  <2>3. p + k \in P
    BY <1>4
  <2> QED BY <1>0, <2>1, <2>2, <2>3, RanksRun
<1>5. ASSUME NEW i, NEW k, CallAt(r, i, k)
      PROVE  i + k \in DOMAIN r /\ r[i + k] = Answer(r[i].calls[k])
  <2>1. PICK p \in P : Rank(P, p) = i /\ r[i] = ms[p] /\ CallAt(ms, p, k)
    BY <1>3, <1>5
  <2>2. p + k \in P /\ Rank(P, p + k) = i + k
    BY <1>4, <2>1
  <2>3. ms[p + k] = Answer(ms[p].calls[k])
    BY <1>0, <2>1 DEF Paired
  <2> QED BY <1>1, <1>2, <2>1, <2>2, <2>3
<1>6. ASSUME NEW i \in DOMAIN r, r[i].role = "tool"
      PROVE  \E j, k : CallAt(r, j, k) /\ i = j + k
  <2>1. PICK p \in P : Rank(P, p) = i /\ r[i] = ms[p]
    BY <1>1, <1>2
  <2>2. PICK j, k : CallAt(ms, j, k) /\ p = j + k
    BY <1>0, <1>0a, <1>6, <2>1 DEF Paired
  <2>3. j \in P
    BY <2>1, <2>2
  <2>4. i = Rank(P, j) + k
    BY <1>4, <2>1, <2>2, <2>3
  <2>5. Rank(P, j) \in DOMAIN r /\ r[Rank(P, j)] = ms[j]
    BY <1>1, <1>2, <2>3
  <2>6. CallAt(r, Rank(P, j), k)
    BY <2>2, <2>5 DEF CallAt
  <2> QED BY <2>4, <2>6
<1>7. CallsOnce(r)
  <2> SUFFICES ASSUME NEW i, NEW j, NEW k, NEW l, CallAt(r, i, k), CallAt(r, j, l),
                      r[i].calls[k] = r[j].calls[l]
               PROVE  i = j /\ k = l
    BY DEF CallsOnce
  <2>1. PICK p \in P : Rank(P, p) = i /\ r[i] = ms[p] /\ CallAt(ms, p, k)
    BY <1>3
  <2>2. PICK q \in P : Rank(P, q) = j /\ r[j] = ms[q] /\ CallAt(ms, q, l)
    BY <1>3
  <2>3. p = q /\ k = l
    BY <1>0, <2>1, <2>2 DEF CallsOnce
  <2> QED BY <2>1, <2>2, <2>3
<1>8. CalledBefore(r, t)
  <2> SUFFICES ASSUME NEW i, NEW k, CallAt(r, i, k)
               PROVE  r[i].calls[k][1] < t
    BY DEF CalledBefore
  <2>1. PICK p \in P : r[i] = ms[p] /\ CallAt(ms, p, k)
    BY <1>3
  <2> QED BY <1>0, <2>1 DEF CalledBefore
<1>9. Whole(r, t)
  BY <1>1, <1>5, <1>6, <1>7, <1>8 DEF Whole, Paired
<1> QED BY <1>1, <1>9 DEF r

(* clearOldToolResults: an old answer goes with all the answers of its      *)
(* message and with the message, or stays with them.                        *)
LEMMA ClearedWhole ==
  ASSUME NEW t \in Nat, NEW ms, Whole(ms, t)
  PROVE  Whole(ClearOldToolResults(ms), t)
<1> DEFINE kept == KeptIds(ms)
           P == {i \in DOMAIN ms : ~Removes(ms, i, kept)}
<1>0. /\ ms \in Seq(Message) /\ Len(ms) \in Nat /\ DOMAIN ms = 1..Len(ms)
      /\ Paired(ms) /\ CallsOnce(ms)
  BY DEF Whole
<1>1. P \in SUBSET (1..Len(ms))
  BY <1>0
<1>2. Older(ms) \subseteq 1..Len(ms)
        /\ \A i \in Older(ms) : \A j \in 1..i : j \in Older(ms)
  BY <1>0, AgentLoopAssumption DEF Older
(* What stands behind a call that is made. *)
<1>3. ASSUME NEW i, NEW k, CallAt(ms, i, k)
      PROVE  /\ i \in Nat /\ k \in Nat /\ k >= 1
             /\ i \in DOMAIN ms /\ i + k \in DOMAIN ms
             /\ ms[i].role # "tool" /\ ms[i].calls # <<>>
             /\ ms[i + k].role = "tool" /\ ms[i + k].answers[1] = ms[i].calls[k]
             /\ ms[i].calls[k] \in ToSet(ms[i].calls)
             /\ i + k \in Older(ms) => i \in Older(ms)
  <2>1. i \in 1..Len(ms) /\ i \in Nat /\ k \in Nat /\ k >= 1
    BY <1>0, <1>3, CallTyped
  <2>2. i + k \in DOMAIN ms /\ ms[i + k] = Answer(ms[i].calls[k])
    BY <1>0, <1>3 DEF Paired
  <2>3. ms[i + k].role = "tool" /\ ms[i + k].answers[1] = ms[i].calls[k]
    BY <2>2, AnswerTyped
  <2>4. ms[i].role # "tool" /\ ms[i].calls # <<>>
    BY <1>0, <1>3, CallersSpeak
  <2>5. ms[i].calls[k] \in ToSet(ms[i].calls)
    BY <1>3 DEF CallAt, ToSet
  <2>6. i + k \in Older(ms) => i \in Older(ms)
    <3>1. i \in 1..(i + k)
      BY <2>1
    <3> QED BY <1>2, <3>1
  <2> QED BY <1>0, <2>1, <2>2, <2>3, <2>4, <2>5, <2>6
(* A call whose id is removed has its own answer among the old ones.        *)
<1>4. ASSUME NEW i, NEW k, CallAt(ms, i, k)
      PROVE  ms[i].calls[k] \in RemovedIds(ms) <=> i + k \in Older(ms)
  <2>1. ASSUME ms[i].calls[k] \in RemovedIds(ms)
        PROVE  i + k \in Older(ms)
    <3>1. PICK o \in Older(ms) : ms[o].role = "tool" /\ ms[o].answers[1] = ms[i].calls[k]
      BY <2>1 DEF RemovedIds
    <3>2. o \in DOMAIN ms
      BY <1>0, <1>2, <3>1
    <3>3. PICK j, l : CallAt(ms, j, l) /\ o = j + l
      BY <1>0, <3>1, <3>2 DEF Paired
    <3>4. ms[j].calls[l] = ms[i].calls[k]
      BY <1>3, <3>1, <3>3
    <3>5. i = j /\ k = l
      BY <1>0, <1>4, <3>3, <3>4 DEF CallsOnce
    <3> QED BY <3>3, <3>5
  <2>2. ASSUME i + k \in Older(ms)
        PROVE  ms[i].calls[k] \in RemovedIds(ms)
    BY <1>3, <1>4, <2>2 DEF RemovedIds
  <2> QED BY <2>1, <2>2
(* An id is kept with its message. *)
<1>5. ASSUME NEW i, NEW k, CallAt(ms, i, k)
      PROVE  ms[i].calls[k] \in kept <=>
               i + k \in Older(ms) /\ ~(ToSet(ms[i].calls) \subseteq RemovedIds(ms))
  <2>1. ASSUME ms[i].calls[k] \in kept
        PROVE  i + k \in Older(ms) /\ ~(ToSet(ms[i].calls) \subseteq RemovedIds(ms))
    <3>1. PICK j \in Older(ms) : /\ ~(ToSet(ms[j].calls) \subseteq RemovedIds(ms))
                                 /\ ms[i].calls[k] \in ToSet(ms[j].calls)
      BY <2>1 DEF KeptIds
    <3>2. PICK l \in DOMAIN ms[j].calls : ms[j].calls[l] = ms[i].calls[k]
      BY <3>1 DEF ToSet
    <3>3. CallAt(ms, j, l)
      BY <1>0, <1>2, <3>1, <3>2 DEF CallAt
    <3>4. i = j
      BY <1>0, <1>5, <3>2, <3>3 DEF CallsOnce
    <3>5. ms[i].calls[k] \in RemovedIds(ms)
      BY <2>1 DEF KeptIds
    <3> QED BY <1>4, <1>5, <3>1, <3>4, <3>5
  <2>2. ASSUME i + k \in Older(ms), ~(ToSet(ms[i].calls) \subseteq RemovedIds(ms))
        PROVE  ms[i].calls[k] \in kept
    <3>1. ms[i].calls[k] \in RemovedIds(ms)
      BY <1>4, <1>5, <2>2
    <3>2. i \in Older(ms) /\ ms[i].calls[k] \in ToSet(ms[i].calls)
      BY <1>3, <1>5, <2>2
    <3> QED BY <2>2, <3>1, <3>2 DEF KeptIds
  <2> QED BY <2>1, <2>2
<1> HIDE DEF kept
<1>6. ASSUME NEW i, NEW k, CallAt(ms, i, k)
      PROVE  i \in P <=> i + k \in P
  <2>1. i \in P <=> ~(i \in Older(ms) /\ ToSet(ms[i].calls) \subseteq RemovedIds(ms))
    BY <1>3, <1>6 DEF Removes
  <2>2. i + k \in P <=> ~(i + k \in Older(ms) /\ ms[i].calls[k] \notin kept)
    BY <1>3, <1>6 DEF Removes
  <2>3. i \in Older(ms) /\ ToSet(ms[i].calls) \subseteq RemovedIds(ms) => i + k \in Older(ms)
    BY <1>3, <1>4, <1>6
  <2> QED BY <1>3, <1>5, <1>6, <2>1, <2>2, <2>3
<1>7. Whole(ElementsAt(ms, P), t)
  <2> HIDE DEF P
  <2> QED BY <1>1, <1>6, ChoiceWhole
<1> QED BY <1>7 DEF ClearOldToolResults, kept

-----------------------------------------------------------------------------
(* Adding messages *)

Silent(ms) ==
  ms \in Seq(Message) /\ \A i \in DOMAIN ms : ms[i].role # "tool" /\ ms[i].calls = <<>>

LEMMA SilentWhole ==
  ASSUME NEW t, NEW ms, Silent(ms)
  PROVE  Whole(ms, t)
<1>1. \A i, k : ~CallAt(ms, i, k)
  <2>1. DOMAIN <<>> = {}
    OBVIOUS
  <2> QED BY <2>1 DEF CallAt, Silent
<1> QED BY <1>1 DEF Silent, Whole, Paired, CallsOnce, CalledBefore

(* What the calls of a turn add follows whatever came before that turn.     *)
LEMMA JoinedWhole ==
  ASSUME NEW t \in Nat, NEW u \in Nat, t <= u, NEW a, NEW b, Whole(a, t), Whole(b, u),
         \A i, k : CallAt(b, i, k) => b[i].calls[k][1] >= t
  PROVE  Whole(a \o b, u)
<1> DEFINE ab == a \o b
           n == Len(a)
<1>0. /\ a \in Seq(Message) /\ Paired(a) /\ CallsOnce(a) /\ CalledBefore(a, t)
      /\ b \in Seq(Message) /\ Paired(b) /\ CallsOnce(b) /\ CalledBefore(b, u)
  BY DEF Whole
<1>1. /\ ab \in Seq(Message) /\ Len(ab) = n + Len(b) /\ n \in Nat /\ Len(b) \in Nat
      /\ DOMAIN ab = 1..(n + Len(b)) /\ DOMAIN a = 1..n /\ DOMAIN b = 1..Len(b)
      /\ \A i \in 1..n : ab[i] = a[i]
      /\ \A i \in 1..Len(b) : ab[n + i] = b[i]
  BY <1>0
<1> HIDE DEF ab, n
(* Where a call of the whole comes from. *)
<1>2. ASSUME NEW i, NEW k, CallAt(ab, i, k)
      PROVE  /\ i \in Nat /\ k \in Nat
             /\ \/ CallAt(a, i, k) /\ ab[i] = a[i]
                \/ i - n \in Nat /\ CallAt(b, i - n, k) /\ ab[i] = b[i - n]
  <2>1. i \in 1..(n + Len(b)) /\ k \in DOMAIN ab[i].calls /\ i \in Nat /\ k \in Nat
    BY <1>1, <1>2, CallTyped DEF CallAt
  <2>2. CASE i <= n
    <3>1. i \in 1..n
      BY <1>1, <2>1, <2>2
    <3> QED BY <1>1, <2>1, <3>1 DEF CallAt
  <2>3. CASE ~(i <= n)
    <3>1. i - n \in 1..Len(b) /\ n + (i - n) = i
      BY <1>1, <2>1, <2>3
    <3>2. ab[i] = b[i - n]
      BY <1>1, <3>1
    <3> QED BY <1>1, <2>1, <3>1, <3>2 DEF CallAt
  <2> QED BY <2>2, <2>3
<1>3. ASSUME NEW i, NEW k, CallAt(ab, i, k)
      PROVE  i + k \in DOMAIN ab /\ ab[i + k] = Answer(ab[i].calls[k])
  <2>1. CASE CallAt(a, i, k) /\ ab[i] = a[i]
    <3>1. i + k \in 1..n /\ a[i + k] = Answer(a[i].calls[k])
      BY <1>0, <1>1, <2>1 DEF Paired
    <3>2. i + k \in DOMAIN ab
      BY <1>1, <3>1
    <3> QED BY <1>1, <2>1, <3>1, <3>2
  <2>2. CASE i - n \in Nat /\ CallAt(b, i - n, k) /\ ab[i] = b[i - n]
    <3>1. (i - n) + k \in 1..Len(b) /\ b[(i - n) + k] = Answer(b[i - n].calls[k])
      BY <1>0, <1>1, <2>2 DEF Paired
    <3>2. n + ((i - n) + k) = i + k
      BY <1>1, <1>2, <1>3
    <3>3. ab[n + ((i - n) + k)] = b[(i - n) + k] /\ i + k \in DOMAIN ab
      BY <1>1, <3>1, <3>2
    <3> QED BY <2>2, <3>1, <3>2, <3>3
  <2> QED BY <1>2, <1>3, <2>1, <2>2
<1>4. ASSUME NEW i \in DOMAIN ab, ab[i].role = "tool"
      PROVE  \E j, k : CallAt(ab, j, k) /\ i = j + k
  <2>0. i \in 1..(n + Len(b))
    BY <1>1
  <2>1. CASE i <= n
    <3>1. i \in DOMAIN a /\ a[i].role = "tool"
      BY <1>1, <1>4, <2>0, <2>1
    <3>2. PICK j, k : CallAt(a, j, k) /\ i = j + k
      BY <1>0, <3>1 DEF Paired
    <3>3. CallAt(ab, j, k)
      BY <1>1, <3>2 DEF CallAt
    <3> QED BY <3>2, <3>3
  <2>2. CASE ~(i <= n)
    <3>0. i - n \in 1..Len(b) /\ n + (i - n) = i
      BY <1>1, <2>0, <2>2
    <3>1. i - n \in DOMAIN b /\ b[i - n].role = "tool"
      BY <1>1, <1>4, <3>0
    <3>2. PICK j, k : CallAt(b, j, k) /\ i - n = j + k
      BY <1>0, <3>1 DEF Paired
    <3>3. j \in 1..Len(b) /\ k \in Nat
      BY <1>0, <3>2, CallTyped
    <3>4. n + j \in DOMAIN ab /\ ab[n + j] = b[j] /\ i = (n + j) + k
      BY <1>1, <3>0, <3>2, <3>3
    <3>5. CallAt(ab, n + j, k)
      BY <3>2, <3>4 DEF CallAt
    <3> QED BY <3>4, <3>5
  <2> QED BY <2>1, <2>2
<1>5. CallsOnce(ab)
  <2> SUFFICES ASSUME NEW i, NEW j, NEW k, NEW l, CallAt(ab, i, k), CallAt(ab, j, l),
                      ab[i].calls[k] = ab[j].calls[l]
               PROVE  i = j /\ k = l
    BY DEF CallsOnce
  <2>1. \A x, y : CallAt(a, x, y) => a[x].calls[y][1] \in Nat /\ a[x].calls[y][1] < t
    BY <1>0, CallTyped DEF CalledBefore, CallId
  <2>2. \A x, y : CallAt(b, x, y) => b[x].calls[y][1] \in Nat /\ ~(b[x].calls[y][1] < t)
    BY <1>0, CallTyped DEF CallId
  <2>3. CASE CallAt(a, i, k) /\ ab[i] = a[i] /\ CallAt(a, j, l) /\ ab[j] = a[j]
    BY <1>0, <2>3 DEF CallsOnce
  <2>4. CASE CallAt(a, i, k) /\ ab[i] = a[i] /\ CallAt(b, j - n, l) /\ ab[j] = b[j - n]
    BY <2>1, <2>2, <2>4
  <2>5. CASE CallAt(b, i - n, k) /\ ab[i] = b[i - n] /\ CallAt(a, j, l) /\ ab[j] = a[j]
    BY <2>1, <2>2, <2>5
  <2>6. CASE CallAt(b, i - n, k) /\ ab[i] = b[i - n] /\ CallAt(b, j - n, l) /\ ab[j] = b[j - n]
    <3>1. i - n = j - n /\ k = l
      BY <1>0, <2>6 DEF CallsOnce
    <3>2. i \in Nat /\ j \in Nat
      BY <1>2
    <3> QED BY <1>1, <3>1, <3>2
  <2> QED BY <1>2, <2>3, <2>4, <2>5, <2>6
<1>6. CalledBefore(ab, u)
  <2> SUFFICES ASSUME NEW i, NEW k, CallAt(ab, i, k)
               PROVE  ab[i].calls[k][1] < u
    BY DEF CalledBefore
  <2>1. CASE CallAt(a, i, k) /\ ab[i] = a[i]
    <3>1. a[i].calls[k][1] < t /\ a[i].calls[k][1] \in Nat
      BY <1>0, <2>1, CallTyped DEF CalledBefore, CallId
    <3> QED BY <2>1, <3>1
  <2>2. CASE CallAt(b, i - n, k) /\ ab[i] = b[i - n]
    BY <1>0, <2>2 DEF CalledBefore
  <2> QED BY <1>2, <2>1, <2>2
<1>7. Whole(ab, u)
  BY <1>1, <1>3, <1>4, <1>5, <1>6 DEF Whole, Paired
<1> QED BY <1>7 DEF ab

LEMMA ThenSilent ==
  ASSUME NEW t \in Nat, NEW a, NEW b, Whole(a, t), Silent(b)
  PROVE  Whole(a \o b, t)
<1>1. \A i, k : ~CallAt(b, i, k)
  <2>1. DOMAIN <<>> = {}
    OBVIOUS
  <2> QED BY <2>1 DEF CallAt, Silent
<1>2. Whole(b, t)
  BY SilentWhole
<1> QED BY <1>1, <1>2, JoinedWhole

LEMMA WholeLater ==
  ASSUME NEW t \in Nat, NEW ms, Whole(ms, t)
  PROVE  Whole(ms, t + 1)
<1>1. ASSUME NEW i, NEW k, CallAt(ms, i, k)
      PROVE  ms[i].calls[k][1] < t + 1
  <2>1. ms[i].calls[k][1] < t /\ ms[i].calls[k][1] \in Nat
    BY <1>1, CallTyped DEF Whole, CalledBefore, CallId
  <2> QED BY <2>1
<1> QED BY <1>1 DEF Whole, CalledBefore

LEMMA ExchangeSilent ==
  /\ Silent(<<>>)
  /\ Silent(Exchange) /\ Len(Exchange) = 2
  /\ Silent(<<Plain("user")>>) /\ Silent(<<Plain("assistant")>>)
  /\ Silent(<<Plain("assistant"), Plain("user")>>)
  /\ Silent(Append(Exchange, Plain("user")))
  /\ \A n \in Nat : Silent(Exchanges(n))
<1> DEFINE u == Plain("user")
           s == Plain("assistant")
<1>1. /\ u \in Message /\ s \in Message
      /\ u.role = "user" /\ s.role = "assistant" /\ u.calls = <<>> /\ s.calls = <<>>
  <2>1. <<>> \in Seq(CallId)
    OBVIOUS
  <2> QED BY <2>1 DEF Plain, Message
<1>2. ASSUME NEW n \in Nat
      PROVE  Silent(Exchanges(n))
  <2>1. \A i \in 1..(2 * n) : Exchange[IF i % 2 = 1 THEN 1 ELSE 2] \in {u, s}
    BY DEF Exchange
  <2>2. \A i \in DOMAIN Exchanges(n) : Exchanges(n)[i] \in {u, s}
    BY <2>1 DEF Exchanges
  <2>3. Exchanges(n) \in Seq({u, s})
    <3>1. 2 * n \in Nat
      OBVIOUS
    <3> QED BY <2>1, <3>1 DEF Exchanges
  <2> HIDE DEF u, s
  <2>4. Exchanges(n) \in Seq(Message)
    BY <1>1, <2>3
  <2> QED BY <1>1, <2>2, <2>4 DEF Silent
<1>3. Exchange = <<u, s>>
  BY DEF Exchange
<1> HIDE DEF u, s
<1>4. Silent(<<u, s>>) /\ Silent(<<u>>) /\ Silent(<<s>>) /\ Silent(<<s, u>>)
  BY <1>1 DEF Silent
<1>5. Silent(Append(Exchange, u))
  <2> DEFINE more == Append(Exchange, u)
  <2>1. /\ more \in Seq(Message) /\ Len(more) = 3
        /\ more[1] = u /\ more[2] = s /\ more[3] = u
    BY <1>1, <1>3
  <2> HIDE DEF more
  <2>2. DOMAIN more = 1..3
    BY <2>1
  <2>3. \A i \in 1..3 : more[i].role # "tool" /\ more[i].calls = <<>>
    BY <1>1, <2>1
  <2> QED BY <2>1, <2>2, <2>3 DEF Silent, more
<1>6. Silent(<<>>)
  BY DEF Silent
<1> QED BY <1>2, <1>3, <1>4, <1>5, <1>6 DEF u, s

(* The message with the calls of a turn and one answer for each.            *)
LEMMA ToolMessagesWhole ==
  ASSUME turn \in Nat, calls \in Seq(CallState)
  PROVE  /\ Whole(ToolMessages, turn + 1)
         /\ \A i, k : CallAt(ToolMessages, i, k) => ToolMessages[i].calls[k][1] >= turn
<1> DEFINE ids == [i \in DOMAIN calls |-> <<turn, i>>]
           asks == [role |-> "assistant", calls |-> ids, answers |-> <<>>]
           said == [i \in DOMAIN calls |-> Answer(ids[i])]
           n == Len(calls)
<1>1. n \in Nat /\ DOMAIN calls = 1..n
  OBVIOUS
<1>2. /\ ids \in Seq(CallId) /\ DOMAIN ids = 1..n
      /\ \A k \in 1..n : ids[k] = <<turn, k>>
  <2>1. \A k \in 1..n : <<turn, k>> \in CallId
    BY <1>1 DEF CallId
  <2> QED BY <1>1, <2>1
<1> HIDE DEF ids
<1>3. /\ asks \in Message
      /\ asks.role = "assistant" /\ asks.calls = ids
  <2>1. <<>> \in Seq(CallId)
    OBVIOUS
  <2> QED BY <1>2, <2>1 DEF Message
<1>4. /\ said \in Seq(Message) /\ Len(said) = n
      /\ \A k \in 1..n : said[k] = Answer(ids[k])
  <2>1. ASSUME NEW k \in 1..n
        PROVE  Answer(ids[k]) \in Message
    <3>1. <<>> \in Seq(CallId) /\ ids[k] \in CallId
      BY <1>2
    <3>2. <<ids[k]>> \in Seq(CallId)
      BY <3>1
    <3> QED BY <3>1, <3>2 DEF Answer, Message
  <2>2. said \in [1..n -> Message]
    BY <1>1, <2>1
  <2> QED BY <1>1, <2>2
<1>5. ToolMessages = <<asks>> \o said
  BY DEF ToolMessages, ids, Answer
<1> HIDE DEF asks, said, n
<1>6. /\ ToolMessages \in Seq(Message) /\ DOMAIN ToolMessages = 1..(n + 1)
      /\ ToolMessages[1] = asks
      /\ \A k \in 1..n : ToolMessages[1 + k] = Answer(ids[k])
  <2>1. <<asks>> \in Seq(Message) /\ Len(<<asks>>) = 1 /\ <<asks>>[1] = asks
    BY <1>3
  <2>2. /\ <<asks>> \o said \in Seq(Message) /\ Len(<<asks>> \o said) = 1 + n
        /\ (<<asks>> \o said)[1] = asks
        /\ \A k \in 1..n : (<<asks>> \o said)[1 + k] = said[k]
    BY <1>1, <1>4, <2>1
  <2> QED BY <1>1, <1>4, <1>5, <2>2
<1>7. ASSUME NEW i, NEW k, CallAt(ToolMessages, i, k)
      PROVE  i = 1 /\ k \in 1..n /\ ToolMessages[i].calls[k] = <<turn, k>>
  <2>1. i \in 1..(n + 1) /\ k \in DOMAIN ToolMessages[i].calls
    BY <1>6, <1>7 DEF CallAt
  <2>2. i = 1
    <3> SUFFICES ASSUME i # 1
                 PROVE  FALSE
      OBVIOUS
    <3>1. i - 1 \in 1..n /\ 1 + (i - 1) = i
      BY <1>1, <2>1
    <3>2. ToolMessages[i] = Answer(ids[i - 1])
      BY <1>6, <3>1
    <3> QED BY <2>1, <3>2, AnswerTyped
  <2> QED BY <1>2, <1>3, <1>6, <2>1, <2>2
<1>8. ASSUME NEW k \in 1..n
      PROVE  CallAt(ToolMessages, 1, k) /\ ToolMessages[1].calls[k] = ids[k]
  BY <1>1, <1>2, <1>3, <1>6, <1>8 DEF CallAt
<1>9. Paired(ToolMessages)
  <2>1. ASSUME NEW i, NEW k, CallAt(ToolMessages, i, k)
        PROVE  /\ i + k \in DOMAIN ToolMessages
               /\ ToolMessages[i + k] = Answer(ToolMessages[i].calls[k])
    <3>1. i = 1 /\ k \in 1..n
      BY <1>7, <2>1
    <3> QED BY <1>1, <1>6, <1>8, <3>1
  <2>2. ASSUME NEW i \in DOMAIN ToolMessages, ToolMessages[i].role = "tool"
        PROVE  \E j, k : CallAt(ToolMessages, j, k) /\ i = j + k
    <3>1. i # 1
      BY <1>3, <1>6, <2>2
    <3>2. i - 1 \in 1..n /\ i = 1 + (i - 1)
      BY <1>1, <1>6, <3>1
    <3> QED BY <1>8, <3>2
  <2> QED BY <2>1, <2>2 DEF Paired
<1>10. CallsOnce(ToolMessages)
  <2> SUFFICES ASSUME NEW i, NEW j, NEW k, NEW l,
                      CallAt(ToolMessages, i, k), CallAt(ToolMessages, j, l),
                      ToolMessages[i].calls[k] = ToolMessages[j].calls[l]
               PROVE  i = j /\ k = l
    BY DEF CallsOnce
  <2>1. <<turn, k>> = <<turn, l>> /\ i = 1 /\ j = 1
    BY <1>7
  <2> QED BY <2>1
<1>11. \A i, k : CallAt(ToolMessages, i, k) =>
         ToolMessages[i].calls[k][1] < turn + 1 /\ ToolMessages[i].calls[k][1] >= turn
  BY <1>7
<1> QED BY <1>6, <1>9, <1>10, <1>11 DEF Whole, CalledBefore

-----------------------------------------------------------------------------
(* Types.  A turn begins only below the limit, a retry too; what waits in   *)
(* the queue has been sent.                                                 *)

LoopTypes ==
  /\ TypeOK
  /\ pc \notin {"top", "ending", "done"} => turn < MaxTurns
  /\ pc = "backoff" => attempt < MaxRetries
  /\ queue <= sent

LEMMA ElementsTyped ==
  ASSUME NEW S, NEW s \in Seq(S), NEW P \in SUBSET (DOMAIN s)
  PROVE  ElementsAt(s, P) \in Seq(S)
<1>1. P \in SUBSET (1..Len(s))
  OBVIOUS
<1> QED BY <1>1, ElementsPlaced

LEMMA CompactionTyped ==
  ASSUME NEW ms \in Seq(Message)
  PROVE  Compaction(ms) \subseteq Seq(Message)
<1> DEFINE cleared == ClearOldToolResults(ms)
<1>1. cleared \in Seq(Message)
  <2> DEFINE P == {i \in DOMAIN ms : ~Removes(ms, i, KeptIds(ms))}
  <2>1. P \in SUBSET (DOMAIN ms)
    OBVIOUS
  <2> HIDE DEF P
  <2>2. ElementsAt(ms, P) \in Seq(Message)
    BY <2>1, ElementsTyped
  <2> QED BY <2>2 DEF ClearOldToolResults, P
<1> HIDE DEF cleared
<1>2. Exchange \in Seq(Message)
  BY ExchangeSilent DEF Silent
<1>3. Truncated(cleared) \in Seq(Message)
  <2> DEFINE from == IF Len(cleared) > Budget THEN Len(cleared) - Budget + 1 ELSE 1
  <2>1. from \in 1..(Len(cleared) + 1) /\ Len(cleared) \in 0..Len(cleared)
    BY <1>1, AgentLoopAssumption
  <2> HIDE DEF from
  <2>2. SubSeq(cleared, from, Len(cleared)) \in Seq(Message)
    BY <1>1, <2>1, SubSeqProperties
  <2> QED BY <1>2, <2>2 DEF Truncated, from
<1> QED BY <1>1, <1>2, <1>3 DEF Compaction, cleared

LEMMA BatchMessagesTyped ==
  ASSUME turn \in Nat, calls \in Seq(CallState), messages \in Seq(Message),
         NEW n \in Nat
  PROVE  messages \o ToolMessages \o Exchanges(n) \in Seq(Message)
BY ToolMessagesWhole, ExchangeSilent DEF Whole, Silent

LEMMA TypesInitially == Init => LoopTypes
<1> SUFFICES ASSUME Init
             PROVE  LoopTypes
  OBVIOUS
<1>1. messages \in Seq(Message)
  BY ExchangeSilent DEF Init, Silent
<1>2. calls \in Seq(CallState) /\ Len(calls) = Len(batch)
  BY DEF Init
<1>3. /\ pc = "top" /\ turn = 0 /\ attempt = 0 /\ batch = <<>>
      /\ compacted \in BOOLEAN /\ pendingSkill \in BOOLEAN
      /\ queue = 0 /\ sent = 0 /\ aborted \in BOOLEAN /\ abortTurn = 0
      /\ outcome = "completed" /\ result \in BOOLEAN
      /\ reported = "nothing" /\ status = "running"
  BY DEF Init
<1> QED BY <1>1, <1>2, <1>3, AgentLoopAssumption DEF LoopTypes, TypeOK, Outcome

LEMMA SetCallTyped ==
  ASSUME LoopTypes, NEW i \in DOMAIN calls, NEW s \in CallState, SetCall(i, s)
  PROVE  calls' \in Seq(CallState) /\ Len(calls') = Len(batch')
BY DEF LoopTypes, TypeOK, SetCall

LEMMA TypesPreserved == LoopTypes /\ [Next]_vars => LoopTypes'
<1> SUFFICES ASSUME LoopTypes, [Next]_vars
             PROVE  LoopTypes'
  OBVIOUS
<1> USE AgentLoopAssumption
<1>0. TypeOK /\ turn \in Nat /\ messages \in Seq(Message)
  BY DEF LoopTypes, TypeOK
<1>1. CASE TurnAborted \/ TurnsExhausted
  BY <1>1 DEF LoopTypes, TypeOK, TurnAborted, TurnsExhausted, Fails, convVars, toolVars,
              outsideVars, Outcome
<1>2. CASE Compacts
  <2>1. messages' \in Seq(Message)
    BY <1>0, <1>2, CompactionTyped DEF Compacts
  <2> QED BY <1>2, <2>1 DEF LoopTypes, TypeOK, Compacts, toolVars, outsideVars, endVars
<1>3. CASE StartsInference
  <2>1. messages' \in Seq(Message)
    BY <1>0, <1>3, ExchangeSilent DEF StartsInference, Silent
  <2>2. /\ pc' = "infer" /\ attempt' = 0 /\ turn < MaxTurns /\ pendingSkill' \in BOOLEAN
        /\ UNCHANGED <<turn, compacted, toolVars, outsideVars, endVars>>
    BY <1>3 DEF StartsInference
  <2> QED BY <2>1, <2>2 DEF LoopTypes, TypeOK, toolVars, outsideVars, endVars
<1>4. ASSUME NEW retryable \in BOOLEAN, InferenceFails(retryable)
      PROVE  LoopTypes'
  BY <1>4 DEF LoopTypes, TypeOK, InferenceFails, Fails, convVars, toolVars, outsideVars,
              endVars, Outcome
<1>5. CASE InferenceRetried
  BY <1>5 DEF LoopTypes, TypeOK, InferenceRetried, convVars, toolVars, outsideVars, endVars
<1>6. CASE AnswersFinally
  BY <1>6 DEF LoopTypes, TypeOK, AnswersFinally, convVars, toolVars, outsideVars, endVars
<1>7. ASSUME NEW b \in Batches, AnswersWithTools(b)
      PROVE  LoopTypes'
  <2>1. calls' \in Seq(CallState) /\ Len(calls') = Len(batch') /\ batch' = b
    <3>1. b \in Seq(Tools) /\ batch' = b /\ calls' = [i \in DOMAIN b |-> "waiting"]
      BY <1>7 DEF AnswersWithTools
    <3>2. DOMAIN b = 1..Len(b) /\ Len(b) \in Nat /\ "waiting" \in CallState
      BY <3>1 DEF CallState
    <3> QED BY <3>1, <3>2
  <2> QED BY <1>7, <2>1 DEF LoopTypes, TypeOK, AnswersWithTools, convVars, outsideVars, endVars
<1>8. CASE StopBlocked
  <2>1. messages' \in Seq(Message)
    BY <1>0, <1>8, ExchangeSilent DEF StopBlocked, Silent
  <2>2. /\ pc = "stopping" /\ pc' = "top" /\ turn' = turn + 1 /\ compacted' \in BOOLEAN
        /\ UNCHANGED <<pendingSkill, attempt, toolVars, outsideVars, endVars>>
    BY <1>8 DEF StopBlocked, NextTurn
  <2> QED BY <2>1, <2>2 DEF LoopTypes, TypeOK, toolVars, outsideVars, endVars
<1>9. CASE StopAllowed
  <2>1. messages' \in Seq(Message)
    <3>1. <<Plain("assistant")>> \in Seq(Message)
      BY ExchangeSilent DEF Silent
    <3>2. Plain("assistant") \in Message
      <4> DEFINE one == <<Plain("assistant")>>
      <4>1. 1 \in DOMAIN one /\ one[1] = Plain("assistant")
        OBVIOUS
      <4> HIDE DEF one
      <4>2. one[1] \in Message
        BY <3>1, <4>1 DEF one
      <4> QED BY <4>1, <4>2
    <3> QED BY <1>0, <1>9, <3>2 DEF StopAllowed
  <2> QED BY <1>9, <2>1 DEF LoopTypes, TypeOK, StopAllowed, toolVars, outsideVars
<1>10. ASSUME NEW i \in DOMAIN calls, CallStep(i)
       PROVE  LoopTypes'
  <2>1. PICK s \in CallState : SetCall(i, s)
    BY <1>10 DEF CallStep, CallRefused, CallApproved, CallReturns,
                 CallReturnsUnserializable, CallThrows, CallState
  <2>2. calls' \in Seq(CallState) /\ Len(calls') = Len(batch')
    BY <2>1, SetCallTyped
  <2>3. pendingSkill' \in BOOLEAN
    BY <1>0, <1>10 DEF CallStep, CallRefused, CallApproved, CallReturns,
                       CallReturnsUnserializable, CallThrows, TypeOK
  <2> QED BY <2>1, <2>2, <2>3 DEF LoopTypes, TypeOK, SetCall, outsideVars, endVars
<1>11. CASE CallsStart
  <2>1. calls' \in Seq(CallState) /\ Len(calls') = Len(batch')
    <3>1. /\ calls \in Seq(CallState) /\ Len(calls) = Len(batch) /\ batch' = batch
          /\ calls' = [i \in DOMAIN calls |->
                         IF calls[i] = "approved" THEN "running" ELSE calls[i]]
      BY <1>0, <1>11 DEF CallsStart, TypeOK
    <3>2. "running" \in CallState /\ DOMAIN calls = 1..Len(calls) /\ Len(calls) \in Nat
      BY <3>1 DEF CallState
    <3> QED BY <3>1, <3>2
  <2> QED BY <1>11, <2>1 DEF LoopTypes, TypeOK, CallsStart, convVars, outsideVars, endVars
<1>12. CASE BatchFails
  BY <1>12 DEF LoopTypes, TypeOK, BatchFails, Fails, convVars, toolVars, outsideVars, Outcome
<1>13. CASE BatchAnswered
  <2>1. messages' \in Seq(Message)
    <3>1. PICK n \in {0, 1} : messages' = messages \o ToolMessages \o Exchanges(n + queue)
      BY <1>13 DEF BatchAnswered
    <3>2. n + queue \in Nat /\ calls \in Seq(CallState)
      BY <1>0 DEF TypeOK
    <3> QED BY <1>0, <3>1, <3>2, BatchMessagesTyped
  <2>2. batch' = <<>> /\ calls' = <<>> /\ pc = "tools"
    BY <1>13 DEF BatchAnswered, Settled
  <2>3. calls' \in Seq(CallState) /\ Len(calls') = Len(batch') /\ batch' \in Batches \cup {<<>>}
    BY <2>2
  <2>4. /\ pc' = "top" /\ turn' = turn + 1 /\ compacted' \in BOOLEAN /\ queue' = 0
        /\ UNCHANGED <<pendingSkill, attempt, sent, aborted, abortTurn, endVars>>
    BY <1>13 DEF BatchAnswered, NextTurn
  <2> QED BY <2>1, <2>2, <2>3, <2>4 DEF LoopTypes, TypeOK, endVars
<1>14. CASE Ends
  BY <1>14 DEF LoopTypes, TypeOK, Ends, convVars, toolVars, outsideVars
<1>15. CASE Send
  BY <1>15 DEF LoopTypes, TypeOK, Send, convVars, toolVars, endVars
<1>16. CASE Cancel
  BY <1>16 DEF LoopTypes, TypeOK, Cancel, convVars, toolVars, endVars
<1>17. CASE UNCHANGED vars
  BY <1>17 DEF LoopTypes, TypeOK, vars, convVars, toolVars, outsideVars, endVars
<1> QED
  BY <1>1, <1>2, <1>3, <1>4, <1>5, <1>6, <1>7, <1>8, <1>9, <1>10, <1>11, <1>12, <1>13,
     <1>14, <1>15, <1>16, <1>17 DEF Next, Loop

(* The state stays typed, the calls match their batch, and turns, retries   *)
(* and messages stay within their limits, whatever fails or is cut off.     *)
THEOREM LoopTypeCorrect == Spec => []TypeOK
<1>1. LoopTypes => TypeOK
  BY DEF LoopTypes
<1> QED
  BY <1>1, TypesInitially, TypesPreserved, PTL DEF Spec

-----------------------------------------------------------------------------
(* The conversation *)

ConversationInv ==
  /\ LoopTypes
  /\ Whole(messages, turn)
  /\ pc = "top" /\ compacted => Len(messages) < Budget
  /\ pc \in {"infer", "backoff"} => Len(messages) < Budget + 2

LEMMA ConversationInitially == Init => ConversationInv
<1> SUFFICES ASSUME Init
             PROVE  ConversationInv
  OBVIOUS
<1>1. LoopTypes
  BY TypesInitially
<1>2. Silent(messages)
  BY ExchangeSilent DEF Init
<1>3. Whole(messages, turn)
  BY <1>2, SilentWhole
<1> QED BY <1>1, <1>3 DEF ConversationInv, Init

(* Compaction without a failing summary leaves room. *)
LEMMA CompactionFits ==
  ASSUME ~SummaryMayFail, NEW t \in Nat, NEW ms, Whole(ms, t), NEW made \in Compaction(ms)
  PROVE  Whole(made, t) /\ Len(made) < Budget
<1> DEFINE cleared == ClearOldToolResults(ms)
<1>1. Whole(cleared, t)
  BY ClearedWhole
<1>2. Len(cleared) \in Nat
  BY <1>1 DEF Whole
<1> HIDE DEF cleared
<1>3. (made = cleared /\ ~OverBudget(cleared)) \/ made = Exchange
  BY DEF Compaction, cleared
<1>4. CASE made = cleared /\ ~OverBudget(cleared)
  BY <1>1, <1>2, <1>4, AgentLoopAssumption DEF OverBudget
<1>5. CASE made = Exchange
  BY <1>5, ExchangeSilent, SilentWhole, AgentLoopAssumption
<1> QED BY <1>3, <1>4, <1>5

LEMMA ConversationPreserved ==
  ASSUME ~SummaryMayFail
  PROVE  ConversationInv /\ [Next]_vars => ConversationInv'
<1> SUFFICES ASSUME ConversationInv, [Next]_vars
             PROVE  ConversationInv'
  OBVIOUS
<1> DEFINE Room == /\ pc = "top" /\ compacted => Len(messages) < Budget
                   /\ pc \in {"infer", "backoff"} => Len(messages) < Budget + 2
<1>0. /\ LoopTypes /\ Whole(messages, turn) /\ Room
      /\ turn \in Nat /\ messages \in Seq(Message) /\ Len(messages) \in Nat
      /\ calls \in Seq(CallState) /\ queue \in Nat /\ Budget \in Nat
  BY AgentLoopAssumption DEF ConversationInv, LoopTypes, TypeOK
<1>1. LoopTypes'
  BY <1>0, TypesPreserved
<1>2. ASSUME Whole(messages', turn'), Room'
      PROVE  ConversationInv'
  BY <1>1, <1>2 DEF ConversationInv
<1>3. CASE UNCHANGED <<messages, turn>> /\ pc' \notin {"top", "infer", "backoff"}
  BY <1>0, <1>2, <1>3
<1>4. CASE UNCHANGED <<messages, turn, compacted, pc>>
  BY <1>0, <1>2, <1>4
<1>5. CASE TurnAborted \/ TurnsExhausted \/ BatchFails \/ Ends \/ AnswersFinally
  BY <1>3, <1>5 DEF TurnAborted, TurnsExhausted, BatchFails, Ends, AnswersFinally, Fails, convVars
<1>6. CASE Compacts
  <2>1. messages' \in Compaction(messages) /\ turn' = turn /\ pc' = "top"
    BY <1>6 DEF Compacts
  <2> QED BY <1>0, <1>2, <2>1, CompactionFits
<1>7. CASE StartsInference
  <2>1. Len(messages) < Budget
    BY <1>0, <1>7, AgentLoopAssumption DEF StartsInference, OverBudget
  <2>2. messages' = messages \/ messages' = messages \o Exchange
    BY <1>7 DEF StartsInference
  <2>3. turn' = turn /\ pc' = "infer"
    BY <1>7 DEF StartsInference
  <2>4. CASE messages' = messages
    BY <1>0, <1>2, <2>1, <2>3, <2>4
  <2>5. CASE messages' = messages \o Exchange
    <3>1. Whole(messages \o Exchange, turn)
      BY <1>0, ExchangeSilent, ThenSilent
    <3>2. Len(messages \o Exchange) = Len(messages) + 2
      <4>1. Exchange \in Seq(Message) /\ Len(Exchange) = 2
        BY ExchangeSilent DEF Silent
      <4>2. Len(messages \o Exchange) = Len(messages) + Len(Exchange)
        BY <1>0, <4>1, ConcatProperties
      <4> QED BY <4>1, <4>2
    <3> QED BY <1>0, <1>2, <2>1, <2>3, <2>5, <3>1, <3>2
  <2> QED BY <2>2, <2>4, <2>5
<1>8. ASSUME NEW retryable \in BOOLEAN, InferenceFails(retryable)
      PROVE  ConversationInv'
  <2>1. pc = "infer" /\ UNCHANGED <<messages, turn>> /\ pc' \in {"backoff", "ending"}
    BY <1>8 DEF InferenceFails, Fails, convVars
  <2> QED BY <1>0, <1>2, <2>1
<1>9. CASE InferenceRetried
  <2>1. pc = "backoff" /\ UNCHANGED <<messages, turn>> /\ pc' = "infer"
    BY <1>9 DEF InferenceRetried, convVars
  <2> QED BY <1>0, <1>2, <2>1
<1>10. ASSUME NEW b \in Batches, AnswersWithTools(b)
       PROVE  ConversationInv'
  BY <1>3, <1>10 DEF AnswersWithTools, convVars
<1>11. CASE StopBlocked
  <2>1. /\ messages' = messages \o <<Plain("assistant"), Plain("user")>>
        /\ turn' = turn + 1 /\ pc' = "top" /\ ~compacted'
    BY <1>11 DEF StopBlocked, NextTurn
  <2>2. Whole(messages', turn)
    BY <1>0, <2>1, ExchangeSilent, ThenSilent
  <2> QED BY <1>0, <1>2, <2>1, <2>2, WholeLater
<1>12. CASE StopAllowed
  <2>1. messages' = messages \o <<Plain("assistant")>> /\ turn' = turn /\ pc' = "ending"
    BY <1>0, <1>12 DEF StopAllowed
  <2>2. Whole(messages', turn)
    BY <1>0, <2>1, ExchangeSilent, ThenSilent
  <2> QED BY <1>2, <2>1, <2>2
<1>13. ASSUME NEW i \in DOMAIN calls, CallStep(i)
       PROVE  ConversationInv'
  BY <1>4, <1>13 DEF CallStep, CallRefused, CallApproved, CallReturns,
                     CallReturnsUnserializable, CallThrows, SetCall
<1>14. CASE CallsStart \/ Send \/ Cancel \/ UNCHANGED vars
  BY <1>4, <1>14 DEF CallsStart, Send, Cancel, convVars, vars
<1>15. CASE BatchAnswered
  <2>1. PICK n \in {0, 1} : messages' = messages \o ToolMessages \o Exchanges(n + queue)
    BY <1>15 DEF BatchAnswered
  <2>2. turn' = turn + 1 /\ pc' = "top" /\ ~compacted'
    BY <1>15 DEF BatchAnswered, NextTurn
  <2>3. turn + 1 \in Nat /\ turn <= turn + 1 /\ n + queue \in Nat
    BY <1>0
  <2>4. /\ Whole(ToolMessages, turn + 1)
        /\ \A i, k : CallAt(ToolMessages, i, k) => ToolMessages[i].calls[k][1] >= turn
    BY <1>0, ToolMessagesWhole
  <2>5. Whole(messages \o ToolMessages, turn + 1)
    BY <1>0, <2>3, <2>4, JoinedWhole
  <2>6. Whole(messages', turn + 1)
    BY <2>1, <2>3, <2>5, ExchangeSilent, ThenSilent
  <2> QED BY <1>2, <2>2, <2>6
<1> QED
  BY <1>5, <1>6, <1>7, <1>8, <1>9, <1>10, <1>11, <1>12, <1>13, <1>14, <1>15 DEF Next, Loop

LEMMA ConversationInvSound == ConversationInv => ConversationSound
<1> SUFFICES ASSUME ConversationInv
             PROVE  ConversationSound
  OBVIOUS
<1>0. TypeOK /\ messages \in Seq(Message) /\ Paired(messages)
  BY DEF ConversationInv, LoopTypes, Whole
<1>1. ASSUME NEW i \in DOMAIN messages
      PROVE  Answered(i)
  <2> SUFFICES ASSUME NEW k \in DOMAIN messages[i].calls
               PROVE  /\ i + k \in DOMAIN messages
                      /\ messages[i + k].answers = <<messages[i].calls[k]>>
    BY DEF Answered
  <2>1. CallAt(messages, i, k)
    BY DEF CallAt
  <2> QED BY <1>0, <2>1, AnswerTyped DEF Paired
<1>2. ASSUME NEW i \in DOMAIN messages, messages[i].role = "tool"
      PROVE  HasCall(i)
  <2>1. PICK j, k : CallAt(messages, j, k) /\ i = j + k
    BY <1>0, <1>2 DEF Paired
  <2>2. messages[i].answers = <<messages[j].calls[k]>>
    BY <1>0, <2>1, AnswerTyped DEF Paired
  <2>3. j \in 1..Len(messages) /\ k \in Nat /\ k >= 1 /\ k \in DOMAIN messages[j].calls
    BY <1>0, <2>1, CallTyped DEF CallAt
  <2>4. j \in 1..(i - 1)
    BY <2>1, <2>3
  <2> QED BY <2>1, <2>2, <2>3, <2>4 DEF HasCall
<1>3. ToolCallsAnswered
  BY <1>1, <1>2 DEF ToolCallsAnswered
<1>4. ContextWithinBudget
  BY DEF ConversationInv, ContextWithinBudget
<1> QED BY <1>0, <1>3, <1>4 DEF ConversationSound

(* Whatever is refused, fails, runs in parallel, is retried, reminded or    *)
(* compacted, every conversation the model is sent pairs calls with answers *)
(* and fits, as long as the summary model answers.                          *)
THEOREM ConversationsSound ==
  ASSUME ~SummaryMayFail
  PROVE  Spec => []ConversationSound
<1>1. ConversationInv /\ [Next]_vars => ConversationInv'
  BY ConversationPreserved
<1> QED
  BY <1>1, ConversationInitially, ConversationInvSound, PTL DEF Spec
=============================================================================
