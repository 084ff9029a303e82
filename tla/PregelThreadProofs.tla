------------------------- MODULE PregelThreadProofs -------------------------
(***************************************************************************)
(* Proofs about PregelThread for every graph, any number of runs, updates  *)
(* and supersteps, calls that overlap or not, and a crash at any time.     *)
(*                                                                         *)
(* Counts: an update in a checkpoint comes from a run's state, and what a  *)
(* run's state holds plus what waits in its results never exceeds what its *)
(* nodes returned.  Two more places hold a state between two steps, the    *)
(* results of a run that has not begun (none) and the checkpoint that      *)
(* updateState() has read.                                                 *)
(*                                                                         *)
(* Answers: a session that a live or returned run answers is resumed (or   *)
(* has left the store), so resume() refuses it.  To show that recording a  *)
(* session never makes an answered one pending again, the invariant        *)
(* follows the claim of the first interrupt up to that recording.          *)
(***************************************************************************)
EXTENDS PregelThread, FiniteSetTheorems, SequenceTheorems, TLAPS

(* A non-empty set of supersteps has a last one. *)
LEMMA MaxExists ==
  ASSUME NEW n \in Nat, NEW T, T \subseteq 0..n, T # {}
  PROVE  \E k \in T : \A j \in T : j <= k
<1> DEFINE Family == {k..n : k \in T}
<1>1. Family \subseteq SUBSET (0..n) /\ Family # {}
  <2>1. ASSUME NEW k \in T PROVE k..n \subseteq 0..n
    OBVIOUS
  <2> QED BY <2>1
<1>2. IsWellFoundedOn(StrictSubsetOrdering(0..n), SUBSET (0..n))
  <2>1. IsFiniteSet(0..n)
    BY FS_Interval
  <2>2. FiniteSubsetsOf(0..n) = SUBSET (0..n)
    BY <2>1, FS_FiniteSubsetsOfFinite
  <2>3. IsWellFoundedOn(StrictSubsetOrdering(0..n), FiniteSubsetsOf(0..n))
    BY FS_StrictSubsetOrderingWellFounded
  <2> QED BY <2>2, <2>3
<1>3. PICK F \in Family : \A E \in Family : ~(<<E, F>> \in StrictSubsetOrdering(0..n))
  <2> HIDE DEF Family
  <2> QED BY <1>1, <1>2, WFMin
<1>4. PICK k \in T : F = k..n
  BY <1>3
<1>5. ASSUME NEW j \in T PROVE j <= k
  <2>1. j..n \in Family
    OBVIOUS
  <2>2. SUFFICES ASSUME k < j PROVE FALSE
    OBVIOUS
  <2>3. j..n \subseteq k..n /\ k \in k..n /\ k \notin j..n
    BY <2>2
  <2>4. <<j..n, k..n>> \in StrictSubsetOrdering(0..n)
    BY <2>1, <2>3, <1>1, <1>4 DEF StrictSubsetOrdering
  <2> QED BY <2>1, <2>4, <1>3, <1>4
<1> QED BY <1>5

(* A non-empty set of natural numbers has a first one: a property of all of *)
(* them is shown by contradiction at the first that does not have it.       *)
LEMMA LeastExists ==
  ASSUME NEW S, S \subseteq Nat, S # {}
  PROVE  \E k \in S : \A j \in S : k <= j
<1>1. PICK n \in S : TRUE
  OBVIOUS
<1> DEFINE T == {i \in 0..n : n - i \in S}
<1>2. n \in Nat /\ T \subseteq 0..n /\ 0 \in T
  OBVIOUS
<1>3. PICK i \in T : \A j \in T : j <= i
  <2> HIDE DEF T
  <2> QED BY <1>2, MaxExists
<1>4. n - i \in S /\ i \in 0..n
  BY <1>3
<1>5. ASSUME NEW j \in S PROVE n - i <= j
  <2>1. CASE j > n
    BY <1>2, <1>4, <2>1
  <2>2. CASE ~(j > n)
    <3>1. n - j \in 0..n /\ n - (n - j) = j
      BY <1>2, <2>2
    <3>2. n - j \in T
      BY <3>1
    <3>3. n - j <= i
      BY <1>3, <3>2
    <3> QED BY <1>2, <1>4, <3>3
  <2> QED BY <2>1, <2>2
<1> QED BY <1>4, <1>5

(* f holds the concatenations of the first i sequences of ss, up to m.      *)
Unfolds(ss, m, f) == f = [i \in 1..m |-> IF i = 1 THEN ss[i] ELSE f[i-1] \o ss[i]]

LEMMA UnfoldsAt ==
  ASSUME NEW ss, NEW m \in Nat, NEW f, Unfolds(ss, m, f)
  PROVE  \A i \in 1..m : f[i] = IF i = 1 THEN ss[i] ELSE f[i-1] \o ss[i]
BY DEF Unfolds

LEMMA UnfoldsFrom ==
  ASSUME NEW ss, NEW m \in Nat, NEW f, DOMAIN f = 1..m, f = [i \in 1..m |-> f[i]],
         \A i \in 1..m : f[i] = IF i = 1 THEN ss[i] ELSE f[i-1] \o ss[i]
  PROVE  Unfolds(ss, m, f)
<1> DEFINE h == [i \in 1..m |-> IF i = 1 THEN ss[i] ELSE f[i-1] \o ss[i]]
<1>1. \A i \in 1..m : f[i] = h[i]
  OBVIOUS
<1>2. DOMAIN h = 1..m /\ h = [i \in 1..m |-> h[i]]
  OBVIOUS
<1>3. f = h
  <2> HIDE DEF h
  <2> QED BY <1>1, <1>2
<1> QED BY <1>3 DEF Unfolds

LEMMA UnfoldsNext ==
  ASSUME NEW ss, NEW m \in Nat, NEW f, Unfolds(ss, m, f)
  PROVE  \E g : Unfolds(ss, m + 1, g)
<1> DEFINE last == IF m + 1 = 1 THEN ss[m + 1] ELSE f[m] \o ss[m + 1]
           g == [i \in 1..(m + 1) |-> IF i <= m THEN f[i] ELSE last]
<1>1. \A i \in 1..m : g[i] = f[i]
  OBVIOUS
<1>2. g[m + 1] = last
  OBVIOUS
<1>3. DOMAIN g = 1..(m + 1) /\ g = [i \in 1..(m + 1) |-> g[i]]
  OBVIOUS
<1> HIDE DEF g
<1>4. ASSUME NEW i \in 1..(m + 1) PROVE g[i] = IF i = 1 THEN ss[i] ELSE g[i-1] \o ss[i]
  <2>1. CASE i = m + 1
    BY <1>1, <1>2, <2>1
  <2>2. CASE i # m + 1
    <3>1. i \in 1..m /\ (i # 1 => i - 1 \in 1..m)
      BY <2>2
    <3>2. g[i] = f[i] /\ (i # 1 => g[i-1] = f[i-1])
      BY <1>1, <3>1
    <3>3. f[i] = IF i = 1 THEN ss[i] ELSE f[i-1] \o ss[i]
      BY <3>1, UnfoldsAt
    <3> QED BY <3>2, <3>3
  <2> QED BY <2>1, <2>2
<1>5. Unfolds(ss, m + 1, g)
  <2>1. m + 1 \in Nat
    OBVIOUS
  <2> QED BY <1>3, <1>4, <2>1, UnfoldsFrom
<1> QED BY <1>5

LEMMA UnfoldsExists ==
  ASSUME NEW ss, NEW n \in Nat
  PROVE  \E f : Unfolds(ss, n, f)
<1> DEFINE Missing == {m \in Nat : ~\E f : Unfolds(ss, m, f)}
<1>1. SUFFICES ASSUME n \in Missing PROVE FALSE
  OBVIOUS
<1>2. PICK m \in Missing : \A j \in Missing : m <= j
  <2>1. Missing \subseteq Nat /\ Missing # {}
    BY <1>1
  <2> HIDE DEF Missing
  <2> QED BY <2>1, LeastExists
<1>3. m # 0
  <2>1. Unfolds(ss, 0, [i \in 1..0 |-> <<>>])
    BY DEF Unfolds
  <2> QED BY <1>2, <2>1
<1>4. m - 1 \in Nat /\ ~(m <= m - 1)
  BY <1>2, <1>3
<1>5. m - 1 \notin Missing
  <2> HIDE DEF Missing
  <2> QED BY <1>2, <1>4
<1>6. PICK f : Unfolds(ss, m - 1, f)
  BY <1>4, <1>5
<1>7. \E g : Unfolds(ss, (m - 1) + 1, g)
  BY <1>4, <1>6, UnfoldsNext
<1> QED BY <1>2, <1>4, <1>7

LEMMA UnfoldsTyped ==
  ASSUME NEW S, NEW ss \in Seq(Seq(S)), NEW f, Unfolds(ss, Len(ss), f), NEW n \in 1..Len(ss)
  PROVE  f[n] \in Seq(S)
<1> DEFINE Bad == {m \in 1..Len(ss) : f[m] \notin Seq(S)}
<1>0. Len(ss) \in Nat /\ \A i \in 1..Len(ss) : ss[i] \in Seq(S)
  OBVIOUS
<1>1. SUFFICES ASSUME n \in Bad PROVE FALSE
  OBVIOUS
<1>2. PICK m \in Bad : \A j \in Bad : m <= j
  <2>1. Bad \subseteq Nat
    BY <1>0
  <2>2. Bad # {}
    BY <1>1
  <2> HIDE DEF Bad
  <2> QED BY <2>1, <2>2, LeastExists
<1>3. f[m] = IF m = 1 THEN ss[m] ELSE f[m-1] \o ss[m]
  BY <1>0, <1>2, UnfoldsAt
<1>4. m # 1 => f[m-1] \in Seq(S)
  <2>1. m # 1 => m - 1 \in 1..Len(ss) /\ ~(m <= m - 1)
    BY <1>0, <1>2
  <2> QED BY <1>2, <2>1
<1>5. m \in 1..Len(ss) /\ ss[m] \in Seq(S)
  BY <1>0, <1>2
<1>6. f[m] \in Seq(S)
  <2>1. CASE m = 1
    BY <1>3, <1>5, <2>1
  <2>2. CASE m # 1
    <3>1. f[m] = f[m-1] \o ss[m]
      BY <1>3, <2>2
    <3> HIDE DEF Bad
    <3> QED BY <1>4, <1>5, <2>2, <3>1
  <2> QED BY <2>1, <2>2
<1> QED BY <1>2, <1>6

LEMMA FlattenTyped ==
  ASSUME NEW S, NEW ss \in Seq(Seq(S))
  PROVE  FlattenSeq(ss) \in Seq(S)
<1>1. CASE Len(ss) = 0
  BY <1>1 DEF FlattenSeq
<1>2. CASE Len(ss) # 0
  <2> DEFINE h == CHOOSE f : Unfolds(ss, Len(ss), f)
  <2>1. Unfolds(ss, Len(ss), h)
    <3>0. Len(ss) \in Nat
      OBVIOUS
    <3>1. \E f : Unfolds(ss, Len(ss), f)
      BY <3>0, UnfoldsExists
    <3> QED BY <3>1
  <2>2. FlattenSeq(ss) = h[Len(ss)]
    BY <1>2 DEF FlattenSeq, Unfolds
  <2>3. Len(ss) \in 1..Len(ss)
    BY <1>2
  <2> HIDE DEF h
  <2> QED BY <2>1, <2>2, <2>3, UnfoldsTyped
<1> QED BY <1>1, <1>2

(* The elements of a sequence at some of its positions, in their order: the *)
(* rank of a position is how many of the chosen are at or before it.        *)
Rank(P, m) == Cardinality({j \in P : j <= m})

LEMMA RankGrows ==
  ASSUME NEW n \in Nat, NEW P \in SUBSET (1..n)
  PROVE  /\ IsFiniteSet(P) /\ Cardinality(P) \in Nat
         /\ \A m \in 0..n : Rank(P, m) \in Nat
         /\ Rank(P, 0) = 0 /\ Rank(P, n) = Cardinality(P)
         /\ \A m \in 1..n : Rank(P, m) = IF m \in P THEN Rank(P, m - 1) + 1 ELSE Rank(P, m - 1)
<1>0. \A j \in P : j \in 1..n
  OBVIOUS
<1>1. IsFiniteSet(P)
  <2>1. IsFiniteSet(1..n)
    BY FS_Interval
  <2> QED BY <2>1, FS_Subset
<1>2. ASSUME NEW m PROVE IsFiniteSet({j \in P : j <= m})
  <2>1. {j \in P : j <= m} \subseteq P
    OBVIOUS
  <2> QED BY <1>1, <2>1, FS_Subset
<1>3. {j \in P : j <= 0} = {}
  <2>1. \A j \in P : ~(j <= 0)
    BY <1>0
  <2> QED BY <2>1
<1>3a. {j \in P : j <= n} = P
  <2>1. \A j \in P : j <= n
    BY <1>0
  <2> QED BY <2>1
<1>4. ASSUME NEW m \in 1..n
      PROVE  Rank(P, m) = IF m \in P THEN Rank(P, m - 1) + 1 ELSE Rank(P, m - 1)
  <2> DEFINE before == {j \in P : j <= m - 1}
  <2>1. \A j \in P : j <= m <=> j <= m - 1 \/ j = m
    BY <1>0
  <2>2. CASE m \in P
    <3>0. m <= m /\ ~(m <= m - 1)
      OBVIOUS
    <3>1. {j \in P : j <= m} = before \cup {m} /\ m \notin before
      BY <2>1, <2>2, <3>0
    <3>2. IsFiniteSet(before)
      BY <1>2
    <3> HIDE DEF before
    <3>3. Cardinality({j \in P : j <= m}) = Cardinality(before) + 1
      BY <3>1, <3>2, FS_AddElement
    <3> QED BY <2>2, <3>3 DEF Rank, before
  <2>3. CASE m \notin P
    <3>1. {j \in P : j <= m} = before
      BY <2>1, <2>3
    <3> QED BY <2>3, <3>1 DEF Rank
  <2> QED BY <2>2, <2>3
<1>5. Cardinality(P) \in Nat /\ \A m \in 0..n : Rank(P, m) \in Nat
  BY <1>1, <1>2, FS_CardinalityType DEF Rank
<1>6. Rank(P, 0) = 0
  BY <1>3, FS_EmptySet DEF Rank
<1>7. Rank(P, n) = Cardinality(P)
  BY <1>3a DEF Rank
<1> QED BY <1>1, <1>4, <1>5, <1>6, <1>7

LEMMA RankReached ==
  ASSUME NEW n \in Nat, NEW P \in SUBSET (1..n), NEW i \in 1..Cardinality(P)
  PROVE  \E k \in P : Rank(P, k) = i
<1> DEFINE Behind == {m \in 0..n : i <= Rank(P, m)}
<1>0. /\ Cardinality(P) \in Nat /\ \A m \in 0..n : Rank(P, m) \in Nat
      /\ Rank(P, 0) = 0 /\ Rank(P, n) = Cardinality(P)
  BY RankGrows
<1>0a. \A m \in 1..n : Rank(P, m) = IF m \in P THEN Rank(P, m - 1) + 1 ELSE Rank(P, m - 1)
  BY RankGrows
<1>0b. i \in Nat /\ 1 <= i /\ i <= Cardinality(P)
  BY <1>0
<1>1. PICK m \in Behind : \A j \in Behind : m <= j
  <2>1. n \in Behind
    BY <1>0, <1>0b
  <2>2. Behind \subseteq Nat
    OBVIOUS
  <2> HIDE DEF Behind
  <2> QED BY <2>1, <2>2, LeastExists
<1>2. m \in 1..n /\ i <= Rank(P, m)
  <2>1. m \in 0..n /\ i <= Rank(P, m)
    BY <1>1
  <2>2. m # 0
    BY <1>0, <1>0b, <2>1
  <2> QED BY <2>1, <2>2
<1>3. m - 1 \in 0..n /\ ~(i <= Rank(P, m - 1))
  <2>1. m - 1 \in 0..n /\ ~(m <= m - 1)
    BY <1>2
  <2>2. m - 1 \notin Behind
    <3> HIDE DEF Behind
    <3> QED BY <1>1, <2>1
  <2> QED BY <2>1, <2>2
<1>4. Rank(P, m) \in Nat /\ Rank(P, m - 1) \in Nat
  <2>1. m \in 0..n
    BY <1>2
  <2> HIDE DEF Behind
  <2> QED BY <1>0, <1>3, <2>1
<1>5. Rank(P, m) = IF m \in P THEN Rank(P, m - 1) + 1 ELSE Rank(P, m - 1)
  BY <1>0a, <1>2
<1> HIDE DEF Behind
<1>6. m \in P /\ Rank(P, m) = i
  BY <1>0b, <1>2, <1>3, <1>4, <1>5
<1> QED BY <1>6

LEMMA ElementsTyped ==
  ASSUME NEW n \in Nat, NEW P \in SUBSET (1..n), NEW s, NEW S, \A k \in P : s[k] \in S
  PROVE  ElementsAt(s, P) \in Seq(S)
<1> DEFINE at(i) == CHOOSE k \in P : Cardinality({j \in P : j <= k}) = i
           all == [i \in 1..Cardinality(P) |-> s[at(i)]]
<1>1. Cardinality(P) \in Nat
  BY RankGrows
<1>2. ASSUME NEW i \in 1..Cardinality(P)
      PROVE  at(i) \in P
  <2>1. \E k \in P : Rank(P, k) = i
    BY <1>2, RankReached
  <2>2. (CHOOSE k \in P : Rank(P, k) = i) \in P
    BY <2>1
  <2> QED BY <2>2 DEF Rank
<1>3. ElementsAt(s, P) = all
  BY DEF ElementsAt
<1>4. all \in Seq(S)
  <2> HIDE DEF at
  <2>1. \A i \in 1..Cardinality(P) : s[at(i)] \in S
    BY <1>2
  <2> QED BY <1>1, <2>1
<1> QED BY <1>3, <1>4

-----------------------------------------------------------------------------
(* Counts *)

(* What a checkpoint, or a state, may hold. *)
Earned(st) == st \in State /\ \A n \in Nodes : st.done[n] <= ran[n]

CountTypes ==
  /\ ran \in Bag
  /\ fresh \in [Runs -> Bag]
  /\ state \in [Runs -> State]
  /\ history = [k \in Steps |-> history[k]]
  /\ pc \in [Runs -> {"idle", "begin", "sends", "nodes", "done"}]
  /\ upc = [u \in Updates |-> upc[u]]
  /\ usnap = [u \in Updates |-> usnap[u]]

(* A run's state and its waiting results were all returned by nodes. *)
ResultsEarned ==
  \A r \in Runs, n \in Nodes : state[r].done[n] + fresh[r][n] <= ran[n]

NothingFreshBefore ==
  \A r \in Runs : pc[r] = "idle" => fresh[r] = NoResults

CheckpointsEarned == \A k \in Saved : Earned(history[k].state)

(* A checkpoint between the two halves of updateState(). *)
ReadsEarned == \A u \in Updates : upc[u] = "reading" => Earned(usnap[u].state)

CountInv ==
  /\ CountTypes
  /\ ResultsEarned
  /\ NothingFreshBefore
  /\ CheckpointsEarned
  /\ ReadsEarned

LEMMA LatestEarned ==
  ASSUME CountInv, Latest # NoCheckpoint
  PROVE  Earned(Latest.state)
<1>1. Saved # {}
  BY DEF Latest
<1>2. Saved \subseteq 0..RecursionLimit /\ RecursionLimit \in Nat
  BY PregelThreadAssumption DEF Saved, Steps
<1>3. \E k \in Saved : \A j \in Saved : j <= k
  BY <1>1, <1>2, MaxExists
<1>4. PICK k \in Saved : Latest = history[k]
  BY <1>1, <1>3 DEF Latest
<1> QED BY <1>4 DEF CountInv, CheckpointsEarned

(* A run's own state, and its state with the results applied, are earned. *)
LEMMA RunEarned ==
  ASSUME CountInv, NEW r \in Runs
  PROVE  /\ Earned(state[r])
         /\ Earned(Applied(r))
         /\ \A n \in Nodes : Applied(r).done[n] = state[r].done[n] + fresh[r][n]
<1>1. state[r] \in State /\ fresh[r] \in Bag /\ ran \in Bag
  BY DEF CountInv, CountTypes
<1>2. state[r].done \in [Nodes -> Nat] /\ fresh[r] \in [Nodes -> Nat] /\ ran \in [Nodes -> Nat]
  BY <1>1 DEF State, Bag
<1>3. Applied(r) = [done |-> [n \in Nodes |-> state[r].done[n] + fresh[r][n]],
                    patches |-> state[r].patches]
  BY <1>1 DEF Applied, State
<1>4. Applied(r) \in State
  BY <1>1, <1>2, <1>3 DEF State, Bag
<1>5. ASSUME NEW n \in Nodes
      PROVE  /\ Applied(r).done[n] = state[r].done[n] + fresh[r][n]
             /\ state[r].done[n] <= ran[n]
             /\ Applied(r).done[n] <= ran[n]
  <2>1. Applied(r).done[n] = state[r].done[n] + fresh[r][n]
    BY <1>3
  <2>2. state[r].done[n] \in Nat /\ fresh[r][n] \in Nat /\ ran[n] \in Nat
    BY <1>2
  <2>3. state[r].done[n] + fresh[r][n] <= ran[n]
    BY DEF CountInv, ResultsEarned
  <2> QED BY <2>1, <2>2, <2>3
<1> QED BY <1>1, <1>4, <1>5 DEF Earned

(* Saving an earned state keeps the history earned. *)
LEMMA PutEarned ==
  ASSUME CountInv, ran' = ran, NEW k, NEW st, NEW next, NEW sends,
         Put(k, st, next, sends), Earned(st)
  PROVE  history' = [j \in Steps |-> history'[j]] /\ CheckpointsEarned'
<1>1. DOMAIN history = Steps
  BY DEF CountInv, CountTypes
<1>2. history' = [j \in Steps |-> history'[j]]
  BY <1>1 DEF Put
<1>3. ASSUME NEW j \in Steps, history'[j] # NoCheckpoint PROVE Earned(history'[j].state)
  <2>1. CASE j = k
    BY <2>1, <1>1 DEF Put
  <2>2. CASE j # k
    BY <2>2, <1>1, <1>3 DEF Put, CountInv, CheckpointsEarned, Saved
  <2> QED BY <2>1, <2>2
<1> QED BY <1>2, <1>3 DEF CheckpointsEarned, Saved, Earned

(* Steps that move no state and no result. *)
LEMMA CountQuiet ==
  ASSUME CountInv, UNCHANGED <<history, state, fresh, ran, usnap>>,
         pc' \in [Runs -> {"idle", "begin", "sends", "nodes", "done"}],
         \A r \in Runs : pc'[r] = "idle" => pc[r] = "idle",
         upc' = [u \in Updates |-> upc'[u]],
         \A u \in Updates : upc'[u] = "reading" => upc[u] = "reading"
  PROVE  CountInv'
<1>1. CountTypes'
  BY DEF CountInv, CountTypes
<1>2. ResultsEarned' /\ NothingFreshBefore' /\ CheckpointsEarned' /\ ReadsEarned'
  BY DEF CountInv, CountTypes, ResultsEarned, NothingFreshBefore, CheckpointsEarned, Saved,
         ReadsEarned, Earned
<1> QED BY <1>1, <1>2 DEF CountInv

LEMMA LoadCounts ==
  ASSUME CountInv, NEW r \in Runs, pc[r] = "idle", Load(r)
  PROVE  CountInv'
<1>1. /\ UNCHANGED <<history, fresh, ran, upc, usnap>>
      /\ pc' = [pc EXCEPT ![r] = "begin"]
  BY DEF Load
<1>2. state' = state \/ (Latest # NoCheckpoint /\ state' = [state EXCEPT ![r] = Latest.state])
  BY DEF Load
<1>3. CASE state' = state
  BY <1>1, <1>3, CountQuiet DEF CountInv, CountTypes
<1>4. CASE Latest # NoCheckpoint /\ state' = [state EXCEPT ![r] = Latest.state]
  <2>1. Earned(Latest.state)
    BY <1>4, LatestEarned
  <2>2. CountTypes'
    BY <1>1, <1>4, <2>1 DEF CountInv, CountTypes, Earned
  <2>3. ASSUME NEW q \in Runs, NEW n \in Nodes
        PROVE  state'[q].done[n] + fresh'[q][n] <= ran'[n]
    <3>1. CASE q = r
      <4>1. fresh'[q][n] = 0
        BY <1>1, <3>1 DEF CountInv, NothingFreshBefore, NoResults
      <4>2. state'[q] = Latest.state
        BY <1>4, <3>1 DEF CountInv, CountTypes
      <4>3. Latest.state.done[n] \in Nat /\ Latest.state.done[n] <= ran[n]
        BY <2>1 DEF Earned, State, Bag
      <4> QED BY <4>1, <4>2, <4>3, <1>1
    <3>2. CASE q # r
      BY <1>1, <1>4, <3>2 DEF CountInv, CountTypes, ResultsEarned
    <3> QED BY <3>1, <3>2
  <2>4. NothingFreshBefore' /\ CheckpointsEarned' /\ ReadsEarned'
    BY <1>1 DEF CountInv, CountTypes, NothingFreshBefore, CheckpointsEarned, Saved,
                ReadsEarned, Earned
  <2> QED BY <2>2, <2>3, <2>4 DEF CountInv, ResultsEarned
<1> QED BY <1>2, <1>3, <1>4

(* A run's state is replaced by, or stays beside, its applied results. *)
LEMMA SettledCounts ==
  ASSUME CountInv, NEW r \in Runs, ResultsTaken(r), ran' = ran,
         state' = state \/ state' = [state EXCEPT ![r] = Applied(r)]
  PROVE  /\ ResultsEarned'
         /\ fresh' \in [Runs -> Bag] /\ state' \in [Runs -> State]
         /\ \A q \in Runs : fresh[q] = NoResults => fresh'[q] = NoResults
<1>1. fresh' = [fresh EXCEPT ![r] = NoResults] /\ NoResults \in Bag
  BY DEF ResultsTaken, NoResults, Bag
<1>2. fresh' \in [Runs -> Bag] /\ state' \in [Runs -> State]
  BY <1>1, RunEarned DEF CountInv, CountTypes, Earned
<1>3. \A q \in Runs : fresh[q] = NoResults => fresh'[q] = NoResults
  BY <1>1 DEF CountInv, CountTypes
<1>4. ASSUME NEW q \in Runs, NEW n \in Nodes
      PROVE  state'[q].done[n] + fresh'[q][n] <= ran'[n]
  <2>1. CASE q = r
    <3>1. fresh'[q][n] = 0
      BY <1>1, <2>1 DEF CountInv, CountTypes, NoResults
    <3>2. Earned(state'[q])
      BY <2>1, RunEarned DEF CountInv, CountTypes, Earned
    <3>3. state'[q].done[n] \in Nat /\ state'[q].done[n] <= ran[n]
      BY <3>2 DEF Earned, State, Bag
    <3> QED BY <3>1, <3>3
  <2>2. CASE q # r
    BY <1>1, <2>2 DEF CountInv, CountTypes, ResultsEarned
  <2> QED BY <2>1, <2>2
<1> QED BY <1>2, <1>3, <1>4 DEF ResultsEarned

LEMMA Bump ==
  ASSUME NEW S, NEW f \in [S -> Nat], NEW m
  PROVE  /\ [f EXCEPT ![m] = @ + 1] \in [S -> Nat]
         /\ \A n \in S : [f EXCEPT ![m] = @ + 1][n] = IF n = m THEN f[n] + 1 ELSE f[n]
<1> DEFINE g == [f EXCEPT ![m] = @ + 1]
<1>1. g = [n \in S |-> IF n = m THEN f[m] + 1 ELSE f[n]]
  OBVIOUS
<1>2. \A n \in S : g[n] = IF n = m THEN f[n] + 1 ELSE f[n]
  BY <1>1
<1>3. \A n \in S : g[n] \in Nat
  BY <1>2
<1> QED BY <1>1, <1>2, <1>3

LEMMA TaskReturnsCounts ==
  ASSUME CountInv, NEW r \in Runs, NEW i, Live(r), TaskReturns(r, i)
  PROVE  CountInv'
<1> DEFINE m == NodeOf(r, i)
<1>1. /\ UNCHANGED <<history, state, pc, upc, usnap>>
      /\ fresh' = [fresh EXCEPT ![r][m] = @ + 1]
      /\ ran' = [ran EXCEPT ![m] = @ + 1]
  BY DEF TaskReturns, endVars
<1>2. ran \in [Nodes -> Nat] /\ fresh \in [Runs -> [Nodes -> Nat]]
  BY DEF CountInv, CountTypes, Bag
<1>3. /\ ran' \in [Nodes -> Nat]
      /\ \A n \in Nodes : ran'[n] = IF n = m THEN ran[n] + 1 ELSE ran[n]
  BY <1>1, <1>2, Bump
<1>4. /\ fresh'[r] \in [Nodes -> Nat]
      /\ \A n \in Nodes : fresh'[r][n] = IF n = m THEN fresh[r][n] + 1 ELSE fresh[r][n]
  <2>1. fresh[r] \in [Nodes -> Nat]
    BY <1>2
  <2> DEFINE g == [fresh[r] EXCEPT ![m] = @ + 1]
  <2>2. g \in [Nodes -> Nat] /\ \A n \in Nodes : g[n] = IF n = m THEN fresh[r][n] + 1
                                                     ELSE fresh[r][n]
    BY <2>1, Bump
  <2>3. fresh'[r] = g
    BY <1>1, <1>2
  <2> QED BY <2>2, <2>3
<1>5. DOMAIN fresh' = Runs /\ \A q \in Runs : q # r => fresh'[q] = fresh[q]
  BY <1>1, <1>2
<1>6. fresh' \in [Runs -> [Nodes -> Nat]]
  <2>1. fresh' = [q \in Runs |-> fresh'[q]]
    BY <1>1, <1>2
  <2> QED BY <2>1, <1>2, <1>4, <1>5
<1>7. CountTypes'
  BY <1>1, <1>6, <1>3 DEF CountInv, CountTypes, Bag
<1>8. \A n \in Nodes : ran[n] \in Nat /\ ran'[n] \in Nat /\ ran[n] <= ran'[n]
  BY <1>2, <1>3
<1>9. ASSUME NEW q \in Runs, NEW n \in Nodes
      PROVE  state'[q].done[n] + fresh'[q][n] <= ran'[n]
  <2>1. /\ state[q].done[n] \in Nat /\ fresh[q][n] \in Nat
        /\ state[q].done[n] + fresh[q][n] <= ran[n]
    BY <1>2 DEF CountInv, CountTypes, State, Bag, ResultsEarned
  <2>2. CASE q = r /\ n = m
    <3>1. ran'[n] = ran[n] + 1 /\ fresh'[q][n] = fresh[q][n] + 1
      BY <2>2, <1>3, <1>4
    <3> QED BY <3>1, <2>1, <1>1, <1>2
  <2>3. CASE ~(q = r /\ n = m)
    <3>1. fresh'[q][n] = fresh[q][n]
      BY <2>3, <1>4, <1>5
    <3> QED BY <3>1, <2>1, <1>1, <1>2, <1>8
  <2> QED BY <2>2, <2>3
<1>10. NothingFreshBefore'
  BY <1>1, <1>2 DEF CountInv, NothingFreshBefore, Live
<1>11. CheckpointsEarned'
  <2>1. ASSUME NEW k \in Saved PROVE Earned(history[k].state)'
    <3>1. Earned(history[k].state)
      BY DEF CountInv, CheckpointsEarned
    <3>2. \A n \in Nodes : history[k].state.done[n] \in Nat
      BY <3>1 DEF Earned, State, Bag
    <3> QED BY <3>1, <3>2, <1>1, <1>8 DEF Earned
  <2> QED BY <2>1, <1>1 DEF CheckpointsEarned, Saved
<1>12. ReadsEarned'
  <2>1. ASSUME NEW u \in Updates, upc[u] = "reading" PROVE Earned(usnap[u].state)'
    <3>1. Earned(usnap[u].state)
      BY <2>1 DEF CountInv, ReadsEarned
    <3>2. \A n \in Nodes : usnap[u].state.done[n] \in Nat
      BY <3>1 DEF Earned, State, Bag
    <3> QED BY <3>1, <3>2, <1>1, <1>8 DEF Earned
  <2> QED BY <2>1, <1>1 DEF ReadsEarned
<1> QED BY <1>7, <1>9, <1>10, <1>11, <1>12 DEF CountInv, ResultsEarned

LEMMA NodeAsksCounts ==
  ASSUME CountInv, NEW r \in Runs, NEW i, NodeAsks(r, i)
  PROVE  CountInv'
<1>1. UNCHANGED <<state, fresh, pc, upc, usnap, ran>>
  BY DEF NodeAsks, endVars
<1>2. CASE history' = history
  BY <1>1, <1>2, CountQuiet DEF CountInv, CountTypes
<1>3. CASE Put(step[r], state[r], <<NodeOf(r, i)>>, <<>>)
  <2>1. history' = [j \in Steps |-> history'[j]] /\ CheckpointsEarned'
    BY <1>1, <1>3, RunEarned, PutEarned
  <2>2. CountTypes' /\ ResultsEarned' /\ NothingFreshBefore' /\ ReadsEarned'
    BY <1>1, <2>1 DEF CountInv, CountTypes, ResultsEarned, NothingFreshBefore,
                      ReadsEarned, Earned
  <2> QED BY <2>1, <2>2 DEF CountInv
<1> QED BY <1>2, <1>3 DEF NodeAsks

LEMMA SendsSettledCounts ==
  ASSUME CountInv, NEW r \in Runs, SendsSettled(r)
  PROVE  CountInv'
<1>1. /\ UNCHANGED <<history, ran, upc, usnap>>
      /\ state' = [state EXCEPT ![r] = Applied(r)]
      /\ ResultsTaken(r)
      /\ pc' = [pc EXCEPT ![r] = "nodes"]
  BY DEF SendsSettled, StartNodes
<1>2. /\ ResultsEarned'
      /\ fresh' \in [Runs -> Bag] /\ state' \in [Runs -> State]
      /\ \A q \in Runs : fresh[q] = NoResults => fresh'[q] = NoResults
  BY <1>1, SettledCounts
<1>3. CountTypes'
  BY <1>1, <1>2 DEF CountInv, CountTypes
<1>4. NothingFreshBefore' /\ CheckpointsEarned' /\ ReadsEarned'
  BY <1>1, <1>2 DEF CountInv, CountTypes, NothingFreshBefore, CheckpointsEarned, Saved,
                    ReadsEarned, Earned
<1> QED BY <1>2, <1>3, <1>4 DEF CountInv

LEMMA NodesSettledCounts ==
  ASSUME CountInv, NEW r \in Runs, NodesSettled(r)
  PROVE  CountInv'
<1>1. UNCHANGED <<ran, upc, usnap>> /\ ResultsTaken(r) /\ pc[r] # "idle"
  BY DEF NodesSettled
<1>2. PICK route : Pauses(r, route) \/ GoesOn(r, route)
  BY DEF NodesSettled
<1>3. /\ state' = state \/ state' = [state EXCEPT ![r] = Applied(r)]
      /\ \E k, next, sends : Put(k, Applied(r), next, sends)
      /\ \E p \in {"done", "begin"} : pc' = [pc EXCEPT ![r] = p]
  BY <1>2 DEF Pauses, GoesOn, Finish
<1>4. /\ ResultsEarned'
      /\ fresh' \in [Runs -> Bag] /\ state' \in [Runs -> State]
      /\ \A q \in Runs : fresh[q] = NoResults => fresh'[q] = NoResults
  BY <1>1, <1>3, SettledCounts
<1>5. history' = [j \in Steps |-> history'[j]] /\ CheckpointsEarned'
  BY <1>1, <1>3, RunEarned, PutEarned
<1>6. CountTypes'
  BY <1>1, <1>3, <1>4, <1>5 DEF CountInv, CountTypes
<1>7. NothingFreshBefore' /\ ReadsEarned'
  BY <1>1, <1>3, <1>4 DEF CountInv, CountTypes, NothingFreshBefore, ReadsEarned, Earned
<1> QED BY <1>4, <1>5, <1>6, <1>7 DEF CountInv

LEMMA UpdateReadsCounts ==
  ASSUME CountInv, NEW u \in Updates, UpdateReads(u)
  PROVE  CountInv'
<1>1. /\ UNCHANGED <<history, state, fresh, ran, pc>>
      /\ upc' = [upc EXCEPT ![u] = IF Latest = NoCheckpoint THEN "skipped" ELSE "reading"]
      /\ usnap' = [usnap EXCEPT ![u] = Latest]
  BY DEF UpdateReads, superstepVars, endVars
<1>2. CountTypes' /\ ResultsEarned' /\ NothingFreshBefore'
  BY <1>1 DEF CountInv, CountTypes, ResultsEarned, NothingFreshBefore
<1>3. CheckpointsEarned'
  BY <1>1 DEF CountInv, CheckpointsEarned, Saved, Earned
<1>4. ASSUME NEW v \in Updates, upc'[v] = "reading" PROVE Earned(usnap'[v].state)
  <2>1. CASE v = u
    <3>1. Latest # NoCheckpoint /\ usnap'[v] = Latest
      BY <1>1, <1>4, <2>1 DEF CountInv, CountTypes
    <3> QED BY <3>1, LatestEarned
  <2>2. CASE v # u
    BY <1>1, <1>4, <2>2 DEF CountInv, CountTypes, ReadsEarned
  <2> QED BY <2>1, <2>2
<1>5. ReadsEarned'
  BY <1>1, <1>4 DEF ReadsEarned, Earned
<1> QED BY <1>2, <1>3, <1>5 DEF CountInv

LEMMA UpdateWritesCounts ==
  ASSUME CountInv, NEW u \in Updates, UpdateWrites(u)
  PROVE  CountInv'
<1> DEFINE st == [usnap[u].state EXCEPT !.patches = @ \cup {u}]
<1>1. /\ UNCHANGED <<state, fresh, ran, pc, usnap>>
      /\ upc[u] = "reading" /\ upc' = [upc EXCEPT ![u] = "written"]
      /\ Put(usnap[u].step, st, usnap[u].next, usnap[u].sends)
  BY DEF UpdateWrites, superstepVars, endVars
<1>2. Earned(usnap[u].state)
  BY <1>1 DEF CountInv, ReadsEarned
<1>3. Earned(st)
  BY <1>2 DEF Earned, State
<1>4. history' = [j \in Steps |-> history'[j]] /\ CheckpointsEarned'
  BY <1>1, <1>3, PutEarned
<1>5. CountTypes' /\ ResultsEarned' /\ NothingFreshBefore'
  BY <1>1, <1>4 DEF CountInv, CountTypes, ResultsEarned, NothingFreshBefore
<1>6. ReadsEarned'
  BY <1>1 DEF CountInv, CountTypes, ReadsEarned, Earned
<1> QED BY <1>4, <1>5, <1>6 DEF CountInv

LEMMA CountInit == Init => CountInv
<1> SUFFICES ASSUME Init PROVE CountInv
  OBVIOUS
<1>1. NoResults \in Bag /\ InitialState \in State
  BY DEF NoResults, Bag, InitialState, State
<1>2. CountTypes /\ NothingFreshBefore /\ CheckpointsEarned /\ ReadsEarned
  BY <1>1 DEF Init, CountTypes, NothingFreshBefore, CheckpointsEarned, Saved, ReadsEarned
<1>3. ResultsEarned
  BY DEF Init, ResultsEarned, InitialState, NoResults
<1> QED BY <1>2, <1>3 DEF CountInv

(* Finish leaves every other run where it is. *)
LEMMA FinishOnlyCounts ==
  ASSUME CountInv, NEW r \in Runs, NEW how, FinishOnly(r, how)
  PROVE  CountInv'
<1>1. UNCHANGED <<history, state, fresh, ran, upc, usnap>> /\ pc' = [pc EXCEPT ![r] = "done"]
  BY DEF FinishOnly, Finish, superstepVars
<1> QED BY <1>1, CountQuiet DEF CountInv, CountTypes

LEMMA CountNext == CountInv /\ [Next]_vars => CountInv'
<1> SUFFICES ASSUME CountInv, [Next]_vars PROVE CountInv'
  OBVIOUS
<1>1. CASE UNCHANGED vars
  BY <1>1, CountQuiet DEF vars, superstepVars, endVars, CountInv, CountTypes
<1>2. ASSUME NEW r \in Runs, Invoke(r) PROVE CountInv'
  BY <1>2, LoadCounts DEF Invoke, IsNext
<1>3. ASSUME NEW r \in Runs, NEW s \in Runs, Resume(r, s) PROVE CountInv'
  BY <1>3, LoadCounts DEF Resume, IsNext
<1>4. ASSUME NEW r \in Runs,
             LimitReached(r) \/ Returns(r) \/ SendsFailed(r) \/ NodesFailed(r)
      PROVE  CountInv'
  BY <1>4, FinishOnlyCounts DEF LimitReached, Returns, SendsFailed, NodesFailed
<1>5. ASSUME NEW r \in Runs, SendsStart(r) PROVE CountInv'
  <2>1. UNCHANGED <<history, state, fresh, ran, upc, usnap>> /\ pc' = [pc EXCEPT ![r] = "sends"]
    BY <1>5 DEF SendsStart
  <2> QED BY <2>1, CountQuiet DEF CountInv, CountTypes
<1>6. ASSUME NEW r \in Runs, NodesStart(r) PROVE CountInv'
  <2>1. UNCHANGED <<history, state, fresh, ran, upc, usnap>> /\ pc' = [pc EXCEPT ![r] = "nodes"]
    BY <1>6 DEF NodesStart, StartNodes
  <2> QED BY <2>1, CountQuiet DEF CountInv, CountTypes
<1>7. ASSUME NEW r \in Runs, SendsSettled(r) PROVE CountInv'
  BY <1>7, SendsSettledCounts
<1>8. ASSUME NEW r \in Runs, NodesSettled(r) PROVE CountInv'
  BY <1>8, NodesSettledCounts
<1>9. ASSUME NEW r \in Runs, Live(r), NEW i, TaskReturns(r, i) PROVE CountInv'
  BY <1>9, TaskReturnsCounts
<1>10. ASSUME NEW r \in Runs, NEW i, NodeAsks(r, i) PROVE CountInv'
  BY <1>10, NodeAsksCounts
<1>11. ASSUME NEW r \in Runs, NEW i, TaskThrows(r, i) \/ NodeRecorded(r, i) PROVE CountInv'
  <2>1. UNCHANGED <<history, state, fresh, ran, pc, upc, usnap>>
    BY <1>11 DEF TaskThrows, NodeRecorded, endVars
  <2> QED BY <2>1, CountQuiet DEF CountInv, CountTypes
<1>12. ASSUME NEW u \in Updates, UpdateReads(u) \/ UpdateWrites(u) PROVE CountInv'
  BY <1>12, UpdateReadsCounts, UpdateWritesCounts
<1>13. ASSUME NEW s \in Runs, Expire(s) PROVE CountInv'
  <2>1. UNCHANGED <<history, state, fresh, ran, pc, upc, usnap>>
    BY <1>13 DEF Expire, superstepVars
  <2> QED BY <2>1, CountQuiet DEF CountInv, CountTypes
<1>14. ASSUME Crash PROVE CountInv'
  <2>1. /\ UNCHANGED <<history, state, fresh, ran, usnap>>
        /\ pc' = [r \in Runs |-> IF Live(r) THEN "done" ELSE pc[r]]
        /\ upc' = [u \in Updates |-> IF upc[u] = "reading" THEN "skipped" ELSE upc[u]]
    BY <1>14 DEF Crash, superstepVars
  <2> QED BY <2>1, CountQuiet DEF CountInv, CountTypes
<1> QED BY <1>1, <1>2, <1>3, <1>4, <1>5, <1>6, <1>7, <1>8, <1>9, <1>10, <1>11, <1>12,
           <1>13, <1>14 DEF Next, Engine

(* Whatever fails, is retried, interrupted, overlapped or crashes, no       *)
(* checkpoint of streamSupersteps holds an update more often than its node  *)
(* returned.                                                                *)
THEOREM UpdatesAppliedAtMostOnce == Spec => []AppliedAtMostOnce
<1>1. CountInv => AppliedAtMostOnce
  BY DEF CountInv, CheckpointsEarned, Earned, AppliedAtMostOnce
<1> QED BY <1>1, CountInit, CountNext, PTL DEF Spec

-----------------------------------------------------------------------------
(* Answers *)

(* A run whose answer counts: it is active, or it has returned. *)
Counts(r) == answers[r] # NoRun /\ (Live(r) \/ out[r] = "returned")

Saving(r, i) == Is(r, i, "saving")

AnswerTypes ==
  /\ session \in [Runs -> SessionStatus]
  /\ pc \in [Runs -> {"idle", "begin", "sends", "nodes", "done"}]
  /\ answers \in [Runs -> Runs \cup {NoRun}]
  /\ out \in [Runs -> Ends \cup {"none"}]
  /\ claimed \in [Runs -> BOOLEAN]
  /\ status = [r \in Runs |-> status[r]]

(* The session is taken while a run holds its answer: resume() refuses it. *)
AnsweredIsTaken ==
  \A r \in Runs : Counts(r) => session[answers[r]] \in {"resumed", "expired"}

(* Only recorded sessions are answered. *)
AnsweredIsRecorded ==
  \A r \in Runs : answers[r] # NoRun => session[answers[r]] # "none"

FreshRun ==
  \A r \in Runs : pc[r] = "idle" =>
    /\ answers[r] = NoRun /\ out[r] = "none" /\ session[r] = "none"
    /\ ~claimed[r] /\ \A i : ~Saving(r, i)

(* From the claim of the first interrupt to the recording of its session.   *)
OneSession ==
  \A r \in Runs : Live(r) =>
    /\ ~claimed[r] => session[r] = "none" /\ \A i : ~Saving(r, i)
    /\ \A i, j : Saving(r, i) /\ Saving(r, j) => i = j
    /\ \A i : Saving(r, i) => session[r] = "none"

AnswerInv ==
  /\ AnswerTypes
  /\ AnswerAcceptedOnce
  /\ AnsweredIsTaken
  /\ AnsweredIsRecorded
  /\ FreshRun
  /\ OneSession

LEMMA AnswerInit == Init => AnswerInv
<1> SUFFICES ASSUME Init PROVE AnswerInv
  OBVIOUS
<1>1. AnswerTypes
  BY DEF Init, AnswerTypes, SessionStatus
<1>2. \A r \in Runs : pc[r] = "idle" /\ answers[r] = NoRun /\ out[r] = "none"
                     /\ session[r] = "none" /\ claimed[r] = FALSE /\ status[r] = <<>>
  BY DEF Init
<1>3. \A r \in Runs : \A i : ~Saving(r, i)
  BY <1>2 DEF Saving, Is
<1>4. FreshRun
  BY <1>2, <1>3 DEF FreshRun
<1>5. OneSession /\ AnsweredIsTaken /\ AnsweredIsRecorded /\ AnswerAcceptedOnce
  BY <1>2 DEF OneSession, AnsweredIsTaken, AnsweredIsRecorded, AnswerAcceptedOnce,
              Counts, Live
<1> QED BY <1>1, <1>4, <1>5 DEF AnswerInv

(* Steps that move a run only within its superstep and no session. *)
LEMMA AnswerQuiet ==
  ASSUME AnswerInv, UNCHANGED <<session, answers, out, claimed>>,
         pc' \in [Runs -> {"idle", "begin", "sends", "nodes", "done"}],
         \A r \in Runs : pc'[r] = pc[r] \/ (Live(r) /\ pc'[r] \in {"begin", "sends", "nodes"}),
         status' = [r \in Runs |-> status'[r]],
         \A r \in Runs : \A i : Is(r, i, "saving")' => Is(r, i, "saving")
  PROVE  AnswerInv'
<1>1. AnswerTypes'
  BY DEF AnswerInv, AnswerTypes
<1>2. \A r \in Runs : (Live(r)' <=> Live(r)) /\ (Counts(r)' <=> Counts(r))
                     /\ (pc'[r] = "idle" => pc[r] = "idle")
  BY DEF Live, Counts
<1>3. \A r \in Runs : \A i : Saving(r, i)' => Saving(r, i)
  BY DEF Saving
<1>4. AnsweredIsTaken' /\ AnsweredIsRecorded' /\ AnswerAcceptedOnce'
  BY <1>2 DEF AnswerInv, AnsweredIsTaken, AnsweredIsRecorded, AnswerAcceptedOnce, Counts
<1>5. FreshRun'
  BY <1>2, <1>3 DEF AnswerInv, FreshRun
<1>6. OneSession'
  BY <1>2, <1>3 DEF AnswerInv, OneSession
<1> QED BY <1>1, <1>4, <1>5, <1>6 DEF AnswerInv

LEMMA InvokeAnswers ==
  ASSUME AnswerInv, NEW r \in Runs, Invoke(r)
  PROVE  AnswerInv'
<1>1. /\ pc[r] = "idle" /\ pc' = [pc EXCEPT ![r] = "begin"]
      /\ UNCHANGED <<session, answers, out, claimed, status>>
  BY DEF Invoke, Load, IsNext
<1>2. answers[r] = NoRun /\ session[r] = "none" /\ ~claimed[r] /\ \A i : ~Saving(r, i)
  BY <1>1 DEF AnswerInv, FreshRun
<1>3. AnswerTypes'
  BY <1>1 DEF AnswerInv, AnswerTypes
<1>4. \A q \in Runs : (Counts(q)' <=> Counts(q)) /\ (q # r => (Live(q)' <=> Live(q)))
                     /\ (pc'[q] = "idle" => pc[q] = "idle")
                     /\ \A i : Saving(q, i)' <=> Saving(q, i)
  BY <1>1, <1>2 DEF AnswerInv, AnswerTypes, Counts, Live, Saving, Is
<1>5. AnsweredIsTaken' /\ AnsweredIsRecorded'
  BY <1>1, <1>4 DEF AnswerInv, AnsweredIsTaken, AnsweredIsRecorded
<1>6. AnswerAcceptedOnce'
  BY <1>1, <1>4 DEF AnswerInv, AnswerAcceptedOnce, Counts
<1>7. FreshRun'
  BY <1>1, <1>4 DEF AnswerInv, FreshRun
<1>8. OneSession'
  BY <1>1, <1>2, <1>4 DEF AnswerInv, OneSession
<1> QED BY <1>3, <1>5, <1>6, <1>7, <1>8 DEF AnswerInv

LEMMA ResumeAnswers ==
  ASSUME AnswerInv, NEW r \in Runs, NEW s \in Runs, Resume(r, s)
  PROVE  AnswerInv'
<1>1. /\ pc[r] = "idle" /\ pc' = [pc EXCEPT ![r] = "begin"]
      /\ session[s] = "pending" /\ session' = [session EXCEPT ![s] = "resumed"]
      /\ answers' = [answers EXCEPT ![r] = s]
      /\ UNCHANGED <<out, claimed, status>>
  BY DEF Resume, Load, IsNext
<1>2. session[r] = "none" /\ ~claimed[r] /\ \A i : ~Saving(r, i)
  BY <1>1 DEF AnswerInv, FreshRun
<1>3. AnswerTypes'
  BY <1>1 DEF AnswerInv, AnswerTypes, SessionStatus
<1>4. \A q \in Runs : q # r => /\ (Counts(q)' <=> Counts(q)) /\ (Live(q)' <=> Live(q))
                               /\ answers'[q] = answers[q]
  BY <1>1 DEF AnswerInv, AnswerTypes, Counts, Live
<1>5. answers'[r] = s /\ answers[r] = NoRun /\ pc'[r] = "begin"
  BY <1>1 DEF AnswerInv, AnswerTypes, FreshRun
<1>6. \A q \in Runs : \A i : Saving(q, i)' <=> Saving(q, i)
  BY <1>1 DEF Saving, Is
<1>7. \A q \in Runs : /\ (session'[q] = session[q]) \/ (q = s /\ session'[q] = "resumed")
                     /\ (session'[q] = "none" <=> session[q] = "none")
  BY <1>1 DEF AnswerInv, AnswerTypes
<1>8. \A q \in Runs : Counts(q) => answers[q] # s
  BY <1>1 DEF AnswerInv, AnsweredIsTaken
<1>9. AnsweredIsTaken'
  <2>1. ASSUME NEW q \in Runs, Counts(q)' PROVE session'[answers'[q]] \in {"resumed", "expired"}
    <3>1. CASE q = r
      BY <3>1, <1>1, <1>5 DEF AnswerInv, AnswerTypes
    <3>2. CASE q # r
      <4>1. Counts(q) /\ answers'[q] = answers[q] /\ answers[q] \in Runs
        BY <3>2, <2>1, <1>4 DEF AnswerInv, AnswerTypes, Counts
      <4> QED BY <4>1, <1>7 DEF AnswerInv, AnsweredIsTaken
    <3> QED BY <3>1, <3>2
  <2> QED BY <2>1 DEF AnsweredIsTaken
<1>10. AnsweredIsRecorded'
  <2>1. ASSUME NEW q \in Runs, answers'[q] # NoRun PROVE session'[answers'[q]] # "none"
    <3>1. CASE q = r
      BY <3>1, <1>1, <1>5, <1>7
    <3>2. CASE q # r
      <4>1. answers'[q] = answers[q] /\ answers[q] \in Runs
        BY <3>2, <2>1, <1>4 DEF AnswerInv, AnswerTypes
      <4> QED BY <4>1, <2>1, <1>7 DEF AnswerInv, AnsweredIsRecorded
    <3> QED BY <3>1, <3>2
  <2> QED BY <2>1 DEF AnsweredIsRecorded
<1>11. AnswerAcceptedOnce'
  <2>1. ASSUME NEW p \in Runs, NEW q \in Runs, p # q, answers'[p] = answers'[q],
               Counts(p)', Counts(q)'
        PROVE  FALSE
    <3>1. CASE p = r
      BY <3>1, <2>1, <1>4, <1>5, <1>8
    <3>2. CASE q = r
      BY <3>2, <2>1, <1>4, <1>5, <1>8
    <3>3. CASE p # r /\ q # r
      BY <3>3, <2>1, <1>4 DEF AnswerInv, AnswerAcceptedOnce, Counts
    <3> QED BY <3>1, <3>2, <3>3
  <2> QED BY <2>1 DEF AnswerAcceptedOnce, Counts
<1>12. FreshRun'
  BY <1>1, <1>4, <1>6, <1>7 DEF AnswerInv, AnswerTypes, FreshRun
<1>13. OneSession'
  BY <1>1, <1>2, <1>4, <1>6, <1>7 DEF AnswerInv, OneSession
<1> QED BY <1>3, <1>9, <1>10, <1>11, <1>12, <1>13 DEF AnswerInv

(* The end of a run gives its session back unless it returned; nobody else  *)
(* holds it.                                                                *)
LEMMA FinishAnswers ==
  ASSUME AnswerInv, NEW r \in Runs, NEW how \in Ends, Live(r), Finish(r, how),
         UNCHANGED <<answers, claimed>>, status' = [q \in Runs |-> status'[q]],
         \A q \in Runs : \A i : Is(q, i, "saving")' => Is(q, i, "saving")
  PROVE  AnswerInv'
<1>1. /\ pc' = [pc EXCEPT ![r] = "done"]
      /\ out' = [out EXCEPT ![r] = how]
      /\ session' = [s \in Runs |->
           IF s = answers[r] /\ session[s] = "resumed" /\ how # "returned"
             THEN "pending" ELSE session[s]]
  BY DEF Finish
<1>2. AnswerTypes'
  BY <1>1 DEF AnswerInv, AnswerTypes, SessionStatus
<1>3. \A q \in Runs : /\ q # r => (Counts(q)' <=> Counts(q)) /\ (Live(q)' <=> Live(q))
                     /\ (pc'[q] = "idle" => pc[q] = "idle" /\ out'[q] = out[q])
  BY <1>1 DEF AnswerInv, AnswerTypes, Counts, Live
<1>4. /\ ~Live(r)' /\ (Counts(r)' => Counts(r) /\ how = "returned")
  BY <1>1 DEF AnswerInv, AnswerTypes, Counts, Live
<1>5. \A q \in Runs : /\ (session'[q] = "none" <=> session[q] = "none")
                     /\ \/ session'[q] = session[q]
                        \/ q = answers[r] /\ how # "returned"
  BY <1>1
<1>6. \A q \in Runs : Counts(q)' => Counts(q) /\ answers[q] \in Runs
                     /\ session'[answers[q]] = session[answers[q]]
  <2>1. ASSUME NEW q \in Runs, Counts(q)'
        PROVE  Counts(q) /\ answers[q] \in Runs /\ session'[answers[q]] = session[answers[q]]
    <3>1. Counts(q) /\ answers[q] \in Runs
      BY <2>1, <1>3, <1>4 DEF AnswerInv, AnswerTypes, Counts
    <3>2. CASE q = r
      BY <3>1, <3>2, <2>1, <1>4, <1>5
    <3>3. CASE q # r
      <4>1. answers[q] # answers[r]
        BY <3>1, <3>3 DEF AnswerInv, AnswerAcceptedOnce, Counts
      <4> QED BY <4>1, <3>1, <1>5
    <3> QED BY <3>1, <3>2, <3>3
  <2> QED BY <2>1
<1>7. AnsweredIsTaken'
  BY <1>6 DEF AnswerInv, AnsweredIsTaken
<1>8. AnsweredIsRecorded'
  <2>1. ASSUME NEW q \in Runs, answers'[q] # NoRun PROVE session'[answers'[q]] # "none"
    <3>1. answers'[q] = answers[q] /\ answers[q] \in Runs
      BY <2>1 DEF AnswerInv, AnswerTypes
    <3> QED BY <3>1, <2>1, <1>5 DEF AnswerInv, AnsweredIsRecorded
  <2> QED BY <2>1 DEF AnsweredIsRecorded
<1>9. AnswerAcceptedOnce'
  BY <1>6 DEF AnswerInv, AnswerAcceptedOnce, Counts
<1>10. \A q \in Runs : \A i : Saving(q, i)' => Saving(q, i)
  BY DEF Saving
<1>11. FreshRun'
  <2>1. ASSUME NEW q \in Runs, pc'[q] = "idle"
        PROVE  /\ answers'[q] = NoRun /\ out'[q] = "none" /\ session'[q] = "none"
               /\ ~claimed'[q] /\ \A i : ~Saving(q, i)'
    <3>1. pc[q] = "idle" /\ out'[q] = out[q]
      BY <2>1, <1>3
    <3>2. /\ answers[q] = NoRun /\ out[q] = "none" /\ session[q] = "none"
          /\ ~claimed[q] /\ \A i : ~Saving(q, i)
      BY <3>1 DEF AnswerInv, FreshRun
    <3> QED BY <3>1, <3>2, <1>5, <1>10
  <2> QED BY <2>1 DEF FreshRun
<1>12. OneSession'
  <2>1. ASSUME NEW q \in Runs, Live(q)'
        PROVE  /\ ~claimed'[q] => session'[q] = "none" /\ \A i : ~Saving(q, i)'
               /\ \A i, j : Saving(q, i)' /\ Saving(q, j)' => i = j
               /\ \A i : Saving(q, i)' => session'[q] = "none"
    <3>1. Live(q)
      BY <2>1, <1>3, <1>4
    <3>2. /\ ~claimed[q] => session[q] = "none" /\ \A i : ~Saving(q, i)
          /\ \A i, j : Saving(q, i) /\ Saving(q, j) => i = j
          /\ \A i : Saving(q, i) => session[q] = "none"
      BY <3>1 DEF AnswerInv, OneSession
    <3> QED BY <3>2, <1>5, <1>10
  <2> QED BY <2>1 DEF OneSession
<1> QED BY <1>2, <1>7, <1>8, <1>9, <1>11, <1>12 DEF AnswerInv

LEMMA FinishOnlyAnswers ==
  ASSUME AnswerInv, NEW r \in Runs, NEW how \in Ends, Live(r), FinishOnly(r, how)
  PROVE  AnswerInv'
<1>1. Finish(r, how) /\ UNCHANGED <<answers, claimed, status>>
  BY DEF FinishOnly, superstepVars
<1>2. status' = [q \in Runs |-> status'[q]]
  BY <1>1 DEF AnswerInv, AnswerTypes
<1>3. \A q \in Runs : \A i : Is(q, i, "saving")' => Is(q, i, "saving")
  BY <1>1 DEF Is
<1> QED BY <1>1, <1>2, <1>3, FinishAnswers

(* A superstep or a phase of it begins with no interrupt being saved. *)
LEMMA StartAnswers ==
  ASSUME AnswerInv, NEW r \in Runs, Live(r), NEW p \in {"begin", "sends", "nodes"},
         NEW st, \A i \in DOMAIN st : st[i] # "saving",
         pc' = [pc EXCEPT ![r] = p], status' = [status EXCEPT ![r] = st],
         UNCHANGED <<session, answers, out, claimed>>
  PROVE  AnswerInv'
<1>1. pc' \in [Runs -> {"idle", "begin", "sends", "nodes", "done"}]
  BY DEF AnswerInv, AnswerTypes
<1>2. \A q \in Runs : pc'[q] = pc[q] \/ (Live(q) /\ pc'[q] \in {"begin", "sends", "nodes"})
  BY DEF AnswerInv, AnswerTypes
<1>3. status' = [q \in Runs |-> status'[q]] /\ status'[r] = st
      /\ \A q \in Runs : q # r => status'[q] = status[q]
  BY DEF AnswerInv, AnswerTypes
<1>4. \A q \in Runs : \A i : Is(q, i, "saving")' => Is(q, i, "saving")
  BY <1>3 DEF Is
<1> QED BY <1>1, <1>2, <1>3, <1>4, AnswerQuiet

LEMMA SendsStartAnswers ==
  ASSUME AnswerInv, NEW r \in Runs, SendsStart(r)
  PROVE  AnswerInv'
<1> DEFINE st == [i \in DOMAIN work[r].sends |-> "running"]
<1>1. /\ pc' = [pc EXCEPT ![r] = "sends"] /\ status' = [status EXCEPT ![r] = st]
      /\ UNCHANGED <<session, answers, out, claimed>> /\ Live(r)
  BY DEF SendsStart, Within, Live
<1>2. \A i \in DOMAIN st : st[i] # "saving"
  OBVIOUS
<1> QED BY <1>1, <1>2, StartAnswers

LEMMA NodesStartAnswers ==
  ASSUME AnswerInv, NEW r \in Runs, Live(r), StartNodes(r),
         UNCHANGED <<session, answers, out, claimed>>
  PROVE  AnswerInv'
<1> DEFINE st == [i \in DOMAIN Executable(r) |->
                    IF Executable(r)[i] \in InterruptBefore THEN "halted" ELSE "running"]
<1>1. pc' = [pc EXCEPT ![r] = "nodes"] /\ status' = [status EXCEPT ![r] = st]
  BY DEF StartNodes
<1>2. \A i \in DOMAIN st : st[i] # "saving"
  OBVIOUS
<1> HIDE DEF st
<1> QED BY <1>1, <1>2, StartAnswers

LEMMA NodesSettledAnswers ==
  ASSUME AnswerInv, NEW r \in Runs, NodesSettled(r)
  PROVE  AnswerInv'
<1>1. Live(r) /\ UNCHANGED <<answers, claimed>>
  BY DEF NodesSettled, Live
<1>2. PICK route : Pauses(r, route) \/ GoesOn(r, route)
  BY DEF NodesSettled
<1>3. CASE Pauses(r, route)
  <2>1. Finish(r, "paused") /\ status' = status /\ "paused" \in Ends
    BY <1>3 DEF Pauses, Ends
  <2>2. status' = [q \in Runs |-> status'[q]]
    BY <2>1 DEF AnswerInv, AnswerTypes
  <2>3. \A q \in Runs : \A i : Is(q, i, "saving")' => Is(q, i, "saving")
    BY <2>1 DEF Is
  <2> QED BY <1>1, <2>1, <2>2, <2>3, FinishAnswers
<1>4. CASE GoesOn(r, route)
  <2>1. /\ pc' = [pc EXCEPT ![r] = "begin"] /\ status' = [status EXCEPT ![r] = <<>>]
        /\ UNCHANGED <<session, out>>
    BY <1>4 DEF GoesOn
  <2>2. \A i \in DOMAIN <<>> : <<>>[i] # "saving"
    OBVIOUS
  <2> QED BY <1>1, <2>1, <2>2, StartAnswers
<1> QED BY <1>2, <1>3, <1>4

(* What SetStatus does to the interrupts being saved. *)
LEMMA SetStatusSaving ==
  ASSUME AnswerInv, NEW r \in Runs, NEW i, i \in DOMAIN status[r], NEW s, SetStatus(r, i, s)
  PROVE  /\ status' = [q \in Runs |-> status'[q]]
         /\ \A q \in Runs : \A j :
              Saving(q, j)' <=> IF q = r /\ j = i THEN s = "saving" ELSE Saving(q, j)
<1>1. status' = [status EXCEPT ![r] = [status[r] EXCEPT ![i] = s]]
  BY DEF SetStatus
<1>2. /\ status' = [q \in Runs |-> status'[q]]
      /\ status'[r] = [status[r] EXCEPT ![i] = s]
      /\ \A q \in Runs : q # r => status'[q] = status[q]
  BY <1>1 DEF AnswerInv, AnswerTypes
<1>3. /\ DOMAIN status'[r] = DOMAIN status[r] /\ status'[r][i] = s
      /\ \A j \in DOMAIN status[r] : j # i => status'[r][j] = status[r][j]
  BY <1>2
<1> QED BY <1>2, <1>3 DEF Saving, Is

LEMMA TaskEndsAnswers ==
  ASSUME AnswerInv, NEW r \in Runs, NEW i, Is(r, i, "running"),
         NEW s \in {"ok", "failed", "asked"}, SetStatus(r, i, s),
         UNCHANGED <<session, pc, answers, out, claimed>>
  PROVE  AnswerInv'
<1>1. i \in DOMAIN status[r]
  BY DEF Is
<1>2. /\ status' = [q \in Runs |-> status'[q]]
      /\ \A q \in Runs : \A j :
           Saving(q, j)' <=> IF q = r /\ j = i THEN s = "saving" ELSE Saving(q, j)
  BY <1>1, SetStatusSaving
<1>3. \A q \in Runs : \A j : Is(q, j, "saving")' => Is(q, j, "saving")
  BY <1>2 DEF Saving
<1> QED BY <1>2, <1>3, AnswerQuiet DEF AnswerInv, AnswerTypes

(* The claim is set, so that this is the one interrupt being saved. *)
LEMMA NodeAsksAnswers ==
  ASSUME AnswerInv, NEW r \in Runs, NEW i, NodeAsks(r, i)
  PROVE  AnswerInv'
<1>1. UNCHANGED <<session, pc, answers, out>> /\ Is(r, i, "running") /\ Live(r)
      /\ i \in DOMAIN status[r]
  BY DEF NodeAsks, endVars, Live, Is
<1>2. CASE ~FirstClaim(r)
  BY <1>1, <1>2, TaskEndsAnswers DEF NodeAsks
<1>3. CASE FirstClaim(r)
  <2>1. ~claimed[r] /\ SetStatus(r, i, "saving") /\ claimed' = [claimed EXCEPT ![r] = TRUE]
    BY <1>3 DEF NodeAsks, FirstClaim
  <2>2. session[r] = "none" /\ \A j : ~Saving(r, j)
    BY <1>1, <2>1 DEF AnswerInv, OneSession
  <2>3. /\ status' = [q \in Runs |-> status'[q]]
        /\ \A q \in Runs : \A j :
             Saving(q, j)' <=> IF q = r /\ j = i THEN TRUE ELSE Saving(q, j)
    BY <1>1, <2>1, SetStatusSaving
  <2>4. AnswerTypes'
    BY <1>1, <2>1, <2>3 DEF AnswerInv, AnswerTypes
  <2>5. claimed'[r] = TRUE /\ \A q \in Runs : q # r => claimed'[q] = claimed[q]
    BY <2>1 DEF AnswerInv, AnswerTypes
  <2>6. \A q \in Runs : (Live(q)' <=> Live(q)) /\ (Counts(q)' <=> Counts(q))
    BY <1>1 DEF Live, Counts
  <2>7. AnsweredIsTaken' /\ AnsweredIsRecorded' /\ AnswerAcceptedOnce'
    BY <1>1, <2>6 DEF AnswerInv, AnsweredIsTaken, AnsweredIsRecorded, AnswerAcceptedOnce,
                      Counts
  <2>8. FreshRun'
    <3>1. pc[r] # "idle"
      BY <1>1 DEF Live
    <3> QED BY <3>1, <1>1, <2>3, <2>5 DEF AnswerInv, FreshRun
  <2>9. OneSession'
    BY <1>1, <2>2, <2>3, <2>5, <2>6 DEF AnswerInv, OneSession
  <2> QED BY <2>4, <2>7, <2>8, <2>9 DEF AnswerInv
<1> QED BY <1>2, <1>3

(* The session that is recorded is new, so nobody answers it yet. *)
LEMMA NodeRecordedAnswers ==
  ASSUME AnswerInv, NEW r \in Runs, NEW i, NodeRecorded(r, i)
  PROVE  AnswerInv'
<1>1. /\ UNCHANGED <<pc, answers, out, claimed>> /\ Live(r) /\ Saving(r, i)
      /\ SetStatus(r, i, "asked") /\ session' = [session EXCEPT ![r] = "pending"]
      /\ i \in DOMAIN status[r]
  BY DEF NodeRecorded, Saving, Is
<1>2. /\ session[r] = "none" /\ claimed[r]
      /\ \A j : Saving(r, j) => j = i
  BY <1>1 DEF AnswerInv, AnswerTypes, OneSession
<1>3. /\ status' = [q \in Runs |-> status'[q]]
      /\ \A q \in Runs : \A j :
           Saving(q, j)' <=> IF q = r /\ j = i THEN FALSE ELSE Saving(q, j)
  BY <1>1, SetStatusSaving
<1>4. AnswerTypes'
  BY <1>1, <1>3 DEF AnswerInv, AnswerTypes, SessionStatus
<1>5. \A q \in Runs : (Live(q)' <=> Live(q)) /\ (Counts(q)' <=> Counts(q))
  BY <1>1 DEF Live, Counts
<1>6. \A q \in Runs : q # r => session'[q] = session[q]
  BY <1>1 DEF AnswerInv, AnswerTypes
<1>7. \A q \in Runs : answers[q] # NoRun => answers[q] \in Runs /\ answers[q] # r
  BY <1>2 DEF AnswerInv, AnswerTypes, AnsweredIsRecorded
<1>8. AnsweredIsTaken'
  BY <1>1, <1>5, <1>6, <1>7 DEF AnswerInv, AnsweredIsTaken, Counts
<1>9. AnsweredIsRecorded'
  BY <1>1, <1>6, <1>7 DEF AnswerInv, AnsweredIsRecorded
<1>10. AnswerAcceptedOnce'
  BY <1>1, <1>5 DEF AnswerInv, AnswerAcceptedOnce, Counts
<1>11. FreshRun'
  <2>1. pc[r] # "idle"
    BY <1>1 DEF Live
  <2> QED BY <2>1, <1>1, <1>3, <1>6 DEF AnswerInv, FreshRun
<1>12. OneSession'
  BY <1>1, <1>2, <1>3, <1>5, <1>6 DEF AnswerInv, OneSession
<1> QED BY <1>4, <1>8, <1>9, <1>10, <1>11, <1>12 DEF AnswerInv

LEMMA ExpireAnswers ==
  ASSUME AnswerInv, NEW s \in Runs, Expire(s)
  PROVE  AnswerInv'
<1>1. /\ UNCHANGED <<pc, answers, out, claimed, status>>
      /\ session[s] # "none" /\ session' = [session EXCEPT ![s] = "expired"]
  BY DEF Expire, superstepVars
<1>2. AnswerTypes'
  BY <1>1 DEF AnswerInv, AnswerTypes, SessionStatus
<1>3. \A q \in Runs : /\ (Live(q)' <=> Live(q)) /\ (Counts(q)' <=> Counts(q))
                     /\ \A i : Saving(q, i)' <=> Saving(q, i)
  BY <1>1 DEF Live, Counts, Saving, Is
<1>4. \A q \in Runs : /\ (session'[q] = "none" <=> session[q] = "none")
                     /\ \/ session'[q] = session[q]
                        \/ session'[q] = "expired"
  BY <1>1 DEF AnswerInv, AnswerTypes
<1>5. \A q \in Runs : answers[q] # NoRun => answers[q] \in Runs
  BY DEF AnswerInv, AnswerTypes
<1>6. AnsweredIsTaken'
  BY <1>1, <1>3, <1>4, <1>5 DEF AnswerInv, AnsweredIsTaken, Counts
<1>7. AnsweredIsRecorded'
  BY <1>1, <1>4, <1>5 DEF AnswerInv, AnsweredIsRecorded
<1>8. AnswerAcceptedOnce'
  BY <1>1, <1>3 DEF AnswerInv, AnswerAcceptedOnce, Counts
<1>9. FreshRun' /\ OneSession'
  BY <1>1, <1>3, <1>4 DEF AnswerInv, FreshRun, OneSession
<1> QED BY <1>2, <1>6, <1>7, <1>8, <1>9 DEF AnswerInv

(* A crash ends every run and expires every session that was recorded. *)
LEMMA CrashAnswers ==
  ASSUME AnswerInv, Crash
  PROVE  AnswerInv'
<1>1. /\ UNCHANGED <<answers, claimed, status>>
      /\ pc' = [r \in Runs |-> IF Live(r) THEN "done" ELSE pc[r]]
      /\ out' = [r \in Runs |-> IF Live(r) THEN "crashed" ELSE out[r]]
      /\ session' = [r \in Runs |-> IF session[r] = "none" THEN "none" ELSE "expired"]
  BY DEF Crash, superstepVars
<1>2. AnswerTypes'
  BY <1>1 DEF AnswerInv, AnswerTypes, SessionStatus, Ends
<1>3. \A q \in Runs : ~Live(q)' /\ (Counts(q)' => Counts(q))
  BY <1>1 DEF AnswerInv, AnswerTypes, Live, Counts
<1>4. \A q \in Runs : session'[q] = IF session[q] = "none" THEN "none" ELSE "expired"
  BY <1>1
<1>5. \A q \in Runs : answers[q] # NoRun => answers[q] \in Runs /\ session[answers[q]] # "none"
  BY DEF AnswerInv, AnswerTypes, AnsweredIsRecorded
<1>6. AnsweredIsTaken' /\ AnsweredIsRecorded'
  BY <1>1, <1>4, <1>5 DEF AnsweredIsTaken, AnsweredIsRecorded, Counts
<1>7. AnswerAcceptedOnce'
  BY <1>1, <1>3 DEF AnswerInv, AnswerAcceptedOnce, Counts
<1>8. FreshRun'
  BY <1>1, <1>4 DEF AnswerInv, AnswerTypes, FreshRun, Live, Saving, Is
<1>9. OneSession'
  BY <1>3 DEF OneSession
<1> QED BY <1>2, <1>6, <1>7, <1>8, <1>9 DEF AnswerInv

LEMMA AnswerNext == AnswerInv /\ [Next]_vars => AnswerInv'
<1> SUFFICES ASSUME AnswerInv, [Next]_vars PROVE AnswerInv'
  OBVIOUS
<1>1. CASE UNCHANGED vars
  <2>1. UNCHANGED <<session, answers, out, claimed, pc, status>>
    BY <1>1 DEF vars, superstepVars, endVars
  <2> QED BY <2>1, AnswerQuiet DEF AnswerInv, AnswerTypes, Is
<1>2. ASSUME NEW r \in Runs, Invoke(r) PROVE AnswerInv'
  BY <1>2, InvokeAnswers
<1>3. ASSUME NEW r \in Runs, NEW s \in Runs, Resume(r, s) PROVE AnswerInv'
  BY <1>3, ResumeAnswers
<1>4. ASSUME NEW r \in Runs,
             LimitReached(r) \/ Returns(r) \/ SendsFailed(r) \/ NodesFailed(r)
      PROVE  AnswerInv'
  <2>1. Live(r)
    BY <1>4 DEF LimitReached, Returns, SendsFailed, NodesFailed, Within, Live
  <2>2. PICK how \in Ends : FinishOnly(r, how)
    BY <1>4 DEF LimitReached, Returns, SendsFailed, NodesFailed, Ends
  <2> QED BY <2>1, <2>2, FinishOnlyAnswers
<1>5. ASSUME NEW r \in Runs, SendsStart(r) PROVE AnswerInv'
  BY <1>5, SendsStartAnswers
<1>6. ASSUME NEW r \in Runs, NodesStart(r) \/ SendsSettled(r) PROVE AnswerInv'
  <2>1. StartNodes(r) /\ UNCHANGED <<session, answers, out, claimed>> /\ Live(r)
    BY <1>6 DEF NodesStart, SendsSettled, Within, Live
  <2> QED BY <2>1, NodesStartAnswers
<1>7. ASSUME NEW r \in Runs, NodesSettled(r) PROVE AnswerInv'
  BY <1>7, NodesSettledAnswers
<1>8. ASSUME NEW r \in Runs, NEW i, TaskReturns(r, i) \/ TaskThrows(r, i) PROVE AnswerInv'
  <2>1. /\ Is(r, i, "running") /\ UNCHANGED <<session, pc, answers, out, claimed>>
        /\ SetStatus(r, i, "ok") \/ SetStatus(r, i, "failed")
    BY <1>8 DEF TaskReturns, TaskThrows, endVars
  <2> QED BY <2>1, TaskEndsAnswers
<1>9. ASSUME NEW r \in Runs, NEW i, NodeAsks(r, i) PROVE AnswerInv'
  BY <1>9, NodeAsksAnswers
<1>10. ASSUME NEW r \in Runs, NEW i, NodeRecorded(r, i) PROVE AnswerInv'
  BY <1>10, NodeRecordedAnswers
<1>11. ASSUME NEW u \in Updates, UpdateReads(u) \/ UpdateWrites(u) PROVE AnswerInv'
  <2>1. UNCHANGED <<session, answers, out, claimed, pc, status>>
    BY <1>11 DEF UpdateReads, UpdateWrites, superstepVars, endVars
  <2> QED BY <2>1, AnswerQuiet DEF AnswerInv, AnswerTypes, Is
<1>12. ASSUME NEW s \in Runs, Expire(s) PROVE AnswerInv'
  BY <1>12, ExpireAnswers
<1>13. ASSUME Crash PROVE AnswerInv'
  BY <1>13, CrashAnswers
<1> QED BY <1>1, <1>2, <1>3, <1>4, <1>5, <1>6, <1>7, <1>8, <1>9, <1>10, <1>11, <1>12,
           <1>13 DEF Next, Engine

(* However resume() calls overlap, fail and are retried, at most one run    *)
(* that answers a session is active or has returned (graph.ts, resume).     *)
THEOREM AnswersAcceptedOnce == Spec => []AnswerAcceptedOnce
<1>1. AnswerInv => AnswerAcceptedOnce
  BY DEF AnswerInv
<1> QED BY <1>1, AnswerInit, AnswerNext, PTL DEF Spec

-----------------------------------------------------------------------------
(* Histories.  Callers that await each call before the next: at any time at *)
(* most one run is live or one updateState() is under way.  The live run is *)
(* at or behind no checkpoint, and its state carries what is committed; it  *)
(* is the committed one when a superstep begins.  As long as no superstep   *)
(* was cut short, what nodes returned is in the run's state or waits in its *)
(* results, and in the last checkpoint when no run is live.                 *)

RestTyped ==
  /\ \A k \in Steps : \/ history[k] = NoCheckpoint
                      \/ (history[k] \in Checkpoint /\ history[k].step = k)
  /\ asker \in [Runs -> Nodes \cup {Start}]
  /\ step \in [Runs -> Steps]
  /\ work \in [Runs -> [next : Targets, sends : Seq(Nodes),
                        route : [nodes : Targets, sends : Seq(Nodes)]]]
  /\ tasks \in [Runs -> Seq(Nodes)]
  /\ \A r \in Runs : status[r] \in [DOMAIN tasks[r] -> TaskStatus]
  /\ \A r \in Runs : pc[r] \in {"sends", "nodes"} => step[r] < RecursionLimit
  /\ upc \in [Updates -> {"idle", "reading", "written", "skipped"}]
  /\ \A u \in Updates : usnap[u] \in Checkpoint \cup {NoCheckpoint}
  /\ \A u \in Updates : upc[u] = "reading" => usnap[u] # NoCheckpoint
  /\ crashed \in BOOLEAN

TypeInv == CountInv /\ AnswerInv /\ RestTyped

Alone ==
  /\ \A r, q \in Runs : Live(r) /\ Live(q) => r = q
  /\ \A u, v \in Updates : upc[u] = "reading" /\ upc[v] = "reading" => u = v
  /\ \A r \in Runs, u \in Updates : ~(Live(r) /\ upc[u] = "reading")

Carries(st, base) ==
  /\ \A n \in Nodes : base.done[n] <= st.done[n]
  /\ base.patches \subseteq st.patches

Ahead ==
  \A r \in Runs :
    /\ pc[r] = "idle" => state[r] = InitialState
    /\ Live(r) => /\ \A k \in Saved : k <= step[r]
                  /\ Carries(state[r], CommittedState)
    /\ pc[r] = "begin" => state[r] = CommittedState /\ fresh[r] = NoResults

ReadsLatest == \A u \in Updates : upc[u] = "reading" => usnap[u] = Latest

NothingCut == \A r \in Runs : out[r] \in {"none", "returned", "paused", "limit"}

Exact ==
  NothingCut =>
    /\ \A r \in Runs : Live(r) => \A n \in Nodes : ran[n] = state[r].done[n] + fresh[r][n]
    /\ (\A r \in Runs : ~Live(r)) => CommittedState.done = ran

Started ==
  \A r \in Runs :
    /\ pc[r] # "done" => out[r] = "none"
    /\ pc[r] \in {"idle", "begin"} => status[r] = <<>>

HistInv ==
  /\ Alone /\ Started
  /\ Ahead
  /\ ReadsLatest
  /\ Exact
  /\ HistoryAccumulates /\ UpdatesKept

-----------------------------------------------------------------------------
(* Types, with or without overlapping calls *)

Work == [next : Targets, sends : Seq(Nodes), route : [nodes : Targets, sends : Seq(Nodes)]]

LEMMA TypesTogether == TypeInv => TypeOK
BY DEF TypeInv, CountInv, CountTypes, AnswerInv, AnswerTypes, RestTyped, TypeOK

(* The latest checkpoint is the one of the last superstep.                  *)
LEMMA LatestLast ==
  ASSUME TypeInv
  PROVE  \/ Saved = {} /\ Latest = NoCheckpoint /\ CommittedState = InitialState
         \/ \E m \in Saved :
              /\ \A j \in Saved : j <= m
              /\ Latest = history[m] /\ Latest.step = m /\ Latest \in Checkpoint
              /\ Latest # NoCheckpoint /\ CommittedState = history[m].state
<1>1. CASE Saved = {}
  BY <1>1 DEF Latest, CommittedState
<1>2. CASE Saved # {}
  <2>1. Saved \subseteq 0..RecursionLimit /\ RecursionLimit \in Nat
    BY PregelThreadAssumption DEF Saved, Steps
  <2>2. \E k \in Saved : \A j \in Saved : j <= k
    BY <1>2, <2>1, MaxExists
  <2>3. PICK m \in Saved : Latest = history[m] /\ \A j \in Saved : j <= m
    BY <1>2, <2>2 DEF Latest
  <2>4. m \in Steps /\ history[m] # NoCheckpoint
    BY DEF Saved
  <2>5. history[m] \in Checkpoint /\ history[m].step = m
    BY <2>4 DEF TypeInv, RestTyped
  <2> QED BY <2>3, <2>4, <2>5 DEF CommittedState
<1> QED BY <1>1, <1>2

LEMMA OutgoingTyped ==
  ASSUME NEW n \in Nodes, NEW route \in Outgoing(n)
  PROVE  route \in [nodes : Targets, sends : Seq(Nodes)]
<1>1. \A other \in Routes[n] : other \in [nodes : Targets, sends : Seq(Nodes)]
  BY PregelThreadAssumption DEF Targets
<1>2. <<>> \in Seq(Nodes)
  OBVIOUS
<1> QED BY <1>1, <1>2 DEF Outgoing

(* Routes keep their types when the selected ones are appended.             *)
LEMMA ExtendTyped ==
  ASSUME NEW route \in [nodes : Targets, sends : Seq(Nodes)], NEW n \in Nat, NEW pick,
         DOMAIN pick = 1..n, \A i \in 1..n : pick[i] \in [nodes : Targets, sends : Seq(Nodes)]
  PROVE  Extend(route, pick) \in [nodes : Targets, sends : Seq(Nodes)]
<1>1. [i \in DOMAIN pick |-> pick[i].nodes] \in Seq(Targets)
  OBVIOUS
<1>2. [i \in DOMAIN pick |-> pick[i].sends] \in Seq(Seq(Nodes))
  OBVIOUS
<1>3. FlattenSeq([i \in DOMAIN pick |-> pick[i].nodes]) \in Targets
  BY <1>1, FlattenTyped DEF Targets
<1>4. FlattenSeq([i \in DOMAIN pick |-> pick[i].sends]) \in Seq(Nodes)
  BY <1>2, FlattenTyped
<1>5. route.nodes \in Targets /\ route.sends \in Seq(Nodes)
  OBVIOUS
<1>6. \A S : \A s, t \in Seq(S) : s \o t \in Seq(S)
  BY ConcatProperties
<1> QED BY <1>3, <1>4, <1>5, <1>6 DEF Extend, Targets

LEMMA SelectionTyped ==
  ASSUME TypeInv, NEW r \in Runs, NEW pick \in Selections(r),
         NEW route \in [nodes : Targets, sends : Seq(Nodes)]
  PROVE  Extend(route, pick) \in [nodes : Targets, sends : Seq(Nodes)]
<1>1. tasks[r] \in Seq(Nodes)
  BY DEF TypeInv, RestTyped
<1>2. DOMAIN pick = 1..Len(tasks[r]) /\ Len(tasks[r]) \in Nat
  BY <1>1 DEF Selections
<1>3. \A i \in 1..Len(tasks[r]) : pick[i] \in Outgoing(tasks[r][i]) /\ tasks[r][i] \in Nodes
  BY <1>1 DEF Selections, NodeOf
<1>4. \A i \in 1..Len(tasks[r]) : pick[i] \in [nodes : Targets, sends : Seq(Nodes)]
  BY <1>3, OutgoingTyped
<1> QED BY <1>2, <1>4, ExtendTyped

LEMMA DedupTyped ==
  ASSUME NEW nodes \in Targets
  PROVE  Dedup(nodes) \in Targets
<1> DEFINE first == {i \in DOMAIN nodes : \A j \in 1..(i - 1) : nodes[j] # nodes[i]}
<1>1. Len(nodes) \in Nat /\ first \in SUBSET (1..Len(nodes))
  BY DEF Targets
<1>2. \A k \in first : nodes[k] \in Nodes \cup {End}
  BY DEF Targets
<1>3. Dedup(nodes) = ElementsAt(nodes, first)
  BY DEF Dedup
<1> HIDE DEF first
<1> QED BY <1>1, <1>2, <1>3, ElementsTyped DEF Targets

LEMMA ExecutableTyped ==
  ASSUME TypeInv, NEW r \in Runs
  PROVE  Executable(r) \in Seq(Nodes)
<1> DEFINE next == work[r].next
           left == {i \in DOMAIN next : next[i] # End /\ ~Contains(work[r].sends, next[i])}
<1>1. next \in Seq(Nodes \cup {End})
  BY DEF TypeInv, RestTyped, Targets
<1>2. Len(next) \in Nat /\ left \in SUBSET (1..Len(next))
  BY <1>1
<1>3. \A k \in left : next[k] \in Nodes
  BY <1>1
<1>4. Executable(r) = ElementsAt(next, left)
  BY DEF Executable
<1> HIDE DEF next, left
<1> QED BY <1>2, <1>3, <1>4, ElementsTyped

LEMMA PutTyped ==
  ASSUME TypeInv, NEW k \in Steps, NEW st \in State, NEW next \in Targets,
         NEW sends \in Seq(Nodes), Put(k, st, next, sends)
  PROVE  /\ \A j \in Steps : \/ history'[j] = NoCheckpoint
                            \/ (history'[j] \in Checkpoint /\ history'[j].step = j)
         /\ history'[k] = [step |-> k, state |-> st, next |-> next, sends |-> sends]
         /\ history'[k] # NoCheckpoint
         /\ \A j \in Steps \ {k} : history'[j] = history[j]
<1> DEFINE cp == [step |-> k, state |-> st, next |-> next, sends |-> sends]
<1>1. DOMAIN history = Steps
  BY DEF TypeInv, CountInv, CountTypes
<1>2. cp \in Checkpoint /\ cp.step = k
  BY DEF Checkpoint
<1>3. history'[k] = cp /\ \A j \in Steps \ {k} : history'[j] = history[j]
  BY <1>1 DEF Put
<1>4. k # -1 /\ NoCheckpoint.step = -1
  BY PregelThreadAssumption DEF Steps, NoCheckpoint
<1>5. cp # NoCheckpoint
  BY <1>2, <1>4
<1>6. \A j \in Steps \ {k} : \/ history'[j] = NoCheckpoint
                           \/ (history'[j] \in Checkpoint /\ history'[j].step = j)
  BY <1>3 DEF TypeInv, RestTyped
<1> QED BY <1>2, <1>3, <1>5, <1>6

(* Steps that move no checkpoint and leave the work of every run.           *)
LEMMA RestQuiet ==
  ASSUME TypeInv, UNCHANGED <<history, asker, step, work, tasks, upc, usnap, crashed>>,
         \A r \in Runs : status'[r] \in [DOMAIN tasks[r] -> TaskStatus],
         \A r \in Runs : pc'[r] \in {"sends", "nodes"} => step[r] < RecursionLimit
  PROVE  RestTyped'
BY DEF TypeInv, RestTyped

LEMMA LoadTyped ==
  ASSUME TypeInv, NEW r \in Runs, Load(r)
  PROVE  RestTyped'
<1>1. /\ UNCHANGED <<history, asker, tasks, status, upc, usnap, crashed>>
      /\ pc' = [pc EXCEPT ![r] = "begin"]
  BY DEF Load
<1>2. step' \in [Runs -> Steps] /\ work' \in [Runs -> Work] /\ \A q \in Runs \ {r} : step'[q] = step[q]
  <2>0. step \in [Runs -> Steps] /\ work \in [Runs -> Work]
    BY DEF TypeInv, RestTyped, Work
  <2>1. NoRoute \in [nodes : Targets, sends : Seq(Nodes)]
    BY DEF NoRoute, Targets
  <2>2. CASE Latest = NoCheckpoint
    <3>1. PICK route \in Routes[Start] :
            work' = [work EXCEPT ![r] = [next |-> route.nodes, sends |-> route.sends,
                                         route |-> NoRoute]]
      BY <2>2 DEF Load
    <3>2. route \in [nodes : Targets, sends : Seq(Nodes)]
      BY PregelThreadAssumption DEF Targets
    <3>3. step' = step
      BY <2>2 DEF Load
    <3> QED BY <2>0, <2>1, <3>1, <3>2, <3>3 DEF Work
  <2>3. CASE Latest # NoCheckpoint
    <3>1. Latest \in Checkpoint
      BY <2>3, LatestLast
    <3>2. /\ work' = [work EXCEPT ![r] = [next |-> Latest.next, sends |-> Latest.sends,
                                          route |-> NoRoute]]
          /\ step' = [step EXCEPT ![r] = Latest.step]
      BY <2>3 DEF Load
    <3> QED BY <2>0, <2>1, <3>1, <3>2 DEF Work, Checkpoint
  <2> QED BY <2>2, <2>3
<1>3. \A q \in Runs : pc'[q] \in {"sends", "nodes"} => q # r /\ pc[q] \in {"sends", "nodes"}
  BY <1>1 DEF TypeInv, CountInv, CountTypes
<1>4. \A q \in Runs : pc'[q] \in {"sends", "nodes"} => step'[q] < RecursionLimit
  BY <1>2, <1>3 DEF TypeInv, RestTyped
<1> QED BY <1>1, <1>2, <1>4 DEF TypeInv, RestTyped, Work

LEMMA StatusTyped ==
  ASSUME TypeInv, NEW r \in Runs, NEW i, NEW s \in TaskStatus, SetStatus(r, i, s)
  PROVE  \A q \in Runs : status'[q] \in [DOMAIN tasks[q] -> TaskStatus]
<1>1. status = [q \in Runs |-> status[q]] /\ \A q \in Runs : status[q] \in [DOMAIN tasks[q] -> TaskStatus]
  BY DEF TypeInv, AnswerInv, AnswerTypes, RestTyped
<1>2. status'[r] = [status[r] EXCEPT ![i] = s] /\ \A q \in Runs \ {r} : status'[q] = status[q]
  BY <1>1 DEF SetStatus
<1>3. [status[r] EXCEPT ![i] = s] \in [DOMAIN tasks[r] -> TaskStatus]
  BY <1>1
<1> QED BY <1>1, <1>2, <1>3

LEMMA FinishTyped ==
  ASSUME TypeInv, NEW r \in Runs, NEW how, FinishOnly(r, how)
  PROVE  RestTyped'
<1>1. /\ UNCHANGED <<history, asker, step, work, tasks, status, upc, usnap, crashed>>
      /\ pc' = [pc EXCEPT ![r] = "done"]
  BY DEF FinishOnly, Finish, superstepVars
<1>2. \A q \in Runs : pc'[q] \in {"sends", "nodes"} => pc[q] \in {"sends", "nodes"}
  BY <1>1 DEF TypeInv, CountInv, CountTypes
<1> QED BY <1>1, <1>2, RestQuiet DEF TypeInv, RestTyped

(* The tasks of a superstep, and the status they start with.                *)
LEMMA TasksTyped ==
  ASSUME TypeInv, NEW r \in Runs, NEW ts \in Seq(Nodes), NEW st \in [DOMAIN ts -> TaskStatus],
         tasks' = [tasks EXCEPT ![r] = ts], status' = [status EXCEPT ![r] = st]
  PROVE  /\ tasks' \in [Runs -> Seq(Nodes)]
         /\ \A q \in Runs : status'[q] \in [DOMAIN tasks'[q] -> TaskStatus]
<1>1. /\ tasks \in [Runs -> Seq(Nodes)] /\ status = [q \in Runs |-> status[q]]
      /\ \A q \in Runs : status[q] \in [DOMAIN tasks[q] -> TaskStatus]
  BY DEF TypeInv, AnswerInv, AnswerTypes, RestTyped
<1>2. tasks' \in [Runs -> Seq(Nodes)]
  BY <1>1
<1>3. tasks'[r] = ts /\ status'[r] = st
  BY <1>1
<1>4. \A q \in Runs \ {r} : tasks'[q] = tasks[q] /\ status'[q] = status[q]
  BY <1>1
<1> QED BY <1>1, <1>2, <1>3, <1>4

LEMMA StartTyped ==
  ASSUME TypeInv, NEW r \in Runs, StartNodes(r)
  PROVE  /\ tasks' \in [Runs -> Seq(Nodes)]
         /\ \A q \in Runs : status'[q] \in [DOMAIN tasks'[q] -> TaskStatus]
<1> DEFINE st == [i \in DOMAIN Executable(r) |->
                    IF Executable(r)[i] \in InterruptBefore THEN "halted" ELSE "running"]
<1>1. Executable(r) \in Seq(Nodes)
  BY ExecutableTyped
<1>2. st \in [DOMAIN Executable(r) -> TaskStatus]
  BY DEF TaskStatus
<1>3. tasks' = [tasks EXCEPT ![r] = Executable(r)] /\ status' = [status EXCEPT ![r] = st]
  BY DEF StartNodes
<1> HIDE DEF st
<1> QED BY <1>1, <1>2, <1>3, TasksTyped

LEMMA SuperstepTyped ==
  ASSUME TypeInv, NEW r \in Runs, SendsStart(r) \/ NodesStart(r) \/ SendsSettled(r)
  PROVE  RestTyped'
<1>1. /\ UNCHANGED <<history, asker, step, upc, usnap, crashed>>
      /\ \A q \in Runs \ {r} : pc'[q] = pc[q]
      /\ step[r] < RecursionLimit
  BY DEF SendsStart, NodesStart, SendsSettled, StartNodes, Within, TypeInv, RestTyped,
         CountInv, CountTypes
<1>2. \A q \in Runs : pc'[q] \in {"sends", "nodes"} => step'[q] < RecursionLimit
  BY <1>1 DEF TypeInv, RestTyped
<1>3. /\ tasks' \in [Runs -> Seq(Nodes)]
      /\ \A q \in Runs : status'[q] \in [DOMAIN tasks'[q] -> TaskStatus]
  <2>1. CASE SendsStart(r)
    <3> DEFINE st == [i \in DOMAIN work[r].sends |-> "running"]
    <3>1. work[r].sends \in Seq(Nodes)
      BY DEF TypeInv, RestTyped
    <3>2. st \in [DOMAIN work[r].sends -> TaskStatus]
      BY DEF TaskStatus
    <3>3. tasks' = [tasks EXCEPT ![r] = work[r].sends] /\ status' = [status EXCEPT ![r] = st]
      BY <2>1 DEF SendsStart
    <3> HIDE DEF st
    <3> QED BY <3>1, <3>2, <3>3, TasksTyped
  <2>2. CASE NodesStart(r) \/ SendsSettled(r)
    BY <2>2, StartTyped DEF NodesStart, SendsSettled
  <2> QED BY <2>1, <2>2
<1>4. work' \in [Runs -> Work]
  <2>1. work \in [Runs -> Work]
    BY DEF TypeInv, RestTyped, Work
  <2>2. CASE work' = work
    BY <2>1, <2>2
  <2>3. CASE SendsSettled(r)
    <3>1. PICK pick \in Selections(r) :
            work' = [work EXCEPT ![r] = [next |-> @.next, sends |-> <<>>,
                                         route |-> Extend(NoRoute, pick)]]
      BY <2>3 DEF SendsSettled
    <3>2. NoRoute \in [nodes : Targets, sends : Seq(Nodes)]
      BY DEF NoRoute, Targets
    <3>3. Extend(NoRoute, pick) \in [nodes : Targets, sends : Seq(Nodes)]
      BY <3>2, SelectionTyped
    <3>4. work[r].next \in Targets /\ <<>> \in Seq(Nodes)
      BY <2>1 DEF Work
    <3> QED BY <2>1, <3>1, <3>3, <3>4 DEF Work
  <2> QED BY <2>2, <2>3 DEF SendsStart, NodesStart
<1> QED BY <1>1, <1>2, <1>3, <1>4 DEF TypeInv, RestTyped, Work

LEMMA NodeAsksTyped ==
  ASSUME TypeInv, NEW r \in Runs, NEW i, NodeAsks(r, i)
  PROVE  RestTyped'
<1>1. /\ UNCHANGED <<asker, step, work, tasks, upc, usnap, crashed, pc>>
      /\ SetStatus(r, i, "saving") \/ SetStatus(r, i, "asked")
      /\ Is(r, i, "running")
  BY DEF NodeAsks, endVars
<1>2. \A q \in Runs : status'[q] \in [DOMAIN tasks[q] -> TaskStatus]
  BY <1>1, StatusTyped DEF TaskStatus
<1>3. \A j \in Steps : \/ history'[j] = NoCheckpoint
                     \/ (history'[j] \in Checkpoint /\ history'[j].step = j)
  <2>1. CASE history' = history
    BY <2>1 DEF TypeInv, RestTyped
  <2>2. CASE Put(step[r], state[r], <<NodeOf(r, i)>>, <<>>)
    <3>1. NodeOf(r, i) \in Nodes
      BY <1>1 DEF Is, NodeOf, TypeInv, RestTyped
    <3>2. step[r] \in Steps /\ state[r] \in State /\ <<NodeOf(r, i)>> \in Targets /\ <<>> \in Seq(Nodes)
      BY <3>1 DEF TypeInv, RestTyped, CountInv, CountTypes, Targets
    <3> QED BY <2>2, <3>2, PutTyped
  <2> QED BY <2>1, <2>2 DEF NodeAsks
<1> QED BY <1>1, <1>2, <1>3 DEF TypeInv, RestTyped

LEMMA TaskEndsTyped ==
  ASSUME TypeInv, NEW r \in Runs, NEW i, TaskReturns(r, i) \/ TaskThrows(r, i)
  PROVE  RestTyped'
<1>1. /\ UNCHANGED <<history, asker, step, work, tasks, upc, usnap, crashed, pc>>
      /\ SetStatus(r, i, "ok") \/ SetStatus(r, i, "failed")
  BY DEF TaskReturns, TaskThrows, endVars
<1>2. \A q \in Runs : status'[q] \in [DOMAIN tasks[q] -> TaskStatus]
  BY <1>1, StatusTyped DEF TaskStatus
<1> QED BY <1>1, <1>2, RestQuiet DEF TypeInv, RestTyped

LEMMA NodeRecordedTyped ==
  ASSUME TypeInv, NEW r \in Runs, NEW i, NodeRecorded(r, i)
  PROVE  RestTyped'
<1>1. /\ UNCHANGED <<history, step, work, tasks, upc, usnap, crashed, pc>>
      /\ SetStatus(r, i, "asked") /\ Is(r, i, "saving")
      /\ asker' = [asker EXCEPT ![r] = NodeOf(r, i)]
  BY DEF NodeRecorded
<1>2. \A q \in Runs : status'[q] \in [DOMAIN tasks[q] -> TaskStatus]
  BY <1>1, StatusTyped DEF TaskStatus
<1>3. NodeOf(r, i) \in Nodes
  BY <1>1 DEF Is, NodeOf, TypeInv, RestTyped
<1>4. asker' \in [Runs -> Nodes \cup {Start}]
  BY <1>1, <1>3 DEF TypeInv, RestTyped
<1> QED BY <1>1, <1>2, <1>4 DEF TypeInv, RestTyped

LEMMA NodesSettledTyped ==
  ASSUME TypeInv, NEW r \in Runs, NodesSettled(r)
  PROVE  RestTyped'
<1>1. UNCHANGED <<asker, upc, usnap, crashed>> /\ step[r] < RecursionLimit
  BY DEF NodesSettled, TypeInv, RestTyped
<1>2. /\ work \in [Runs -> Work] /\ step \in [Runs -> Steps]
      /\ work[r].route \in [nodes : Targets, sends : Seq(Nodes)]
  BY DEF TypeInv, RestTyped, Work
<1>3. PICK pick \in Selections(r) :
        \/ Pauses(r, Extend(work[r].route, pick))
        \/ GoesOn(r, Extend(work[r].route, pick))
  BY DEF NodesSettled
<1>4. PICK route \in [nodes : Targets, sends : Seq(Nodes)] : Pauses(r, route) \/ GoesOn(r, route)
  BY <1>2, <1>3, SelectionTyped
<1>5. /\ Applied(r) \in State /\ step[r] \in Steps /\ step[r] + 1 \in Steps
      /\ route.nodes \in Targets /\ route.sends \in Seq(Nodes) /\ Dedup(route.nodes) \in Targets
  <2>1. step[r] + 1 \in Steps
    BY <1>1, <1>2, PregelThreadAssumption DEF Steps
  <2> QED BY <1>2, <1>4, <2>1, RunEarned, DedupTyped DEF TypeInv, Earned
<1>6. \A q \in Runs : pc'[q] \in {"sends", "nodes"} => q # r /\ pc[q] \in {"sends", "nodes"}
  BY <1>4 DEF Pauses, Finish, GoesOn, TypeInv, CountInv, CountTypes
<1>7. CASE Pauses(r, route)
  <2>1. /\ UNCHANGED <<step, work, tasks, status>>
        /\ Put(step[r], Applied(r), route.nodes, route.sends)
    BY <1>7 DEF Pauses
  <2>2. \A j \in Steps : \/ history'[j] = NoCheckpoint
                       \/ (history'[j] \in Checkpoint /\ history'[j].step = j)
    BY <1>5, <2>1, PutTyped
  <2> QED BY <1>1, <1>6, <2>1, <2>2 DEF TypeInv, RestTyped
<1>8. CASE GoesOn(r, route)
  <2> DEFINE w == [next |-> Dedup(route.nodes), sends |-> route.sends, route |-> NoRoute]
  <2>1. /\ Put(step[r] + 1, Applied(r), Dedup(route.nodes), route.sends)
        /\ step' = [step EXCEPT ![r] = @ + 1] /\ work' = [work EXCEPT ![r] = w]
        /\ tasks' = [tasks EXCEPT ![r] = <<>>] /\ status' = [status EXCEPT ![r] = <<>>]
    BY <1>8 DEF GoesOn
  <2>2. \A j \in Steps : \/ history'[j] = NoCheckpoint
                       \/ (history'[j] \in Checkpoint /\ history'[j].step = j)
    BY <1>5, <2>1, PutTyped
  <2>3. step' \in [Runs -> Steps] /\ \A q \in Runs \ {r} : step'[q] = step[q]
    BY <1>2, <1>5, <2>1
  <2>4. w \in Work
    BY <1>5 DEF Work, NoRoute, Targets
  <2>5. work' \in [Runs -> Work]
    <3> HIDE DEF w
    <3> QED BY <1>2, <2>1, <2>4
  <2>6. <<>> \in Seq(Nodes) /\ <<>> \in [DOMAIN <<>> -> TaskStatus]
    OBVIOUS
  <2>7. /\ tasks' \in [Runs -> Seq(Nodes)]
        /\ \A q \in Runs : status'[q] \in [DOMAIN tasks'[q] -> TaskStatus]
    BY <2>1, <2>6, TasksTyped
  <2>8. \A q \in Runs : pc'[q] \in {"sends", "nodes"} => step'[q] < RecursionLimit
    BY <1>6, <2>3 DEF TypeInv, RestTyped
  <2> QED BY <1>1, <2>2, <2>3, <2>5, <2>7, <2>8 DEF TypeInv, RestTyped, Work
<1> QED BY <1>4, <1>7, <1>8

LEMMA UpdatesTyped ==
  ASSUME TypeInv, NEW u \in Updates, UpdateReads(u) \/ UpdateWrites(u)
  PROVE  RestTyped'
<1>1. UNCHANGED <<asker, step, work, tasks, status, pc, crashed>>
  BY DEF UpdateReads, UpdateWrites, superstepVars, endVars
<1>2. CASE UpdateReads(u)
  <2>1. /\ UNCHANGED history /\ usnap' = [usnap EXCEPT ![u] = Latest]
        /\ upc' = [upc EXCEPT ![u] = IF Latest = NoCheckpoint THEN "skipped" ELSE "reading"]
    BY <1>2 DEF UpdateReads
  <2>2. Latest \in Checkpoint \cup {NoCheckpoint}
    BY LatestLast
  <2> QED BY <1>1, <2>1, <2>2 DEF TypeInv, RestTyped, CountInv, CountTypes
<1>3. CASE UpdateWrites(u)
  <2> DEFINE cp == usnap[u]
             st == [cp.state EXCEPT !.patches = @ \cup {u}]
  <2>1. /\ upc[u] = "reading" /\ upc' = [upc EXCEPT ![u] = "written"] /\ usnap' = usnap
        /\ Put(cp.step, st, cp.next, cp.sends)
    BY <1>3 DEF UpdateWrites
  <2>2. cp \in Checkpoint
    BY <2>1 DEF TypeInv, RestTyped
  <2>3. cp.step \in Steps /\ st \in State /\ cp.next \in Targets /\ cp.sends \in Seq(Nodes)
    BY <2>2 DEF Checkpoint, State
  <2>4. \A j \in Steps : \/ history'[j] = NoCheckpoint
                       \/ (history'[j] \in Checkpoint /\ history'[j].step = j)
    <3> HIDE DEF cp, st
    <3> QED BY <2>1, <2>3, PutTyped
  <2> QED BY <1>1, <2>1, <2>4 DEF TypeInv, RestTyped
<1> QED BY <1>2, <1>3

LEMMA RestInit == Init => RestTyped
<1> SUFFICES ASSUME Init PROVE RestTyped
  OBVIOUS
<1>1. NoWork \in Work
  BY DEF NoWork, NoRoute, Work, Targets
<1>2. 0 \in Steps
  <2>1. RecursionLimit \in Nat
    BY PregelThreadAssumption
  <2> QED BY <2>1 DEF Steps
<1>3. asker \in [Runs -> Nodes \cup {Start}] /\ step \in [Runs -> Steps] /\ work \in [Runs -> Work]
  BY <1>1, <1>2 DEF Init
<1>4. /\ tasks \in [Runs -> Seq(Nodes)]
      /\ \A r \in Runs : status[r] \in [DOMAIN tasks[r] -> TaskStatus]
  <2>1. <<>> \in Seq(Nodes) /\ <<>> \in [DOMAIN <<>> -> TaskStatus]
    OBVIOUS
  <2> QED BY <2>1 DEF Init
<1>5. /\ upc \in [Updates -> {"idle", "reading", "written", "skipped"}]
      /\ \A u \in Updates : usnap[u] = NoCheckpoint /\ upc[u] = "idle"
      /\ \A r \in Runs : pc[r] = "idle"
      /\ crashed \in BOOLEAN /\ \A k \in Steps : history[k] = NoCheckpoint
  BY DEF Init
<1> QED BY <1>3, <1>4, <1>5 DEF RestTyped, Work

LEMMA RestNext == TypeInv /\ [Next]_vars => RestTyped'
<1> SUFFICES ASSUME TypeInv, [Next]_vars PROVE RestTyped'
  OBVIOUS
<1>1. CASE UNCHANGED vars
  BY <1>1, RestQuiet DEF vars, superstepVars, endVars, TypeInv, RestTyped
<1>2. ASSUME NEW r \in Runs, Invoke(r) \/ (\E s \in Runs : Resume(r, s)) PROVE RestTyped'
  BY <1>2, LoadTyped DEF Invoke, Resume
<1>3. ASSUME NEW r \in Runs,
             LimitReached(r) \/ Returns(r) \/ SendsFailed(r) \/ NodesFailed(r)
      PROVE  RestTyped'
  BY <1>3, FinishTyped DEF LimitReached, Returns, SendsFailed, NodesFailed
<1>4. ASSUME NEW r \in Runs, SendsStart(r) \/ NodesStart(r) \/ SendsSettled(r) PROVE RestTyped'
  BY <1>4, SuperstepTyped
<1>5. ASSUME NEW r \in Runs, NodesSettled(r) PROVE RestTyped'
  BY <1>5, NodesSettledTyped
<1>6. ASSUME NEW r \in Runs, NEW i, TaskReturns(r, i) \/ TaskThrows(r, i) PROVE RestTyped'
  BY <1>6, TaskEndsTyped
<1>7. ASSUME NEW r \in Runs, NEW i, NodeAsks(r, i) \/ NodeRecorded(r, i) PROVE RestTyped'
  BY <1>7, NodeAsksTyped, NodeRecordedTyped
<1>8. ASSUME NEW u \in Updates, UpdateReads(u) \/ UpdateWrites(u) PROVE RestTyped'
  BY <1>8, UpdatesTyped
<1>9. ASSUME NEW s \in Runs, Expire(s) PROVE RestTyped'
  BY <1>9, RestQuiet DEF Expire, superstepVars, TypeInv, RestTyped
<1>10. ASSUME Crash PROVE RestTyped'
  <2>1. /\ UNCHANGED <<history, asker, step, work, tasks, status, usnap>> /\ crashed' = TRUE
        /\ pc' = [r \in Runs |-> IF Live(r) THEN "done" ELSE pc[r]]
        /\ upc' = [u \in Updates |-> IF upc[u] = "reading" THEN "skipped" ELSE upc[u]]
    BY <1>10 DEF Crash, superstepVars
  <2>2. \A r \in Runs : pc'[r] \in {"sends", "nodes"} => pc[r] \in {"sends", "nodes"}
    BY <2>1
  <2>3. upc' \in [Updates -> {"idle", "reading", "written", "skipped"}]
    BY <2>1 DEF TypeInv, RestTyped
  <2>4. \A u \in Updates : upc'[u] = "reading" => upc[u] = "reading"
    BY <2>1
  <2> QED BY <2>1, <2>2, <2>3, <2>4 DEF TypeInv, RestTyped
<1> QED BY <1>1, <1>2, <1>3, <1>4, <1>5, <1>6, <1>7, <1>8, <1>9, <1>10 DEF Next, Engine

LEMMA TypeInvariant == Spec => []TypeInv
<1>1. Init => TypeInv
  BY CountInit, AnswerInit, RestInit DEF TypeInv
<1>2. TypeInv /\ [Next]_vars => TypeInv'
  BY CountNext, AnswerNext, RestNext DEF TypeInv
<1> QED BY <1>1, <1>2, PTL DEF Spec

(* Checkpoints, routes and the tasks of a superstep stay well typed for     *)
(* every graph: streamSupersteps never saves a superstep past its limit,    *)
(* nor under another number than its own (streaming.ts:539).                *)
THEOREM ThreadTypeCorrect == Spec => []TypeOK
BY TypeInvariant, TypesTogether, PTL
-----------------------------------------------------------------------------
(* Histories of callers that do not overlap their calls *)

LEMMA CarriesOn ==
  ASSUME NEW a \in State, NEW b \in State, NEW c \in State, Carries(b, a), Carries(c, b)
  PROVE  Carries(c, a)
<1>1. ASSUME NEW n \in Nodes PROVE a.done[n] <= c.done[n]
  <2>1. a.done[n] \in Nat /\ b.done[n] \in Nat /\ c.done[n] \in Nat
    BY DEF State, Bag
  <2>2. a.done[n] <= b.done[n] /\ b.done[n] <= c.done[n]
    BY DEF Carries
  <2> QED BY <2>1, <2>2
<1>2. a.patches \subseteq c.patches
  BY DEF Carries
<1> QED BY <1>1, <1>2 DEF Carries

LEMMA CarriesItself ==
  ASSUME NEW a \in State
  PROVE  Carries(a, a)
<1>1. \A n \in Nodes : a.done[n] \in Nat
  BY DEF State, Bag
<1> QED BY <1>1 DEF Carries

LEMMA CommittedTyped ==
  ASSUME TypeInv
  PROVE  CommittedState \in State
<1>1. InitialState \in State
  BY DEF InitialState, State, Bag, NoResults
<1> QED BY <1>1, LatestLast DEF Checkpoint, CommittedState

(* Applying the waiting results adds to a state and takes nothing away.     *)
LEMMA AppliedCarries ==
  ASSUME TypeInv, NEW r \in Runs
  PROVE  /\ Applied(r) \in State /\ Carries(Applied(r), state[r])
         /\ \A n \in Nodes : Applied(r).done[n] = state[r].done[n] + fresh[r][n]
<1>1. state[r] \in State /\ fresh[r] \in Bag
  BY DEF TypeInv, CountInv, CountTypes
<1>2. /\ Applied(r) \in State
      /\ \A n \in Nodes : Applied(r).done[n] = state[r].done[n] + fresh[r][n]
  BY RunEarned DEF TypeInv, Earned
<1>3. Applied(r).patches = state[r].patches
  BY <1>1 DEF Applied, State
<1>4. \A n \in Nodes : state[r].done[n] \in Nat /\ fresh[r][n] \in Nat
  BY <1>1 DEF State, Bag
<1>5. \A n \in Nodes : state[r].done[n] <= Applied(r).done[n]
  BY <1>2, <1>4
<1> QED BY <1>2, <1>3, <1>5 DEF Carries

LEMMA SameHistory ==
  ASSUME UNCHANGED history
  PROVE  Latest' = Latest /\ CommittedState' = CommittedState /\ Saved' = Saved
<1>1. Saved' = Saved
  BY DEF Saved
<1>2. Latest' = Latest
  BY <1>1 DEF Latest
<1> QED BY <1>1, <1>2 DEF CommittedState

(* A checkpoint saved under the last superstep, or past it, is the latest.  *)
LEMMA PutLatest ==
  ASSUME TypeInv, NEW k \in Steps, NEW st \in State, NEW next \in Targets,
         NEW sends \in Seq(Nodes), Put(k, st, next, sends), \A j \in Saved : j <= k
  PROVE  /\ Saved' = Saved \cup {k}
         /\ Latest' = history'[k] /\ CommittedState' = st
         /\ history'[k].state = st
         /\ \A j \in Saved : j < k => history'[j] = history[j]
<1>1. /\ history'[k] = [step |-> k, state |-> st, next |-> next, sends |-> sends]
      /\ history'[k] # NoCheckpoint
      /\ \A j \in Steps \ {k} : history'[j] = history[j]
  BY PutTyped
<1>2. Saved' = Saved \cup {k}
  BY <1>1 DEF Saved
<1>3. Saved \subseteq Steps /\ Steps \subseteq Int
  BY PregelThreadAssumption DEF Saved, Steps
<1>4. \A j \in Saved' : j <= k
  BY <1>2, <1>3
<1>5. \A c \in Saved' : (\A j \in Saved' : j <= c) => c = k
  BY <1>2, <1>3, <1>4
<1>6. (CHOOSE c \in Saved' : \A j \in Saved' : j <= c) = k
  BY <1>2, <1>4, <1>5
<1>7. Latest' = history'[k]
  BY <1>2, <1>6 DEF Latest
<1>8. CommittedState' = st
  BY <1>1, <1>7 DEF CommittedState
<1>9. \A j \in Saved : j < k => history'[j] = history[j]
  BY <1>1, <1>3
<1> QED BY <1>1, <1>2, <1>7, <1>8, <1>9

(* Each checkpoint carries less than the committed state.                   *)
LEMMA SavedCarried ==
  ASSUME TypeInv, HistoryAccumulates, NEW j \in Saved
  PROVE  history[j].state \in State /\ Carries(CommittedState, history[j].state)
<1>1. PICK m \in Saved : (\A i \in Saved : i <= m) /\ CommittedState = history[m].state
  BY LatestLast
<1>2. Saved \subseteq Steps /\ Steps \subseteq Int
  BY PregelThreadAssumption DEF Saved, Steps
<1>3. history[j].state \in State
  BY DEF Saved, TypeInv, RestTyped, Checkpoint
<1>4. CASE j = m
  BY <1>1, <1>3, <1>4, CarriesItself
<1>5. CASE j # m
  <2>1. j < m
    BY <1>1, <1>2, <1>5
  <2> QED BY <1>1, <1>3, <2>1 DEF HistoryAccumulates, Carries
<1> QED BY <1>3, <1>4, <1>5

(* Saving a state that carries the committed one keeps the history growing. *)
LEMMA PutAccumulates ==
  ASSUME TypeInv, HistoryAccumulates, NEW k \in Steps, NEW st \in State, NEW next \in Targets,
         NEW sends \in Seq(Nodes), Put(k, st, next, sends), \A j \in Saved : j <= k,
         Carries(st, CommittedState)
  PROVE  HistoryAccumulates'
<1>1. /\ Saved' = Saved \cup {k} /\ history'[k].state = st
      /\ \A j \in Saved : j < k => history'[j] = history[j]
  BY PutLatest
<1>2. Saved \subseteq Steps /\ Steps \subseteq Int
  BY PregelThreadAssumption DEF Saved, Steps
<1>3. ASSUME NEW i \in Saved', NEW j \in Saved', i < j
      PROVE  Carries(history'[j].state, history'[i].state)
  <2>1. i \in Saved /\ i < k /\ j <= k /\ history'[i] = history[i]
    BY <1>1, <1>2, <1>3
  <2>2. CASE j = k
    <3>1. history[i].state \in State /\ Carries(CommittedState, history[i].state)
      BY <2>1, SavedCarried
    <3>2. Carries(st, history[i].state)
      BY <3>1, CommittedTyped, CarriesOn
    <3> QED BY <1>1, <2>1, <2>2, <3>2
  <2>3. CASE j # k
    <3>1. j \in Saved /\ j < k /\ history'[j] = history[j]
      BY <1>1, <1>2, <2>1, <2>3
    <3> QED BY <1>3, <2>1, <3>1 DEF HistoryAccumulates, Carries
  <2> QED BY <2>2, <2>3
<1> QED BY <1>3 DEF HistoryAccumulates, Carries

(* Steps that move no checkpoint, no run's state and no result.             *)
LEMMA HistQuiet ==
  ASSUME TypeInv, HistInv, UNCHANGED <<history, state, fresh, ran, usnap>>,
         \A r \in Runs : step'[r] = step[r],
         \A r \in Runs : pc'[r] \in {"begin", "sends", "nodes"} => Live(r),
         \A r \in Runs : pc'[r] \in {"idle", "begin"} => pc'[r] = pc[r],
         \A u \in Updates : upc'[u] \in {"reading", "written"} => upc'[u] = upc[u],
         NothingCut' => NothingCut,
         NothingCut' /\ (\A r \in Runs : pc'[r] \notin {"begin", "sends", "nodes"})
           => CommittedState.done = ran,
         Started'
  PROVE  HistInv'
<1>1. Latest' = Latest /\ CommittedState' = CommittedState /\ Saved' = Saved
  BY SameHistory
<1>2. Alone'
  BY DEF HistInv, Alone, Live
<1>3. Ahead'
  BY <1>1 DEF HistInv, Ahead, Live, Carries
<1>4. ReadsLatest'
  BY <1>1 DEF HistInv, ReadsLatest
<1>5. Exact'
  BY <1>1 DEF HistInv, Exact, Live
<1>6. HistoryAccumulates' /\ UpdatesKept'
  BY <1>1 DEF HistInv, HistoryAccumulates, UpdatesKept
<1> QED BY <1>2, <1>3, <1>4, <1>5, <1>6 DEF HistInv

(* A run ends at the start of a superstep, or cut short within one.         *)
LEMMA FinishKeepsHistory ==
  ASSUME TypeInv, HistInv, NEW r \in Runs, NEW how, FinishOnly(r, how),
         \/ Live(r) /\ how \in {"failed", "halted", "interrupted"}
         \/ pc[r] = "begin"
  PROVE  HistInv'
<1>1. /\ UNCHANGED <<history, state, fresh, ran, usnap, step, upc, status>>
      /\ pc' = [pc EXCEPT ![r] = "done"] /\ out' = [out EXCEPT ![r] = how]
  BY DEF FinishOnly, Finish, superstepVars
<1>2. DOMAIN pc = Runs /\ DOMAIN out = Runs /\ Live(r)
  BY DEF TypeInv, CountInv, CountTypes, AnswerInv, AnswerTypes, Live
<1>3. pc'[r] = "done" /\ \A q \in Runs \ {r} : pc'[q] = pc[q] /\ out'[q] = out[q]
  BY <1>1, <1>2
<1>4. out[r] = "none" /\ out'[r] = how
  <2>1. pc[r] # "done" /\ Started
    BY <1>2 DEF HistInv, Live
  <2> QED BY <1>1, <1>2, <2>1 DEF Started
<1>5. NothingCut' => NothingCut /\ pc[r] = "begin"
  BY <1>3, <1>4 DEF NothingCut
<1>6. ASSUME NothingCut' PROVE CommittedState.done = ran
  <2>1. state[r] = CommittedState /\ fresh[r] = NoResults
    BY <1>5, <1>6 DEF HistInv, Ahead
  <2>2. \A n \in Nodes : ran[n] = state[r].done[n] + fresh[r][n]
    BY <1>2, <1>5, <1>6 DEF HistInv, Exact
  <2>3. CommittedState.done \in [Nodes -> Nat] /\ ran \in [Nodes -> Nat]
    BY CommittedTyped DEF State, Bag, TypeInv, CountInv, CountTypes
  <2>4. \A n \in Nodes : ran[n] = CommittedState.done[n]
    BY <2>1, <2>2, <2>3 DEF NoResults
  <2> QED BY <2>3, <2>4
<1>7. Started'
  BY <1>1, <1>3 DEF HistInv, Started
<1> QED BY <1>1, <1>2, <1>3, <1>5, <1>6, <1>7, HistQuiet DEF Live

(* A run that starts is alone, and takes over the committed state.          *)
LEMMA LoadKeepsHistory ==
  ASSUME TypeInv, HistInv, NEW r \in Runs, pc[r] = "idle", Load(r),
         \A q \in Runs : ~Live(q), \A u \in Updates : upc[u] # "reading"
  PROVE  HistInv'
<1>1. /\ UNCHANGED <<history, fresh, ran, usnap, upc, status, out>>
      /\ pc' = [pc EXCEPT ![r] = "begin"]
  BY DEF Load
<1>2. Latest' = Latest /\ CommittedState' = CommittedState /\ Saved' = Saved
  BY <1>1, SameHistory
<1>3. /\ pc'[r] = "begin"
      /\ \A q \in Runs \ {r} : pc'[q] = pc[q] /\ pc'[q] \notin {"begin", "sends", "nodes"}
  BY <1>1 DEF TypeInv, CountInv, CountTypes, Live
<1>4. /\ state'[r] = CommittedState /\ \A q \in Runs \ {r} : state'[q] = state[q]
      /\ \A k \in Saved : k <= step'[r]
  <2>1. step \in [Runs -> Steps] /\ state \in [Runs -> State]
    BY DEF TypeInv, RestTyped, CountInv, CountTypes
  <2>2. CASE Latest = NoCheckpoint
    <3>1. Saved = {} /\ CommittedState = InitialState
      BY <2>2, LatestLast
    <3>2. state' = state /\ state[r] = InitialState
      BY <2>2 DEF Load, HistInv, Ahead
    <3> QED BY <3>1, <3>2
  <2>3. CASE Latest # NoCheckpoint
    <3>1. step' = [step EXCEPT ![r] = Latest.step] /\ state' = [state EXCEPT ![r] = Latest.state]
      BY <2>3 DEF Load
    <3>2. \A k \in Saved : k <= Latest.step
      BY <2>3, LatestLast
    <3> QED BY <2>1, <2>3, <3>1, <3>2 DEF CommittedState
  <2> QED BY <2>2, <2>3
<1>5. fresh'[r] = NoResults
  BY <1>1 DEF TypeInv, CountInv, NothingFreshBefore
<1>6. Alone'
  BY <1>1, <1>3 DEF Alone, Live
<1>7. Started'
  BY <1>1, <1>3 DEF HistInv, Started
<1>8. Carries(state'[r], CommittedState)
  BY <1>4, CommittedTyped, CarriesItself
<1>9. Ahead'
  BY <1>2, <1>3, <1>4, <1>5, <1>8 DEF HistInv, Ahead, Live, Carries
<1>10. ReadsLatest'
  BY <1>1 DEF ReadsLatest
<1>11. Exact'
  <2> SUFFICES ASSUME NothingCut' PROVE \A n \in Nodes : ran[n] = state'[r].done[n] + fresh'[r][n]
    BY <1>1, <1>3 DEF Exact, Live
  <2>1. CommittedState.done = ran
    BY <1>1 DEF NothingCut, HistInv, Exact
  <2>2. ran \in [Nodes -> Nat]
    BY DEF TypeInv, CountInv, CountTypes, Bag
  <2> QED BY <1>4, <1>5, <2>1, <2>2 DEF NoResults
<1>12. HistoryAccumulates' /\ UpdatesKept'
  BY <1>1, <1>2 DEF HistInv, HistoryAccumulates, UpdatesKept
<1> QED BY <1>6, <1>7, <1>9, <1>10, <1>11, <1>12 DEF HistInv

LEMMA TaskReturnsKeepsHistory ==
  ASSUME TypeInv, HistInv, NEW r \in Runs, NEW i, Live(r), TaskReturns(r, i)
  PROVE  HistInv'
<1> DEFINE m == NodeOf(r, i)
<1>1. /\ UNCHANGED <<history, state, step, pc, out, upc, usnap>> /\ Is(r, i, "running")
      /\ SetStatus(r, i, "ok")
      /\ fresh' = [fresh EXCEPT ![r][m] = @ + 1]
      /\ ran' = [ran EXCEPT ![m] = @ + 1]
  BY DEF TaskReturns, endVars
<1>2. Latest' = Latest /\ CommittedState' = CommittedState /\ Saved' = Saved
  BY <1>1, SameHistory
<1>3. pc[r] # "begin"
  <2>1. pc[r] = "begin" => status[r] = <<>>
    BY DEF HistInv, Started
  <2>2. DOMAIN <<>> = {}
    OBVIOUS
  <2>3. i \in DOMAIN status[r]
    BY <1>1 DEF Is
  <2> QED BY <2>1, <2>2, <2>3
<1>4. /\ status = [q \in Runs |-> status[q]] /\ fresh \in [Runs -> [Nodes -> Nat]]
      /\ ran \in [Nodes -> Nat] /\ state \in [Runs -> State]
  BY DEF TypeInv, AnswerInv, AnswerTypes, CountInv, CountTypes, Bag
<1>5. \A q \in Runs \ {r} : status'[q] = status[q] /\ fresh'[q] = fresh[q]
  BY <1>1, <1>4 DEF SetStatus
<1>6. Alone' /\ Started'
  BY <1>1, <1>3, <1>5 DEF HistInv, Alone, Started, Live
<1>7. Ahead'
  BY <1>1, <1>2, <1>3, <1>5 DEF HistInv, Ahead, Live, Carries
<1>8. ReadsLatest'
  BY <1>1, <1>2 DEF HistInv, ReadsLatest
<1>9. \A n \in Nodes : ran'[n] = IF n = m THEN ran[n] + 1 ELSE ran[n]
  BY <1>1, <1>4, Bump
<1>10. \A n \in Nodes : fresh'[r][n] = IF n = m THEN fresh[r][n] + 1 ELSE fresh[r][n]
  <2>1. fresh'[r] = [fresh[r] EXCEPT ![m] = @ + 1] /\ fresh[r] \in [Nodes -> Nat]
    BY <1>1, <1>4
  <2> QED BY <2>1, Bump
<1>11. Exact'
  <2> SUFFICES ASSUME NothingCut', NEW n \in Nodes
               PROVE  ran'[n] = state'[r].done[n] + fresh'[r][n]
    BY <1>1 DEF HistInv, Alone, Exact, Live
  <2>1. ran[n] = state[r].done[n] + fresh[r][n]
    BY <1>1 DEF NothingCut, HistInv, Exact
  <2>2. ran[n] \in Nat /\ state[r].done[n] \in Nat /\ fresh[r][n] \in Nat
    BY <1>4 DEF State, Bag
  <2> QED BY <1>1, <1>9, <1>10, <2>1, <2>2
<1>12. HistoryAccumulates' /\ UpdatesKept'
  BY <1>1, <1>2 DEF HistInv, HistoryAccumulates, UpdatesKept
<1> QED BY <1>6, <1>7, <1>8, <1>11, <1>12 DEF HistInv

(* An interrupt() saves the live run's state as it was before the nodes.    *)
LEMMA NodeAsksKeepsHistory ==
  ASSUME TypeInv, HistInv, NEW r \in Runs, NEW i, NodeAsks(r, i)
  PROVE  HistInv'
<1>1. /\ UNCHANGED <<state, fresh, ran, usnap, upc, step, pc, out>> /\ pc[r] = "nodes"
      /\ Is(r, i, "running")
      /\ SetStatus(r, i, "saving") \/ SetStatus(r, i, "asked")
  BY DEF NodeAsks, endVars
<1>2. Live(r) /\ status = [q \in Runs |-> status[q]]
  BY <1>1 DEF Live, TypeInv, AnswerInv, AnswerTypes
<1>3. Started'
  BY <1>1, <1>2 DEF HistInv, Started, SetStatus
<1>4. CASE history' = history
  BY <1>1, <1>2, <1>3, <1>4, HistQuiet DEF Live, NothingCut
<1>5. CASE Put(step[r], state[r], <<NodeOf(r, i)>>, <<>>)
  <2>1. NodeOf(r, i) \in Nodes
    BY <1>1 DEF Is, NodeOf, TypeInv, RestTyped
  <2>2. step[r] \in Steps /\ state[r] \in State /\ <<NodeOf(r, i)>> \in Targets /\ <<>> \in Seq(Nodes)
    BY <2>1 DEF TypeInv, RestTyped, CountInv, CountTypes, Targets
  <2>3. (\A k \in Saved : k <= step[r]) /\ Carries(state[r], CommittedState)
    BY <1>2 DEF HistInv, Ahead
  <2>4. Saved' = Saved \cup {step[r]} /\ CommittedState' = state[r]
    BY <1>5, <2>2, <2>3, PutLatest
  <2>5. HistoryAccumulates'
    BY <1>5, <2>2, <2>3, PutAccumulates DEF HistInv
  <2>6. Alone' /\ ReadsLatest' /\ Exact' /\ UpdatesKept'
    BY <1>1, <1>2, <2>3, <2>4 DEF HistInv, Alone, ReadsLatest, Exact, NothingCut, UpdatesKept,
                                  Carries, Live
  <2>7. Ahead'
    <3>1. \A q \in Runs : Live(q) => q = r
      BY <1>2 DEF HistInv, Alone
    <3>2. Carries(state[r], state[r]) /\ step[r] <= step[r]
      BY <2>2, CarriesItself, PregelThreadAssumption DEF Steps
    <3> QED BY <1>1, <2>3, <2>4, <3>1, <3>2 DEF HistInv, Ahead, Live, Carries
  <2> QED BY <1>3, <2>5, <2>6, <2>7 DEF HistInv
<1> QED BY <1>4, <1>5 DEF NodeAsks

(* The Sends' results move into the run's state; nothing is saved yet.      *)
LEMMA SendsSettledKeepsHistory ==
  ASSUME TypeInv, HistInv, NEW r \in Runs, SendsSettled(r)
  PROVE  HistInv'
<1>1. /\ UNCHANGED <<history, ran, usnap, upc, step, out>> /\ pc[r] = "sends"
      /\ pc' = [pc EXCEPT ![r] = "nodes"]
      /\ state' = [state EXCEPT ![r] = Applied(r)]
      /\ fresh' = [fresh EXCEPT ![r] = NoResults]
      /\ \E st : status' = [status EXCEPT ![r] = st]
  BY DEF SendsSettled, StartNodes, ResultsTaken
<1>2. Latest' = Latest /\ CommittedState' = CommittedState /\ Saved' = Saved
  BY <1>1, SameHistory
<1>3. /\ Live(r) /\ pc'[r] = "nodes" /\ state'[r] = Applied(r) /\ fresh'[r] = NoResults
      /\ \A q \in Runs \ {r} : /\ pc'[q] = pc[q] /\ state'[q] = state[q]
                              /\ fresh'[q] = fresh[q] /\ status'[q] = status[q]
  BY <1>1 DEF Live, TypeInv, CountInv, CountTypes, AnswerInv, AnswerTypes
<1>4. Alone' /\ Started'
  BY <1>1, <1>3 DEF HistInv, Alone, Started, Live
<1>5. Carries(state'[r], CommittedState)
  <2>1. state[r] \in State /\ Carries(state[r], CommittedState)
    BY <1>3 DEF TypeInv, CountInv, CountTypes, HistInv, Ahead
  <2>2. Applied(r) \in State /\ Carries(Applied(r), state[r])
    BY AppliedCarries
  <2> QED BY <1>3, <2>1, <2>2, CommittedTyped, CarriesOn
<1>6. Ahead'
  BY <1>1, <1>2, <1>3, <1>5 DEF HistInv, Ahead, Live, Carries
<1>7. ReadsLatest'
  BY <1>1, <1>2 DEF HistInv, ReadsLatest
<1>8. Exact'
  <2> SUFFICES ASSUME NothingCut', NEW n \in Nodes
               PROVE  ran[n] = state'[r].done[n] + fresh'[r][n]
    BY <1>1, <1>3 DEF HistInv, Alone, Exact, Live
  <2>1. ran[n] = state[r].done[n] + fresh[r][n]
    BY <1>1, <1>3 DEF NothingCut, HistInv, Exact
  <2>2. state'[r].done[n] = state[r].done[n] + fresh[r][n]
    BY <1>3, AppliedCarries
  <2>3. ran[n] \in Nat
    BY DEF TypeInv, CountInv, CountTypes, Bag
  <2> QED BY <1>3, <2>1, <2>2, <2>3 DEF NoResults
<1>9. HistoryAccumulates' /\ UpdatesKept'
  BY <1>1, <1>2 DEF HistInv, HistoryAccumulates, UpdatesKept
<1> QED BY <1>4, <1>6, <1>7, <1>8, <1>9 DEF HistInv

(* A superstep ends: its results are applied and saved, under its own       *)
(* number when it pauses, under the next when it goes on.                   *)
LEMMA NodesSettledKeepsHistory ==
  ASSUME TypeInv, HistInv, NEW r \in Runs, NodesSettled(r)
  PROVE  HistInv'
<1>1. /\ UNCHANGED <<ran, usnap, upc>> /\ pc[r] = "nodes"
      /\ fresh' = [fresh EXCEPT ![r] = NoResults] /\ step[r] < RecursionLimit
  BY DEF NodesSettled, ResultsTaken, TypeInv, RestTyped
<1>2. PICK route \in [nodes : Targets, sends : Seq(Nodes)] : Pauses(r, route) \/ GoesOn(r, route)
  <2>1. work[r].route \in [nodes : Targets, sends : Seq(Nodes)]
    BY DEF TypeInv, RestTyped
  <2>2. PICK pick \in Selections(r) :
          \/ Pauses(r, Extend(work[r].route, pick))
          \/ GoesOn(r, Extend(work[r].route, pick))
    BY DEF NodesSettled
  <2> QED BY <2>1, <2>2, SelectionTyped
<1>3. PICK k \in {step[r], step[r] + 1}, next \in Targets, sends \in Seq(Nodes) :
        /\ Put(k, Applied(r), next, sends)
        /\ \/ k = step[r] /\ Pauses(r, route)
           \/ k = step[r] + 1 /\ GoesOn(r, route)
  BY <1>2, DedupTyped DEF Pauses, GoesOn
<1>4. /\ step[r] \in Steps /\ k \in Steps /\ Steps \subseteq Int
      /\ step \in [Runs -> Steps] /\ state \in [Runs -> State]
  <2>1. step \in [Runs -> Steps] /\ state \in [Runs -> State] /\ RecursionLimit \in Nat
    BY PregelThreadAssumption DEF TypeInv, RestTyped, CountInv, CountTypes
  <2> QED BY <1>1, <1>3, <2>1 DEF Steps
<1>5. Live(r) /\ (\A j \in Saved : j <= step[r]) /\ Carries(state[r], CommittedState)
  BY <1>1 DEF Live, HistInv, Ahead
<1>6. Saved \subseteq Steps
  BY DEF Saved
<1>7. \A j \in Saved : j <= k
  <2>1. step[r] \in Int
    BY <1>4
  <2>2. k = step[r] \/ k = step[r] + 1
    BY <1>3
  <2>3. \A j \in Saved : j \in Int /\ j <= step[r]
    BY <1>4, <1>5, <1>6
  <2> QED BY <2>1, <2>2, <2>3
<1>8. Applied(r) \in State /\ Carries(Applied(r), state[r]) /\ Carries(Applied(r), CommittedState)
  BY <1>4, <1>5, AppliedCarries, CommittedTyped, CarriesOn
<1>9. Saved' = Saved \cup {k} /\ CommittedState' = Applied(r)
  BY <1>3, <1>4, <1>7, <1>8, PutLatest
<1>10. HistoryAccumulates'
  BY <1>3, <1>4, <1>7, <1>8, PutAccumulates DEF HistInv
<1>11. UpdatesKept'
  BY <1>1, <1>8, <1>9 DEF HistInv, UpdatesKept, Carries
<1>12. \A q \in Runs \ {r} : ~Live(q) /\ \A u \in Updates : upc[u] # "reading"
  BY <1>5 DEF HistInv, Alone
<1>13. ReadsLatest'
  BY <1>1, <1>5 DEF HistInv, Alone, ReadsLatest
<1>14. /\ fresh'[r] = NoResults
       /\ \A q \in Runs \ {r} : fresh'[q] = fresh[q]
  BY <1>1 DEF TypeInv, CountInv, CountTypes
<1>15. ASSUME NothingCut PROVE Applied(r).done = ran
  <2>1. \A n \in Nodes : ran[n] = state[r].done[n] + fresh[r][n]
    BY <1>5, <1>15 DEF HistInv, Exact
  <2>2. \A n \in Nodes : Applied(r).done[n] = ran[n]
    BY <2>1, AppliedCarries
  <2>3. ran \in [Nodes -> Nat] /\ Applied(r).done \in [Nodes -> Nat]
    BY <1>8 DEF TypeInv, CountInv, CountTypes, State, Bag
  <2> QED BY <2>2, <2>3
<1>16. CASE k = step[r] /\ Pauses(r, route)
  <2>1. /\ UNCHANGED <<step, state, status>>
        /\ pc' = [pc EXCEPT ![r] = "done"] /\ out' = [out EXCEPT ![r] = "paused"]
    BY <1>16 DEF Pauses, Finish
  <2>2. pc'[r] = "done" /\ \A q \in Runs \ {r} : pc'[q] = pc[q] /\ out'[q] = out[q]
    BY <2>1 DEF TypeInv, CountInv, CountTypes, AnswerInv, AnswerTypes
  <2>3. out[r] = "none"
    BY <1>1 DEF HistInv, Started
  <2>4. Alone' /\ Started'
    BY <1>1, <2>1, <2>2 DEF HistInv, Alone, Started, Live
  <2>5. Ahead'
    BY <1>12, <1>14, <2>1, <2>2 DEF HistInv, Ahead, Live
  <2>6. NothingCut' => NothingCut
    BY <2>2, <2>3 DEF NothingCut
  <2>7. Exact'
    BY <1>1, <1>9, <1>12, <1>15, <2>2, <2>6 DEF Exact, Live
  <2> QED BY <1>10, <1>11, <1>13, <2>4, <2>5, <2>7 DEF HistInv
<1>17. CASE k = step[r] + 1 /\ GoesOn(r, route)
  <2>1. /\ step' = [step EXCEPT ![r] = @ + 1] /\ state' = [state EXCEPT ![r] = Applied(r)]
        /\ status' = [status EXCEPT ![r] = <<>>] /\ pc' = [pc EXCEPT ![r] = "begin"]
        /\ out' = out
    BY <1>17 DEF GoesOn
  <2>2. /\ step'[r] = k /\ state'[r] = Applied(r) /\ pc'[r] = "begin" /\ status'[r] = <<>>
        /\ \A q \in Runs \ {r} : /\ pc'[q] = pc[q] /\ state'[q] = state[q]
                                /\ step'[q] = step[q] /\ status'[q] = status[q]
    BY <1>4, <1>17, <2>1 DEF TypeInv, CountInv, CountTypes, AnswerInv, AnswerTypes
  <2>3. Alone'
    BY <1>1, <1>12, <2>2 DEF HistInv, Alone, Live
  <2>4. Started'
    BY <1>1, <2>1, <2>2 DEF HistInv, Started
  <2>5. k <= k /\ \A j \in Saved' : j <= step'[r]
    BY <1>4, <1>7, <1>9, <2>2
  <2>6. Carries(state'[r], Applied(r))
    BY <1>8, <2>2, CarriesItself
  <2>7. Ahead'
    BY <1>9, <1>12, <1>14, <2>2, <2>5, <2>6 DEF HistInv, Ahead, Live, Carries
  <2>8. Exact'
    <3> SUFFICES ASSUME NothingCut', NEW n \in Nodes
                 PROVE  ran[n] = state'[r].done[n] + fresh'[r][n]
      BY <1>1, <1>12, <2>2 DEF Exact, Live
    <3>1. Applied(r).done = ran /\ ran[n] \in Nat
      BY <1>15, <2>1 DEF NothingCut, TypeInv, CountInv, CountTypes, Bag
    <3> QED BY <1>14, <2>2, <3>1 DEF NoResults
  <2> QED BY <1>10, <1>11, <1>13, <2>3, <2>4, <2>7, <2>8 DEF HistInv
<1> QED BY <1>3, <1>16, <1>17

(* updateState() reads the latest checkpoint and saves it with its patch;   *)
(* no run is live between the two.                                          *)
LEMMA UpdateReadsKeepsHistory ==
  ASSUME ~Overlap, TypeInv, HistInv, NEW u \in Updates, UpdateReads(u)
  PROVE  HistInv'
<1>1. /\ UNCHANGED <<history, state, fresh, ran, step, pc, out, status>>
      /\ upc' = [upc EXCEPT ![u] = IF Latest = NoCheckpoint THEN "skipped" ELSE "reading"]
      /\ usnap' = [usnap EXCEPT ![u] = Latest]
      /\ upc[u] = "idle" /\ Unlocked /\ \A r \in Runs : ~Live(r)
  BY DEF UpdateReads, superstepVars, endVars
<1>2. Latest' = Latest /\ CommittedState' = CommittedState /\ Saved' = Saved
  BY <1>1, SameHistory
<1>3. /\ \A v \in Updates \ {u} : upc'[v] = upc[v]
      /\ upc'[u] \in {"skipped", "reading"} /\ usnap'[u] = Latest
  BY <1>1 DEF TypeInv, CountInv, CountTypes
<1>4. Alone' /\ Started'
  BY <1>1, <1>3 DEF HistInv, Alone, Started, Live, Unlocked
<1>5. Ahead' /\ Exact'
  BY <1>1, <1>2 DEF HistInv, Ahead, Exact, NothingCut, Live, Carries
<1>6. ReadsLatest'
  BY <1>1, <1>2, <1>3 DEF ReadsLatest, Unlocked
<1>7. HistoryAccumulates' /\ UpdatesKept'
  BY <1>1, <1>2, <1>3 DEF HistInv, HistoryAccumulates, UpdatesKept
<1> QED BY <1>4, <1>5, <1>6, <1>7 DEF HistInv

LEMMA UpdateWritesKeepsHistory ==
  ASSUME TypeInv, HistInv, NEW u \in Updates, UpdateWrites(u)
  PROVE  HistInv'
<1> DEFINE st == [Latest.state EXCEPT !.patches = @ \cup {u}]
<1>1. /\ UNCHANGED <<state, fresh, ran, step, pc, out, status, usnap>>
      /\ upc' = [upc EXCEPT ![u] = "written"] /\ upc[u] = "reading"
      /\ Put(usnap[u].step, [usnap[u].state EXCEPT !.patches = @ \cup {u}],
             usnap[u].next, usnap[u].sends)
  BY DEF UpdateWrites, superstepVars, endVars
<1>2. usnap[u] = Latest /\ Latest # NoCheckpoint
  BY <1>1 DEF HistInv, ReadsLatest, TypeInv, RestTyped
<1>3. /\ Latest \in Checkpoint /\ CommittedState = Latest.state
      /\ \A j \in Saved : j <= Latest.step
  BY <1>2, LatestLast DEF CommittedState
<1>4. /\ Latest.step \in Steps /\ Latest.next \in Targets /\ Latest.sends \in Seq(Nodes)
      /\ Latest.state \in State
  BY <1>3 DEF Checkpoint
<1>5. st \in State /\ st.done = Latest.state.done /\ st.patches = Latest.state.patches \cup {u}
  BY <1>4 DEF State
<1>6. Carries(st, CommittedState)
  <2>1. \A n \in Nodes : Latest.state.done[n] \in Nat
    BY <1>4 DEF State, Bag
  <2> QED BY <1>3, <1>5, <2>1 DEF Carries
<1>7. Put(Latest.step, st, Latest.next, Latest.sends)
  BY <1>1, <1>2
<1> HIDE DEF st
<1>8. CommittedState' = st
  BY <1>3, <1>4, <1>5, <1>7, PutLatest
<1>9. HistoryAccumulates'
  BY <1>3, <1>4, <1>5, <1>6, <1>7, PutAccumulates DEF HistInv
<1>10. upc'[u] = "written" /\ \A v \in Updates \ {u} : upc'[v] = upc[v] /\ upc[v] # "reading"
  BY <1>1 DEF TypeInv, CountInv, CountTypes, HistInv, Alone
<1>11. UpdatesKept'
  BY <1>3, <1>5, <1>8, <1>10 DEF HistInv, UpdatesKept
<1>12. \A r \in Runs : ~Live(r)
  BY <1>1 DEF HistInv, Alone
<1>13. Alone' /\ Started' /\ ReadsLatest'
  BY <1>1, <1>10, <1>12 DEF HistInv, Alone, Started, ReadsLatest, Live
<1>14. Ahead'
  BY <1>1, <1>12 DEF HistInv, Ahead, Live
<1>15. Exact'
  BY <1>1, <1>3, <1>5, <1>8, <1>12 DEF HistInv, Exact, NothingCut, Live
<1> QED BY <1>9, <1>11, <1>13, <1>14, <1>15 DEF HistInv

LEMMA CrashKeepsHistory ==
  ASSUME TypeInv, HistInv, Crash
  PROVE  HistInv'
<1>1. /\ UNCHANGED <<history, state, fresh, ran, usnap, step, status>>
      /\ pc' = [r \in Runs |-> IF Live(r) THEN "done" ELSE pc[r]]
      /\ out' = [r \in Runs |-> IF Live(r) THEN "crashed" ELSE out[r]]
      /\ upc' = [u \in Updates |-> IF upc[u] = "reading" THEN "skipped" ELSE upc[u]]
  BY DEF Crash, superstepVars
<1>2. \A r \in Runs : IF Live(r) THEN pc'[r] = "done" /\ out'[r] = "crashed"
                                 ELSE pc'[r] = pc[r] /\ out'[r] = out[r]
  BY <1>1
<1>3. /\ \A r \in Runs : pc'[r] \notin {"begin", "sends", "nodes"}
      /\ \A r \in Runs : pc'[r] \in {"idle", "begin"} => pc'[r] = pc[r]
  BY <1>2 DEF Live
<1>4. \A u \in Updates : upc'[u] \in {"reading", "written"} => upc'[u] = upc[u]
  BY <1>1
<1>5. NothingCut' => NothingCut /\ \A r \in Runs : ~Live(r)
  BY <1>2 DEF NothingCut
<1>6. NothingCut' => CommittedState.done = ran
  BY <1>5 DEF HistInv, Exact
<1>7. Started'
  BY <1>1, <1>2 DEF HistInv, Started, Live
<1> QED BY <1>1, <1>3, <1>4, <1>5, <1>6, <1>7, HistQuiet

LEMMA HistInit == Init => HistInv
<1> SUFFICES ASSUME Init PROVE HistInv
  OBVIOUS
<1>1. Saved = {} /\ Latest = NoCheckpoint /\ CommittedState = InitialState
  BY DEF Init, Saved, Latest, CommittedState
<1>2. \A r \in Runs : pc[r] = "idle" /\ state[r] = InitialState /\ out[r] = "none" /\ status[r] = <<>>
  BY DEF Init
<1>3. \A u \in Updates : upc[u] = "idle"
  BY DEF Init
<1>4. CommittedState.done = ran
  BY <1>1 DEF Init, InitialState
<1> QED BY <1>1, <1>2, <1>3, <1>4 DEF HistInv, Alone, Started, Ahead, ReadsLatest, Exact,
             HistoryAccumulates, UpdatesKept, Live

LEMMA HistNext == ~Overlap /\ TypeInv /\ HistInv /\ [Next]_vars => HistInv'
<1> SUFFICES ASSUME ~Overlap, TypeInv, HistInv, [Next]_vars PROVE HistInv'
  OBVIOUS
<1>0. /\ pc = [r \in Runs |-> pc[r]] /\ status = [r \in Runs |-> status[r]]
      /\ NothingCut /\ (\A r \in Runs : ~Live(r)) => CommittedState.done = ran
  BY DEF TypeInv, CountInv, CountTypes, AnswerInv, AnswerTypes, HistInv, Exact
<1>1. CASE UNCHANGED vars
  BY <1>0, <1>1, HistQuiet DEF vars, superstepVars, endVars, Live, NothingCut, HistInv, Started
<1>2. ASSUME NEW r \in Runs, Invoke(r) \/ (\E s \in Runs : Resume(r, s)) PROVE HistInv'
  BY <1>2, LoadKeepsHistory DEF Invoke, Resume, IsNext, Undisturbed
<1>3. ASSUME NEW r \in Runs,
             LimitReached(r) \/ Returns(r) \/ SendsFailed(r) \/ NodesFailed(r)
      PROVE  HistInv'
  BY <1>3, FinishKeepsHistory DEF LimitReached, Returns, SendsFailed, NodesFailed, Within, Live
<1>4. ASSUME NEW r \in Runs, SendsStart(r) \/ NodesStart(r) PROVE HistInv'
  <2>1. /\ UNCHANGED <<history, state, fresh, ran, usnap, step, out, upc>>
        /\ pc[r] = "begin"
        /\ \E p \in {"sends", "nodes"} : pc' = [pc EXCEPT ![r] = p]
        /\ \E st : status' = [status EXCEPT ![r] = st]
    BY <1>4 DEF SendsStart, NodesStart, StartNodes, Within
  <2>2. /\ Live(r) /\ pc'[r] \in {"sends", "nodes"}
        /\ \A q \in Runs \ {r} : pc'[q] = pc[q] /\ status'[q] = status[q]
    BY <1>0, <2>1 DEF Live
  <2>3. Started'
    BY <2>1, <2>2 DEF HistInv, Started
  <2> QED BY <2>1, <2>2, <2>3, HistQuiet DEF Live, NothingCut
<1>5. ASSUME NEW r \in Runs, SendsSettled(r) PROVE HistInv'
  BY <1>5, SendsSettledKeepsHistory
<1>6. ASSUME NEW r \in Runs, NodesSettled(r) PROVE HistInv'
  BY <1>6, NodesSettledKeepsHistory
<1>7. ASSUME NEW r \in Runs, Live(r), NEW i, TaskReturns(r, i) PROVE HistInv'
  BY <1>7, TaskReturnsKeepsHistory
<1>8. ASSUME NEW r \in Runs, NEW i, NodeAsks(r, i) PROVE HistInv'
  BY <1>8, NodeAsksKeepsHistory
<1>9. ASSUME NEW r \in Runs, Live(r), NEW i, TaskThrows(r, i) \/ NodeRecorded(r, i) PROVE HistInv'
  <2>1. /\ UNCHANGED <<history, state, fresh, ran, usnap, step, out, upc, pc>>
        /\ i \in DOMAIN status[r]
        /\ SetStatus(r, i, "failed") \/ SetStatus(r, i, "asked")
    BY <1>9 DEF TaskThrows, NodeRecorded, endVars, Is
  <2>2. \A q \in Runs \ {r} : status'[q] = status[q]
    BY <1>0, <2>1 DEF SetStatus
  <2>3. status[r] # <<>>
    <3>1. DOMAIN <<>> = {}
      OBVIOUS
    <3> QED BY <2>1, <3>1
  <2>4. Started'
    BY <2>1, <2>2, <2>3 DEF HistInv, Started
  <2> QED BY <1>9, <2>1, <2>4, <1>0, HistQuiet DEF Live, NothingCut
<1>10. ASSUME NEW u \in Updates, UpdateReads(u) \/ UpdateWrites(u) PROVE HistInv'
  BY <1>10, UpdateReadsKeepsHistory, UpdateWritesKeepsHistory
<1>11. ASSUME NEW s \in Runs, Expire(s) PROVE HistInv'
  <2>1. UNCHANGED <<history, state, fresh, ran, usnap, step, out, upc, pc, status>>
    BY <1>11 DEF Expire, superstepVars
  <2>2. Started'
    BY <2>1 DEF HistInv, Started
  <2>3. NothingCut' = NothingCut
    BY <2>1 DEF NothingCut
  <2> QED BY <2>1, <2>2, <2>3, <1>0, HistQuiet DEF Live
<1>12. ASSUME Crash PROVE HistInv'
  BY <1>12, CrashKeepsHistory
<1> QED BY <1>1, <1>2, <1>3, <1>4, <1>5, <1>6, <1>7, <1>8, <1>9, <1>10, <1>11, <1>12
        DEF Next, Engine

(* Between supersteps that were not cut short, the committed checkpoint     *)
(* holds what every node returned.                                          *)
LEMMA HistSound == TypeInv /\ HistInv => HistorySound
<1> SUFFICES ASSUME TypeInv, HistInv PROVE NothingLost
  BY TypesTogether DEF HistInv, HistorySound
<1> SUFFICES ASSUME NothingCut, \A r \in Runs : pc[r] \notin {"sends", "nodes"}
             PROVE  CommittedState.done = ran
  BY DEF NothingLost, NothingCut
<1>1. CASE \A r \in Runs : ~Live(r)
  BY <1>1 DEF HistInv, Exact
<1>2. ASSUME NEW r \in Runs, Live(r) PROVE CommittedState.done = ran
  <2>1. pc[r] = "begin"
    BY <1>2 DEF Live
  <2>2. state[r] = CommittedState /\ fresh[r] = NoResults
    BY <2>1 DEF HistInv, Ahead
  <2>3. \A n \in Nodes : ran[n] = state[r].done[n] + fresh[r][n]
    BY <1>2 DEF HistInv, Exact
  <2>4. CommittedState.done \in [Nodes -> Nat] /\ ran \in [Nodes -> Nat]
    BY CommittedTyped DEF State, Bag, TypeInv, CountInv, CountTypes
  <2>5. \A n \in Nodes : ran[n] = CommittedState.done[n]
    BY <2>2, <2>3, <2>4 DEF NoResults
  <2> QED BY <2>4, <2>5
<1> QED BY <1>1, <1>2

(* Callers that await each invoke(), resume() and updateState() before the  *)
(* next get a sound history from any graph, through failures, interrupts,   *)
(* pauses and a crash: no update of a superstep that completed is missing,  *)
(* later checkpoints contain earlier ones, and a written patch stays        *)
(* (streaming.ts:539-577, graph.ts updateState).                            *)
THEOREM HistoriesSound == ASSUME ~Overlap PROVE Spec => []HistorySound
<1>1. Init => HistInv
  BY HistInit
<1>2. TypeInv /\ HistInv /\ [Next]_vars => HistInv'
  BY HistNext
<1>3. TypeInv /\ HistInv => HistorySound
  BY HistSound
<1> QED BY <1>1, <1>2, <1>3, TypeInvariant, PTL DEF Spec

-----------------------------------------------------------------------------
(* Interrupts.  From the claim of a superstep's first interrupt() on, the   *)
(* latest checkpoint names the node that claimed it, until the run ends.    *)

Named(r, i) ==
  \/ status[r][i] = "saving" /\ Latest.next = <<NodeOf(r, i)>>
  \/ status[r][i] = "asked" /\ session[r] # "none" /\ Latest.next = <<asker[r]>>

AskInv ==
  \A r \in Runs : Live(r) /\ claimed[r] =>
    /\ pc[r] = "nodes"
    /\ Latest.step = step[r]
    /\ \E i \in DOMAIN status[r] : Named(r, i)

LEMMA AskInit == Init => AskInv
BY DEF Init, AskInv, Live

(* Steps after which no run is live that has claimed its superstep.         *)
LEMMA NoneAsking ==
  ASSUME \A r \in Runs : pc'[r] \in {"begin", "sends", "nodes"} => ~claimed'[r]
  PROVE  AskInv'
BY DEF AskInv, Live

(* Steps that keep what has been claimed.                                   *)
LEMMA AskQuiet ==
  ASSUME AskInv, UNCHANGED <<history, asker, step, claimed, pc, tasks, status>>,
         \A r \in Runs : session[r] # "none" => session'[r] # "none"
  PROVE  AskInv'
<1>1. Latest' = Latest
  BY SameHistory
<1>2. ASSUME NEW r \in Runs, NEW i, Named(r, i) PROVE Named(r, i)'
  BY <1>1, <1>2 DEF Named, NodeOf
<1> QED BY <1>1, <1>2 DEF AskInv, Live

(* An execution that had not asked settles beside the one that has.         *)
LEMMA BesideAsks ==
  ASSUME TypeInv, AskInv, NEW r \in Runs, NEW i, Is(r, i, "running"), NEW s, SetStatus(r, i, s),
         UNCHANGED <<history, asker, step, claimed, pc, tasks, session>>
  PROVE  AskInv'
<1>1. Latest' = Latest
  BY SameHistory
<1>2. \A q \in Runs : status'[q] = IF q = r THEN [status[r] EXCEPT ![i] = s] ELSE status[q]
  BY DEF SetStatus, TypeInv, AnswerInv, AnswerTypes
<1>3. status[r][i] = "running"
  BY DEF Is
<1>4. ASSUME NEW q \in Runs, NEW j \in DOMAIN status[q], Named(q, j)
      PROVE  j \in DOMAIN status'[q] /\ Named(q, j)'
  <2>1. ~(q = r /\ j = i)
    BY <1>3, <1>4 DEF Named
  <2>2. j \in DOMAIN status'[q] /\ status'[q][j] = status[q][j]
    BY <1>2, <2>1
  <2> QED BY <1>1, <1>4, <2>2 DEF Named, NodeOf
<1> QED BY <1>1, <1>4 DEF AskInv, Live

LEMMA NodeAsksNamed ==
  ASSUME TypeInv, HistInv, AskInv, NEW r \in Runs, NEW i, NodeAsks(r, i)
  PROVE  AskInv'
<1>1. /\ UNCHANGED <<asker, step, state, tasks, pc, session>> /\ pc[r] = "nodes"
      /\ Is(r, i, "running")
  BY DEF NodeAsks, endVars
<1>2. CASE ~FirstClaim(r)
  BY <1>1, <1>2, BesideAsks DEF NodeAsks
<1>3. CASE FirstClaim(r)
  <2>1. /\ SetStatus(r, i, "saving") /\ claimed' = [claimed EXCEPT ![r] = TRUE]
        /\ Put(step[r], state[r], <<NodeOf(r, i)>>, <<>>)
    BY <1>3 DEF NodeAsks
  <2>2. NodeOf(r, i) \in Nodes
    BY <1>1 DEF Is, NodeOf, TypeInv, RestTyped
  <2>3. step[r] \in Steps /\ state[r] \in State /\ <<NodeOf(r, i)>> \in Targets /\ <<>> \in Seq(Nodes)
    BY <2>2 DEF TypeInv, RestTyped, CountInv, CountTypes, Targets
  <2>4. Live(r) /\ (\A k \in Saved : k <= step[r])
    BY <1>1 DEF Live, HistInv, Ahead
  <2>5. Latest' = history'[step[r]]
    BY <2>1, <2>3, <2>4, PutLatest
  <2>6. history'[step[r]] = [step |-> step[r], state |-> state[r],
                             next |-> <<NodeOf(r, i)>>, sends |-> <<>>]
    BY <2>1, <2>3, PutTyped
  <2>7. i \in DOMAIN status'[r] /\ status'[r][i] = "saving"
    BY <1>1, <2>1 DEF Is, SetStatus, TypeInv, AnswerInv, AnswerTypes
  <2>8. Named(r, i)' /\ (Latest.step = step[r])'
    BY <1>1, <2>5, <2>6, <2>7 DEF Named, NodeOf
  <2>9. \A q \in Runs : Live(q) => q = r
    BY <2>4 DEF HistInv, Alone
  <2> QED BY <1>1, <2>7, <2>8, <2>9 DEF AskInv, Live
<1> QED BY <1>2, <1>3

LEMMA NodeRecordedNamed ==
  ASSUME TypeInv, HistInv, AskInv, NEW r \in Runs, NEW i, NodeRecorded(r, i)
  PROVE  AskInv'
<1>1. /\ UNCHANGED <<history, step, tasks, pc, claimed>> /\ Live(r) /\ Is(r, i, "saving")
      /\ SetStatus(r, i, "asked") /\ session' = [session EXCEPT ![r] = "pending"]
      /\ asker' = [asker EXCEPT ![r] = NodeOf(r, i)]
  BY DEF NodeRecorded
<1>2. Latest' = Latest
  BY <1>1, SameHistory
<1>3. /\ status'[r] = [status[r] EXCEPT ![i] = "asked"] /\ session'[r] = "pending"
      /\ asker'[r] = NodeOf(r, i)
  BY <1>1 DEF SetStatus, TypeInv, RestTyped, AnswerInv, AnswerTypes
<1>4. session[r] = "none"
  BY <1>1 DEF TypeInv, AnswerInv, OneSession, Saving
<1>5. \A q \in Runs : Live(q) => q = r
  BY <1>1 DEF HistInv, Alone
<1>6. ASSUME claimed[r] PROVE \E j \in DOMAIN status'[r] : Named(r, j)'
  <2>1. PICK j \in DOMAIN status[r] : Named(r, j)
    BY <1>1, <1>6 DEF AskInv
  <2>2. status[r][j] = "saving" /\ Latest.next = <<NodeOf(r, j)>>
    BY <1>4, <2>1 DEF Named
  <2>3. j = i
    BY <1>1, <2>1, <2>2 DEF TypeInv, AnswerInv, OneSession, Saving, Is
  <2>4. j \in DOMAIN status'[r] /\ status'[r][j] = "asked"
    BY <1>3, <2>1, <2>3
  <2>5. Named(r, j)'
    BY <1>2, <1>3, <2>2, <2>3, <2>4 DEF Named
  <2> QED BY <2>4, <2>5
<1> QED BY <1>1, <1>2, <1>5, <1>6 DEF AskInv, Live

(* A superstep in which a node asked does not go on.                        *)
LEMMA SettledUnclaimed ==
  ASSUME TypeInv, AskInv, NEW r \in Runs, NodesSettled(r)
  PROVE  ~claimed[r]
<1> SUFFICES ASSUME claimed[r] PROVE FALSE
  OBVIOUS
<1>1. Live(r) /\ \A i \in DOMAIN status[r] : status[r][i] = "ok"
  BY DEF NodesSettled, Live
<1>2. PICK i \in DOMAIN status[r] : Named(r, i)
  BY <1>1 DEF AskInv
<1> QED BY <1>1, <1>2 DEF Named

LEMMA AskNext == ~Overlap /\ TypeInv /\ HistInv /\ AskInv /\ [Next]_vars => AskInv'
<1> SUFFICES ASSUME ~Overlap, TypeInv, HistInv, AskInv, [Next]_vars PROVE AskInv'
  OBVIOUS
<1>0. DOMAIN pc = Runs /\ \A r, q \in Runs : Live(r) /\ Live(q) => r = q
  BY DEF TypeInv, CountInv, CountTypes, HistInv, Alone
<1>1. CASE UNCHANGED vars
  BY <1>1, AskQuiet DEF vars, superstepVars, endVars
<1>2. ASSUME NEW r \in Runs, Invoke(r) \/ (\E s \in Runs : Resume(r, s)) PROVE AskInv'
  <2>1. /\ pc' = [pc EXCEPT ![r] = "begin"] /\ claimed' = claimed /\ pc[r] = "idle"
        /\ \A q \in Runs : ~Live(q)
    BY <1>2 DEF Invoke, Resume, Load, IsNext, Undisturbed
  <2>2. ~claimed[r]
    BY <2>1 DEF TypeInv, AnswerInv, FreshRun
  <2> QED BY <1>0, <2>1, <2>2, NoneAsking DEF Live
<1>3. ASSUME NEW r \in Runs, NEW how, Live(r), FinishOnly(r, how) PROVE AskInv'
  <2>1. pc' = [pc EXCEPT ![r] = "done"] /\ claimed' = claimed
    BY <1>3 DEF FinishOnly, Finish, superstepVars
  <2> QED BY <1>0, <1>3, <2>1, NoneAsking DEF Live
<1>4. ASSUME NEW r \in Runs, LimitReached(r) \/ Returns(r) \/ SendsFailed(r) \/ NodesFailed(r)
      PROVE  AskInv'
  BY <1>3, <1>4 DEF LimitReached, Returns, SendsFailed, NodesFailed, Within, Live
<1>5. ASSUME NEW r \in Runs, SendsStart(r) \/ NodesStart(r) \/ SendsSettled(r) PROVE AskInv'
  <2>1. /\ pc[r] \in {"begin", "sends"} /\ claimed' = claimed
        /\ \A q \in Runs \ {r} : pc'[q] = pc[q]
    BY <1>0, <1>5 DEF SendsStart, NodesStart, SendsSettled, StartNodes, Within
  <2>2. Live(r) /\ ~claimed[r]
    BY <2>1 DEF AskInv, Live
  <2> QED BY <1>0, <2>1, <2>2, NoneAsking DEF Live
<1>6. ASSUME NEW r \in Runs, NodesSettled(r) PROVE AskInv'
  <2>1. Live(r) /\ claimed' = claimed /\ \A q \in Runs \ {r} : pc'[q] = pc[q]
    BY <1>0, <1>6 DEF NodesSettled, Pauses, GoesOn, Finish, Live
  <2> QED BY <1>0, <1>6, <2>1, SettledUnclaimed, NoneAsking DEF Live
<1>7. ASSUME NEW r \in Runs, NEW i, TaskReturns(r, i) \/ TaskThrows(r, i) PROVE AskInv'
  BY <1>7, BesideAsks DEF TaskReturns, TaskThrows, endVars
<1>8. ASSUME NEW r \in Runs, NEW i, NodeAsks(r, i) \/ NodeRecorded(r, i) PROVE AskInv'
  BY <1>8, NodeAsksNamed, NodeRecordedNamed
<1>9. ASSUME NEW u \in Updates, UpdateReads(u) \/ UpdateWrites(u) PROVE AskInv'
  <2>1. UNCHANGED <<pc, claimed>> /\ \A r \in Runs : ~Live(r)
    BY <1>9 DEF UpdateReads, UpdateWrites, superstepVars, endVars, HistInv, Alone
  <2> QED BY <2>1, NoneAsking DEF Live
<1>10. ASSUME NEW s \in Runs, Expire(s) PROVE AskInv'
  <2>1. /\ UNCHANGED <<history, asker, step, claimed, pc, tasks, status>>
        /\ session' = [session EXCEPT ![s] = "expired"]
    BY <1>10 DEF Expire, superstepVars
  <2> QED BY <2>1, AskQuiet DEF TypeInv, AnswerInv, AnswerTypes
<1>11. ASSUME Crash PROVE AskInv'
  <2>1. pc' = [r \in Runs |-> IF Live(r) THEN "done" ELSE pc[r]]
    BY <1>11 DEF Crash
  <2> QED BY <2>1, NoneAsking DEF Live
<1> QED BY <1>1, <1>2, <1>4, <1>5, <1>6, <1>7, <1>8, <1>9, <1>10, <1>11 DEF Next, Engine

(* The step that surfaces an interrupt.                                     *)
LEMMA InterruptSurfaces ==
  ASSUME TypeInv, AskInv, [Next]_vars, NEW r \in Runs, out[r] = "none", out'[r] = "interrupted"
  PROVE  session[r] # "none" /\ Latest.step = step[r] /\ Latest.next = <<asker[r]>>
<1>0. out = [q \in Runs |-> out[q]]
  BY DEF TypeInv, AnswerInv, AnswerTypes
<1>1. \E q \in Runs, how \in Ends : /\ NodesFailed(q) \/ how # "interrupted"
                                  /\ out' = [out EXCEPT ![q] = how]
  <2>1. ASSUME NEW q \in Runs, Engine(q), ~NodesFailed(q)
        PROVE  out' = out \/ \E how \in Ends : how # "interrupted" /\ out' = [out EXCEPT ![q] = how]
    <3>1. CASE \E how \in {"limit", "returned", "failed"} : FinishOnly(q, how)
      BY <3>1 DEF FinishOnly, Finish, Ends
    <3>2. CASE NodesSettled(q)
      BY <3>2 DEF NodesSettled, Pauses, GoesOn, Finish, Ends
    <3>3. CASE \/ SendsStart(q) \/ NodesStart(q) \/ SendsSettled(q)
               \/ \E i : TaskReturns(q, i) \/ TaskThrows(q, i) \/ NodeAsks(q, i) \/ NodeRecorded(q, i)
      BY <3>3 DEF SendsStart, NodesStart, SendsSettled, TaskReturns, TaskThrows, NodeAsks,
                  NodeRecorded, endVars
    <3> QED BY <2>1, <3>1, <3>2, <3>3 DEF Engine, LimitReached, Returns, SendsFailed
  <2>2. ASSUME ~\E q \in Runs : Engine(q)
        PROVE  out' = out \/ Crash
    BY <2>2 DEF Next, Invoke, Resume, Load, UpdateReads, UpdateWrites, Expire, endVars, vars
  <2>3. ~Crash
    BY <1>0 DEF Crash
  <2>4. out' # out
    OBVIOUS
  <2>5. PICK q \in Runs : Engine(q)
    BY <2>2, <2>3, <2>4
  <2>6. CASE NodesFailed(q)
    BY <2>6 DEF NodesFailed, FinishOnly, Finish, Ends
  <2> QED BY <2>1, <2>4, <2>5, <2>6
<1>2. NodesFailed(r)
  BY <1>0, <1>1
<1>3. pc[r] = "nodes" /\ Settled(r) /\ claimed[r]
  BY <1>0, <1>2 DEF NodesFailed, FinishOnly, Finish
<1>4. PICK i \in DOMAIN status[r] : Named(r, i)
  BY <1>3 DEF AskInv, Live
<1>5. status[r][i] # "saving"
  BY <1>3 DEF Settled
<1> QED BY <1>3, <1>4, <1>5 DEF AskInv, Live, Named

(* When a run surfaces an interrupt(), resume() can re-enter it: a session  *)
(* is recorded, and the stored checkpoint names its node alone, whichever   *)
(* nodes of the superstep interrupted too (execution.ts, streaming.ts).     *)
THEOREM InterruptsResumable == ASSUME ~Overlap PROVE Spec => InterruptIsResumable
<1>1. Init => HistInv /\ AskInv
  BY HistInit, AskInit
<1>2. TypeInv /\ HistInv /\ AskInv /\ [Next]_vars => HistInv' /\ AskInv'
  BY HistNext, AskNext
<1>3. TypeInv /\ AskInv /\ [Next]_vars =>
        [\A r \in Runs :
           out[r] = "none" /\ out'[r] = "interrupted" =>
             /\ session[r] # "none"
             /\ Latest.step = step[r]
             /\ Latest.next = <<asker[r]>>]_vars
  BY InterruptSurfaces
<1> QED BY <1>1, <1>2, <1>3, TypeInvariant, PTL DEF Spec, InterruptIsResumable

=============================================================================
