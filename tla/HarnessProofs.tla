---------------------------- MODULE HarnessProofs ----------------------------
(***************************************************************************)
(* Proofs about what the harness keeps on disk and what guards its agents, *)
(* for any constants.  First sums over finite sets; then one inductive     *)
(* invariant for each component, with the lemma that its steps keep it: the *)
(* shared files under the lock, sessions and their handover, the history of *)
(* a workspace, experiments, the gate of tool calls, the agents of a graph, *)
(* and the memory.  The components share no state and one is in focus, so  *)
(* at the end each theorem follows from its component alone.               *)
(***************************************************************************)
EXTENDS MCHarness, FiniteSetTheorems, SequenceTheorems, TLAPS

(* A bounded, non-empty set of natural numbers has a largest member: what   *)
(* was reviewed or ended last.                                              *)
LEMMA MaxExists ==
  ASSUME NEW n \in Nat, NEW T, T \subseteq 0..n, T # {}
  PROVE  \E k \in T : \A j \in T : j <= k
<1> DEFINE Family == {k..n : k \in T}
<1>1. Family \subseteq SUBSET (0..n) /\ Family # {}
  <2>1. ASSUME NEW k \in T PROVE k..n \subseteq 0..n
    OBVIOUS
  <2> QED BY <2>1
<1>2. IsWellFoundedOn(StrictSubsetOrdering(0..n), SUBSET (0..n))
  <2>1. IsFiniteSet(0..n)
    BY FS_Interval
  <2>2. FiniteSubsetsOf(0..n) = SUBSET (0..n)
    BY <2>1, FS_FiniteSubsetsOfFinite
  <2>3. IsWellFoundedOn(StrictSubsetOrdering(0..n), FiniteSubsetsOf(0..n))
    BY FS_StrictSubsetOrderingWellFounded
  <2> QED BY <2>2, <2>3
<1>3. PICK F \in Family : \A E \in Family : ~(<<E, F>> \in StrictSubsetOrdering(0..n))
  <2> HIDE DEF Family
  <2> QED BY <1>1, <1>2, WFMin
<1>4. PICK k \in T : F = k..n
  BY <1>3
<1>5. ASSUME NEW j \in T PROVE j <= k
  <2>1. j..n \in Family
    OBVIOUS
  <2>2. SUFFICES ASSUME k < j PROVE FALSE
    OBVIOUS
  <2>3. j..n \subseteq k..n /\ k \in k..n /\ k \notin j..n
    BY <2>2
  <2>4. <<j..n, k..n>> \in StrictSubsetOrdering(0..n)
    BY <2>1, <2>3, <1>1, <1>4 DEF StrictSubsetOrdering
  <2> QED BY <2>1, <2>4, <1>3, <1>4
<1> QED BY <1>5

(* And a non-empty set of natural numbers has a least one: what is first.   *)
LEMMA LeastExists ==
  ASSUME NEW S, S \subseteq Nat, S # {}
  PROVE  \E k \in S : \A j \in S : k <= j
<1>1. PICK n \in S : TRUE
  OBVIOUS
<1> DEFINE T == {i \in 0..n : n - i \in S}
<1>2. n \in Nat /\ T \subseteq 0..n /\ 0 \in T
  OBVIOUS
<1>3. PICK i \in T : \A j \in T : j <= i
  <2> HIDE DEF T
  <2> QED BY <1>2, MaxExists
<1>4. n - i \in S /\ i \in 0..n
  BY <1>3
<1>5. ASSUME NEW j \in S PROVE n - i <= j
  <2>1. CASE j > n
    BY <1>2, <1>4, <2>1
  <2>2. CASE ~(j > n)
    <3>1. n - j \in 0..n /\ n - (n - j) = j
      BY <1>2, <2>2
    <3>2. n - j \in T
      BY <3>1
    <3>3. n - j <= i
      BY <1>3, <3>2
    <3> QED BY <1>2, <1>4, <3>3
  <2> QED BY <2>1, <2>2
<1> QED BY <1>4, <1>5

-----------------------------------------------------------------------------
(***************************************************************************)
(* Sums over finite sets.  Among finite sets with some property there is a *)
(* smallest one; with it, the sum that the community modules fold over a   *)
(* set does not depend on the order in which its members are taken.        *)
(***************************************************************************)
LEMMA SmallestSet ==
  ASSUME NEW S, IsFiniteSet(S), NEW Some, Some \subseteq SUBSET S, Some # {}
  PROVE  \E T \in Some : \A U \in SUBSET T : U # T => U \notin Some
<1>1. FiniteSubsetsOf(S) = SUBSET S
  BY FS_FiniteSubsetsOfFinite
<1>2. IsWellFoundedOn(StrictSubsetOrdering(S), SUBSET S)
  BY <1>1, FS_StrictSubsetOrderingWellFounded
<1>3. PICK T \in Some : \A U \in Some : ~(<<U, T>> \in StrictSubsetOrdering(S))
  BY <1>2, WFMin
<1>4. ASSUME NEW U \in SUBSET T, U # T, U \in Some PROVE FALSE
  <2>1. <<U, T>> \in (SUBSET S) \X (SUBSET S) /\ <<U, T>>[1] = U /\ <<U, T>>[2] = T
    BY <1>3, <1>4
  <2>2. <<U, T>> \in StrictSubsetOrdering(S)
    BY <1>4, <2>1 DEF StrictSubsetOrdering
  <2> QED
    BY <1>3, <1>4, <2>2
<1> QED
  BY <1>3, <1>4

Pick(s) == CHOOSE x \in s : TRUE
Total(c, T) == MapThenSumSet(LAMBDA k : c[k], T)
Adds(g, c, T) ==
  g = [s \in SUBSET T |-> IF s = {} THEN 0 ELSE c[Pick(s)] + g[s \ {Pick(s)}]]

LEMMA PickIn == \A s : s # {} => Pick(s) \in s
BY DEF Pick

LEMMA TotalAdds == ASSUME NEW c, NEW T PROVE Total(c, T) = (CHOOSE g : Adds(g, c, T))[T]
BY DEF Total, MapThenSumSet, MapThenFoldSet, Adds, Pick

LEMMA AddsAt ==
  ASSUME NEW c, NEW g, NEW T, Adds(g, c, T), NEW s, s \subseteq T
  PROVE  g[s] = IF s = {} THEN 0 ELSE c[Pick(s)] + g[s \ {Pick(s)}]
<1> DEFINE body(u) == IF u = {} THEN 0 ELSE c[Pick(u)] + g[u \ {Pick(u)}]
<1> HIDE DEF body
<1>1. g = [u \in SUBSET T |-> body(u)]
  BY DEF Adds, body
<1>2. g[s] = body(s)
  BY <1>1
<1> QED
  BY <1>2 DEF body

LEMMA OneAdds ==
  ASSUME NEW S, IsFiniteSet(S), NEW c, NEW g, NEW h, NEW T \in SUBSET S, NEW U \in SUBSET S,
         Adds(g, c, T), Adds(h, c, U)
  PROVE  \A s \in (SUBSET T) \cap (SUBSET U) : g[s] = h[s]
<1> DEFINE Differ == {s \in (SUBSET T) \cap (SUBSET U) : g[s] # h[s]}
<1>1. SUFFICES ASSUME Differ # {} PROVE FALSE
  OBVIOUS
<1>2. Differ \subseteq SUBSET S
  OBVIOUS
<1>3. PICK s \in Differ : \A u \in SUBSET s : u # s => u \notin Differ
  <2> HIDE DEF Differ
  <2> QED
    BY <1>1, <1>2, SmallestSet
<1>4. /\ g[s] = IF s = {} THEN 0 ELSE c[Pick(s)] + g[s \ {Pick(s)}]
      /\ h[s] = IF s = {} THEN 0 ELSE c[Pick(s)] + h[s \ {Pick(s)}]
  BY <1>3, AddsAt
<1>5. s # {} => g[s \ {Pick(s)}] = h[s \ {Pick(s)}]
  BY <1>3, PickIn
<1> QED
  BY <1>3, <1>4, <1>5

LEMMA SomeAdds ==
  ASSUME NEW S, IsFiniteSet(S), NEW c
  PROVE  \A T \in SUBSET S : \E g : Adds(g, c, T)
<1> DEFINE Lacking == {T \in SUBSET S : ~\E g : Adds(g, c, T)}
           Val(s) == (CHOOSE g : Adds(g, c, s))[s]
<1>1. SUFFICES ASSUME Lacking # {} PROVE FALSE
  OBVIOUS
<1>2. PICK T \in Lacking : \A u \in SUBSET T : u # T => u \notin Lacking
  <2>1. Lacking \subseteq SUBSET S
    OBVIOUS
  <2> HIDE DEF Lacking
  <2> QED
    BY <1>1, <2>1, SmallestSet
<1>3. T \subseteq S /\ \A u \in SUBSET T : u # T => Adds(CHOOSE g : Adds(g, c, u), c, u)
  <2>1. \A u \in SUBSET T : u # T => \E g : Adds(g, c, u)
    BY <1>2
  <2> QED
    BY <2>1
<1> HIDE DEF Lacking
<1>4. ASSUME NEW u \in SUBSET T, u # T
      PROVE  Val(u) = IF u = {} THEN 0 ELSE c[Pick(u)] + Val(u \ {Pick(u)})
  <2> DEFINE g == CHOOSE g : Adds(g, c, u)
             v == u \ {Pick(u)}
             h == CHOOSE h : Adds(h, c, v)
  <2>1. Adds(g, c, u)
    BY <1>3, <1>4
  <2>2. g[u] = IF u = {} THEN 0 ELSE c[Pick(u)] + g[v]
    BY <2>1, AddsAt
  <2>3. ASSUME u # {} PROVE g[v] = h[v]
    <3>1. v \in SUBSET T /\ v # T /\ v \in SUBSET u /\ u \in SUBSET S /\ v \in SUBSET S
      BY <1>3, <1>4, <2>3, PickIn
    <3>2. Adds(h, c, v)
      BY <1>3, <3>1
    <3> HIDE DEF g, h, v
    <3> QED
      BY <2>1, <3>1, <3>2, OneAdds
  <2> QED
    BY <2>2, <2>3
<1> DEFINE f == [s \in SUBSET T |-> IF s = {} THEN 0 ELSE c[Pick(s)] + Val(s \ {Pick(s)})]
<1>5. ASSUME NEW s \in SUBSET T
      PROVE  (IF s = {} THEN 0 ELSE c[Pick(s)] + Val(s \ {Pick(s)})) = IF s = {} THEN 0 ELSE c[Pick(s)] + f[s \ {Pick(s)}]
  <2>1. CASE s = {}
    BY <2>1
  <2>2. CASE s # {}
    <3>1. s \ {Pick(s)} \in SUBSET T /\ s \ {Pick(s)} # T
      BY <2>2, PickIn
    <3>2. f[s \ {Pick(s)}] = Val(s \ {Pick(s)})
      <4> DEFINE u == s \ {Pick(s)}
      <4>1. f[u] = IF u = {} THEN 0 ELSE c[Pick(u)] + Val(u \ {Pick(u)})
        <5> HIDE DEF Val
        <5> QED BY <3>1
      <4> QED
        BY <1>4, <3>1, <4>1
    <3> QED
      BY <2>2, <3>2
  <2> QED
    BY <2>1, <2>2
<1>6. Adds(f, c, T)
  <2> DEFINE left(s) == IF s = {} THEN 0 ELSE c[Pick(s)] + Val(s \ {Pick(s)})
             right(s) == IF s = {} THEN 0 ELSE c[Pick(s)] + f[s \ {Pick(s)}]
  <2>1. f = [s \in SUBSET T |-> left(s)] /\ \A s \in SUBSET T : left(s) = right(s)
    BY <1>5
  <2>2. Adds(f, c, T) <=> f = [s \in SUBSET T |-> right(s)]
    BY DEF Adds
  <2> HIDE DEF left, right, f
  <2> QED
    BY <2>1, <2>2
<1> QED
  BY <1>2, <1>6 DEF Lacking

(* The sum of a set is what one member adds to the sum of the others. *)
LEMMA TotalPicks ==
  ASSUME NEW c, NEW T, IsFiniteSet(T)
  PROVE  Total(c, T) = IF T = {} THEN 0 ELSE c[Pick(T)] + Total(c, T \ {Pick(T)})
<1> DEFINE g == CHOOSE g : Adds(g, c, T)
           U == T \ {Pick(T)}
           h == CHOOSE h : Adds(h, c, U)
<1>1. U \in SUBSET T /\ T \in SUBSET T
  OBVIOUS
<1>2. Adds(g, c, T) /\ Adds(h, c, U)
  <2>1. (\E x : Adds(x, c, T)) /\ (\E x : Adds(x, c, U))
    BY <1>1, SomeAdds
  <2> QED
    BY <2>1
<1>3. Total(c, T) = g[T] /\ Total(c, U) = h[U]
  BY TotalAdds
<1> HIDE DEF g, h
<1>4. g[T] = IF T = {} THEN 0 ELSE c[Pick(T)] + g[U]
  BY <1>2, AddsAt
<1>5. g[U] = h[U]
  BY <1>1, <1>2, OneAdds
<1> QED
  BY <1>3, <1>4, <1>5

LEMMA TotalTakes ==
  ASSUME NEW S, IsFiniteSet(S), NEW c, \A x \in S : c[x] \in Nat
  PROVE  \A T \in SUBSET S : /\ Total(c, T) \in Nat
                             /\ \A y \in T : Total(c, T) = c[y] + Total(c, T \ {y})
<1> DEFINE Fine(T) == /\ Total(c, T) \in Nat
                      /\ \A y \in T : Total(c, T) = c[y] + Total(c, T \ {y})
           Bad == {T \in SUBSET S : ~Fine(T)}
<1>1. SUFFICES ASSUME Bad # {} PROVE FALSE
  OBVIOUS
<1>2. PICK T \in Bad : \A u \in SUBSET T : u # T => u \notin Bad
  <2>1. Bad \subseteq SUBSET S
    OBVIOUS
  <2> HIDE DEF Bad
  <2> QED
    BY <1>1, <2>1, SmallestSet
<1>3. T \in SUBSET S /\ ~Fine(T) /\ \A u \in SUBSET T : u # T => Fine(u)
  BY <1>2
<1>4. IsFiniteSet(T)
  BY <1>3, FS_Subset
<1>5. Total(c, T) = IF T = {} THEN 0 ELSE c[Pick(T)] + Total(c, T \ {Pick(T)})
  BY <1>4, TotalPicks
<1>6. CASE T = {}
  BY <1>3, <1>5, <1>6
<1>7. CASE T # {}
  <2> DEFINE x == Pick(T)
  <2>1. x \in T
    BY <1>7, PickIn
  <2> HIDE DEF x
  <2>2. Total(c, T) = c[x] + Total(c, T \ {x})
    BY <1>5, <1>7 DEF x
  <2>3. \A y \in T : Fine(T \ {y}) /\ c[y] \in Nat
    BY <1>3
  <2>4. \A y \in T : Total(c, T \ {y}) \in Nat
    BY <2>3
  <2>5. ASSUME NEW y \in T PROVE Total(c, T) = c[y] + Total(c, T \ {y})
    <3>1. CASE y = x
      BY <2>2, <3>1
    <3>2. CASE y # x
      <4>1. Total(c, T \ {x}) = c[y] + Total(c, (T \ {x}) \ {y})
        BY <2>1, <2>3, <3>2
      <4>2. Total(c, T \ {y}) = c[x] + Total(c, (T \ {y}) \ {x})
        BY <2>1, <2>3, <3>2
      <4>3. (T \ {x}) \ {y} = (T \ {y}) \ {x}
        OBVIOUS
      <4>4. Fine((T \ {x}) \ {y})
        <5>1. (T \ {x}) \ {y} \in SUBSET T /\ (T \ {x}) \ {y} # T
          BY <2>1
        <5> QED
          BY <1>3, <5>1
      <4>5. Total(c, (T \ {x}) \ {y}) \in Nat
        BY <4>4
      <4>6. c[x] \in Nat /\ c[y] \in Nat
        BY <2>1, <2>3
      <4> DEFINE rest == Total(c, (T \ {x}) \ {y})
      <4> HIDE DEF Fine, Bad, rest
      <4>7. Total(c, T) = c[x] + (c[y] + rest) /\ Total(c, T \ {y}) = c[x] + rest /\ rest \in Nat
        BY <2>2, <4>1, <4>2, <4>3, <4>5 DEF rest
      <4> QED
        BY <4>6, <4>7
    <3> QED
      BY <3>1, <3>2
  <2>6. Total(c, T) \in Nat
    BY <2>1, <2>2, <2>3, <2>4
  <2> QED
    BY <1>3, <2>5, <2>6
<1> QED
  BY <1>6, <1>7

LEMMA TotalSame ==
  ASSUME NEW S, IsFiniteSet(S), NEW c, NEW d, \A x \in S : c[x] = d[x]
  PROVE  Total(c, S) = Total(d, S)
<1> DEFINE Bad == {T \in SUBSET S : Total(c, T) # Total(d, T)}
<1>1. SUFFICES ASSUME Bad # {} PROVE FALSE
  <2>1. S \in SUBSET S
    OBVIOUS
  <2> QED
    BY <2>1
<1>2. PICK T \in Bad : \A u \in SUBSET T : u # T => u \notin Bad
  <2>1. Bad \subseteq SUBSET S
    OBVIOUS
  <2> HIDE DEF Bad
  <2> QED
    BY <1>1, <2>1, SmallestSet
<1>3. T \in SUBSET S /\ Total(c, T) # Total(d, T) /\ \A u \in SUBSET T : u # T => Total(c, u) = Total(d, u)
  BY <1>2
<1>4. IsFiniteSet(T)
  BY <1>3, FS_Subset
<1>5. /\ Total(c, T) = IF T = {} THEN 0 ELSE c[Pick(T)] + Total(c, T \ {Pick(T)})
      /\ Total(d, T) = IF T = {} THEN 0 ELSE d[Pick(T)] + Total(d, T \ {Pick(T)})
  BY <1>4, TotalPicks
<1>6. CASE T # {}
  <2>1. Pick(T) \in T
    BY <1>6, PickIn
  <2>2. T \ {Pick(T)} \in SUBSET T /\ T \ {Pick(T)} # T
    BY <2>1
  <2> QED
    BY <1>3, <1>5, <1>6, <2>1, <2>2
<1> QED
  BY <1>3, <1>5, <1>6

(* One member counts for more. *)
LEMMA TotalGrows ==
  ASSUME NEW S, IsFiniteSet(S), NEW c \in [S -> Nat], NEW d \in [S -> Nat], NEW a \in S, NEW n \in Nat,
         d[a] = c[a] + n, \A x \in S \ {a} : d[x] = c[x]
  PROVE  Total(d, S) = Total(c, S) + n
<1>1. d[a] = c[a] + n /\ \A x \in S \ {a} : d[x] = c[x]
  OBVIOUS
<1>2. S \in SUBSET S /\ S \ {a} \in SUBSET S
  OBVIOUS
<1>3. IsFiniteSet(S \ {a})
  BY FS_RemoveElement
<1>4. Total(d, S \ {a}) = Total(c, S \ {a})
  BY <1>1, <1>3, TotalSame
<1>5. Total(d, S) = d[a] + Total(d, S \ {a}) /\ Total(c, S) = c[a] + Total(c, S \ {a})
  <2>1. (\A x \in S : d[x] \in Nat) /\ \A x \in S : c[x] \in Nat
    OBVIOUS
  <2>2. \A y \in S : Total(d, S) = d[y] + Total(d, S \ {y})
    BY <1>2, <2>1, TotalTakes
  <2>3. \A y \in S : Total(c, S) = c[y] + Total(c, S \ {y})
    BY <1>2, <2>1, TotalTakes
  <2> QED
    BY <2>2, <2>3
<1>6. Total(c, S \ {a}) \in Nat
  <2>1. \A x \in S : c[x] \in Nat
    OBVIOUS
  <2> QED
    BY <1>2, <2>1, TotalTakes
<1> QED
  BY <1>1, <1>4, <1>5, <1>6

(* Nothing counts for anything. *)
LEMMA TotalZero ==
  ASSUME NEW S, IsFiniteSet(S), NEW c, \A x \in S : c[x] = 0
  PROVE  Total(c, S) = 0
<1> DEFINE Bad == {T \in SUBSET S : Total(c, T) # 0}
<1>1. SUFFICES ASSUME Bad # {} PROVE FALSE
  <2>1. S \in SUBSET S
    OBVIOUS
  <2> QED
    BY <2>1
<1>2. PICK T \in Bad : \A u \in SUBSET T : u # T => u \notin Bad
  <2>1. Bad \subseteq SUBSET S
    OBVIOUS
  <2> HIDE DEF Bad
  <2> QED
    BY <1>1, <2>1, SmallestSet
<1>3. T \in SUBSET S /\ Total(c, T) # 0 /\ \A u \in SUBSET T : u # T => Total(c, u) = 0
  BY <1>2
<1>4. IsFiniteSet(T)
  BY <1>3, FS_Subset
<1>5. Total(c, T) = IF T = {} THEN 0 ELSE c[Pick(T)] + Total(c, T \ {Pick(T)})
  BY <1>4, TotalPicks
<1>6. CASE T # {}
  <2>1. Pick(T) \in T
    BY <1>6, PickIn
  <2>2. T \ {Pick(T)} \in SUBSET T /\ T \ {Pick(T)} # T
    BY <2>1
  <2> QED
    BY <1>3, <1>5, <1>6, <2>1, <2>2
<1> QED
  BY <1>3, <1>5, <1>6

-----------------------------------------------------------------------------
(***************************************************************************)
(* The shared files.  As long as no living process has lost its lock file,  *)
(* who changes a file is alone with it: the lock is his, nobody else is     *)
(* inside, and what he read is still what the file holds.                   *)
(***************************************************************************)

ContractRec == [review : Nat, status : {"active", "completed", "failed"}, evaluated : BOOLEAN]
ReviewRec == [of : Proposals, decision : {"approved", "rejected"}]
OpsOf(f) == {NoOp} \cup IF f = "registry" THEN MarkOps ELSE FinalizeOps \cup ContractOps

FilesTypeOK ==
  /\ team \in Teams /\ file \in {"registry", "handoff"}
  /\ crashed \subseteq Processes
  /\ pc \in [Processes -> {"idle", "opening", "looking", "removing", "holding", "changing", "leaving"}]
  /\ op \in [Processes -> OpsOf(file)] /\ DOMAIN snapshot = Processes
  /\ registry \in Registries \cup {NoFile}
  /\ reviews \in Seq(ReviewRec)
  /\ contracts \in [Proposals -> Seq(ContractRec)]
  /\ accepted \in [registry : Registries, contracts : [Proposals -> ContractRec]]

Critical(p) == Alive(p) /\ pc[p] \in {"holding", "changing", "leaving"}

(* The lock excludes, and only a lock of the dead has been found stale.     *)
LockInv ==
  /\ \A p \in Processes : Critical(p) => lock = p
  /\ lock \in Processes \ crashed => Critical(lock)
  /\ stale => lock \in crashed
  /\ \A p \in Processes : Alive(p) /\ pc[p] = "removing" => crashed # {}

Accounted(pr) ==
  IF contracts[pr] = <<>> THEN accepted.contracts[pr] = Contract(0)
  ELSE /\ Len(contracts[pr]) = 1
       /\ LET c == contracts[pr][1] IN
            /\ c.review \in 1..Len(reviews) /\ Approved(c.review)
            /\ c.status = accepted.contracts[pr].status
            /\ c.evaluated = accepted.contracts[pr].evaluated

(* What a process that is about to write has read is what it overwrites.    *)
ReadInv ==
  \A p \in Processes : Alive(p) /\ pc[p] = "changing" =>
    /\ op[p].kind = "mark" => registry # NoFile /\ snapshot[p] = registry
    /\ op[p].kind = "finalize" =>
         /\ contracts[op[p].of] = <<>>
         /\ snapshot[p] \in 1..Len(reviews) /\ Approved(snapshot[p])
    /\ op[p].kind \in {"evaluate", "resolve"} =>
         contracts[op[p].of] # <<>> /\ snapshot[p] = contracts[op[p].of][1]

KeptInv ==
  /\ file = "registry" => accepted.registry = IF registry = NoFile THEN NewRegistry ELSE registry
  /\ file = "handoff" => \A pr \in Proposals : Accounted(pr)

FilesInv == FilesTypeOK /\ LockInv /\ ReadInv /\ KeptInv

(* It takes a dead process and two others to rob a living one.              *)
RobbedByThree == \E c \in crashed : \E p, q \in Processes \ {c} : p # q
SharedInv == IF robbed THEN RobbedByThree ELSE FilesInv

LEMMA FilesInitially == FilesInit => ~robbed /\ FilesInv
<1> SUFFICES ASSUME FilesInit PROVE ~robbed /\ FilesInv
  OBVIOUS
<1>1. NewRegistry \in Registries /\ Contract(0) \in ContractRec
  BY DEF NewRegistry, Registries, Contract, ContractRec
<1>2. FilesTypeOK
  BY <1>1 DEF FilesInit, FilesTypeOK, Processes, OpsOf
<1> QED
  BY <1>2, FilesAssumption DEF FilesInit, FilesInv, LockInv, ReadInv, KeptInv, Critical, Accounted, Processes

LEMMA MarkedTyped ==
  ASSUME NEW r \in Registries, NEW o \in MarkOps
  PROVE  Marked(r, o) \in Registries
BY DEF Registries, MarkOps, Marked

LEMMA AmendedTyped ==
  ASSUME NEW c \in ContractRec, NEW o \in ContractOps
  PROVE  Amended(c, o) \in ContractRec
<1>1. CASE \E pr \in Proposals : o = [kind |-> "evaluate", of |-> pr]
  <2>1. Amended(c, o) = [c EXCEPT !.evaluated = TRUE]
    BY <1>1 DEF Amended
  <2>2. TRUE \in BOOLEAN
    OBVIOUS
  <2> QED
    BY <2>1, <2>2, Zenon DEF ContractRec
<1>2. CASE \E pr \in Proposals, s \in {"completed", "failed"} : o = [kind |-> "resolve", of |-> pr, status |-> s]
  BY <1>2 DEF ContractRec, Amended
<1> QED
  BY <1>1, <1>2 DEF ContractOps

(* The kind of a change tells what it holds.                                *)
LEMMA Kinds ==
  ASSUME NEW f, NEW o \in OpsOf(f)
  PROVE  /\ o.kind = "mark" => o \in MarkOps /\ f = "registry"
         /\ o.kind = "finalize" => o \in FinalizeOps /\ o.of \in Proposals /\ f # "registry"
         /\ o.kind \in {"evaluate", "resolve"} => o \in ContractOps /\ o.of \in Proposals /\ f # "registry"
BY DEF OpsOf, NoOp, MarkOps, FinalizeOps, ContractOps

(* The processes at work on the lock; the files are not touched.            *)
LEMMA LockStep ==
  ASSUME FilesInv, ~robbed', NEW p \in Processes,
         \/ \E o \in OpsOf(file) : Calls(p, o)
         \/ CreatesLock(p) \/ FindsLock(p) \/ LooksAtLock(p) \/ RemovesStale(p) \/ Unlocks(p)
         \/ Crashes(p) \/ LockAges
  PROVE  FilesInv'
<1> USE DEF FilesInv, lockVars, dataVars, Alive, Processes
<1>1. FilesTypeOK'
  <2>1. UNCHANGED <<team, file, registry, reviews, contracts, accepted>> /\ crashed' \subseteq Processes
    BY DEF FilesTypeOK, Calls, CreatesLock, FindsLock, LooksAtLock, RemovesStale, Unlocks, Crashes, LockAges
  <2>2. pc' \in [Processes -> {"idle", "opening", "looking", "removing", "holding", "changing", "leaving"}]
    BY DEF FilesTypeOK, Calls, CreatesLock, FindsLock, LooksAtLock, RemovesStale, Unlocks, Crashes, LockAges, At
  <2>3. op' \in [Processes -> OpsOf(file)]
    BY DEF FilesTypeOK, Calls, CreatesLock, FindsLock, LooksAtLock, RemovesStale, Unlocks, Crashes, LockAges, OpsOf
  <2>4. DOMAIN snapshot' = Processes
    BY DEF FilesTypeOK, Calls, CreatesLock, FindsLock, LooksAtLock, RemovesStale, Unlocks, Crashes, LockAges
  <2> QED
    BY <2>1, <2>2, <2>3, <2>4 DEF FilesTypeOK, OpsOf
<1>2. KeptInv'
  BY DEF KeptInv, Accounted, Approved, Calls, CreatesLock, FindsLock, LooksAtLock, RemovesStale, Unlocks, Crashes, LockAges
<1>3. ReadInv'
  <2> SUFFICES ASSUME NEW q \in Processes, Alive(q)', pc'[q] = "changing"
               PROVE  Alive(q) /\ pc[q] = "changing" /\ op'[q] = op[q] /\ snapshot'[q] = snapshot[q]
                      /\ UNCHANGED <<team, registry, contracts, reviews>>
    BY <1>2 DEF ReadInv, Approved, Calls, CreatesLock, FindsLock, LooksAtLock, RemovesStale, Unlocks, Crashes, LockAges
  <2> QED
    BY DEF FilesTypeOK, Calls, CreatesLock, FindsLock, LooksAtLock, RemovesStale, Unlocks, Crashes, LockAges, At
<1>4. LockInv'
  <2>1. CASE \E o \in OpsOf(file) : Calls(p, o)
    <3>1. pc[p] = "idle" /\ pc' = [pc EXCEPT ![p] = "opening"] /\ UNCHANGED <<team, lock, stale, crashed>>
      BY <2>1 DEF Calls, At
    <3> QED
      BY <3>1 DEF FilesTypeOK, LockInv, Critical
  <2>2. CASE CreatesLock(p)
    BY <2>2, FilesAssumption DEF FilesTypeOK, LockInv, Critical, CreatesLock, LockFree, At
  <2>3. CASE FindsLock(p)
    BY <2>3 DEF FilesTypeOK, LockInv, Critical, FindsLock, At
  <2>4. CASE LooksAtLock(p)
    BY <2>4 DEF FilesTypeOK, LockInv, Critical, LooksAtLock, At
  <2>5. CASE RemovesStale(p)
    <3>1. lock \notin Processes \ crashed
      BY <2>5 DEF RemovesStale
    <3>2. \A q \in Processes : ~Critical(q)
      BY <3>1 DEF LockInv, Critical
    <3>3. Nobody \notin Processes
      BY FilesAssumption DEF FilesTypeOK
    <3> QED
      BY <2>5, <3>2, <3>3 DEF FilesTypeOK, LockInv, Critical, RemovesStale, At
  <2>6. CASE Unlocks(p)
    BY <2>6, FilesAssumption DEF FilesTypeOK, LockInv, Critical, Unlocks, At
  <2>7. CASE Crashes(p)
    BY <2>7 DEF FilesTypeOK, LockInv, Critical, Crashes
  <2>8. CASE LockAges
    BY <2>8 DEF FilesTypeOK, LockInv, Critical, LockAges
  <2> QED
    BY <2>1, <2>2, <2>3, <2>4, <2>5, <2>6, <2>7, <2>8
<1> QED
  BY <1>1, <1>2, <1>3, <1>4

(* The latest review of a proposal is one of those there are.               *)
LEMMA LatestIsReview ==
  ASSUME FilesTypeOK, NEW pr
  PROVE  LatestReview(pr) = 0 \/ LatestReview(pr) \in 1..Len(reviews)
<1> DEFINE T == {i \in DOMAIN reviews : reviews[i].of = pr}
<1>1. DOMAIN reviews = 1..Len(reviews) /\ Len(reviews) \in Nat
  BY DEF FilesTypeOK
<1>2. T \subseteq 0..Len(reviews) /\ T \subseteq DOMAIN reviews
  BY <1>1
<1>3. CASE T = {}
  BY <1>3 DEF LatestReview
<1>4. CASE T # {}
  <2>1. \E k \in T : \A j \in T : j <= k
    <3> HIDE DEF T
    <3> QED BY <1>1, <1>2, <1>4, MaxExists
  <2>2. LatestReview(pr) \in T
    BY <2>1, <1>4 DEF LatestReview
  <2> QED BY <2>2, <1>1, <1>2
<1> QED BY <1>3, <1>4

(* The changes themselves.                                                  *)
LEMMA MarkStep ==
  ASSUME FilesInv, NEW p \in Processes, Initializes(p) \/ Reads(p) \/ Writes(p)
  PROVE  FilesInv'
<1> USE DEF FilesInv, lockVars, dataVars, Alive, Processes
<1>1. file = "registry" /\ op[p] \in OpsOf("registry") /\ (op[p].kind = "mark" => op[p] \in MarkOps)
  BY Kinds DEF FilesTypeOK, Initializes, Reads, Writes
<1>2. CASE Initializes(p)
  <2>1. NewRegistry \in Registries
    BY DEF NewRegistry, Registries
  <2>2. NewRegistry # NoFile
    BY <2>1, FilesAssumption
  <2> QED
    BY <1>1, <1>2, <2>1, <2>2 DEF FilesTypeOK, LockInv, Critical, ReadInv, Approved, KeptInv, Initializes
<1>3. CASE Reads(p)
  BY <1>1, <1>3 DEF FilesTypeOK, LockInv, Critical, ReadInv, Approved, KeptInv, Reads, At
<1>4. CASE Writes(p)
  <2>1. /\ snapshot[p] = registry /\ registry # NoFile /\ registry \in Registries
        /\ accepted.registry = registry /\ lock = p /\ op[p] \in MarkOps
    BY <1>1, <1>4 DEF FilesTypeOK, LockInv, Critical, ReadInv, KeptInv, Writes, At
  <2>2. Marked(registry, op[p]) \in Registries /\ Marked(registry, op[p]) # NoFile
    BY <2>1, MarkedTyped, FilesAssumption
  <2>3. accepted'.registry = Marked(registry, op[p]) /\ registry' = Marked(registry, op[p])
        /\ accepted' \in [registry : Registries, contracts : [Proposals -> ContractRec]]
    BY <1>4, <2>1, <2>2 DEF FilesTypeOK, Writes
  <2>4. \A q \in Processes : Alive(q) /\ pc[q] = "changing" => q = p
    BY <2>1 DEF LockInv, Critical
  <2>5. UNCHANGED <<team, file, op, snapshot, lock, stale, crashed, reviews, contracts>>
        /\ pc' = [pc EXCEPT ![p] = "leaving"] /\ Alive(p) /\ pc[p] = "changing"
    BY <1>4 DEF Writes, At
  <2>6. FilesTypeOK'
    BY <2>2, <2>3, <2>5 DEF FilesTypeOK
  <2>7. LockInv' /\ ReadInv'
    BY <2>4, <2>5 DEF FilesTypeOK, LockInv, Critical, ReadInv
  <2>8. KeptInv'
    BY <1>1, <2>2, <2>3, <2>5 DEF KeptInv
  <2> QED
    BY <2>6, <2>7, <2>8
<1> QED
  BY <1>2, <1>3, <1>4
LEMMA ReviewStep ==
  ASSUME FilesInv, NEW pr \in Proposals, NEW d \in {"approved", "rejected"}, Reviews(pr, d)
  PROVE  FilesInv'
<1> USE DEF FilesInv, lockVars, dataVars, Alive, Processes
<1> DEFINE review == [of |-> pr, decision |-> d]
<1>1. review \in ReviewRec /\ reviews' = Append(reviews, review) /\ reviews \in Seq(ReviewRec)
  BY DEF ReviewRec, FilesTypeOK, Reviews
<1>2. /\ reviews' \in Seq(ReviewRec) /\ Len(reviews') = Len(reviews) + 1 /\ Len(reviews) \in Nat
      /\ \A i \in 1..Len(reviews) : reviews'[i] = reviews[i]
  <2> HIDE DEF review
  <2> QED BY <1>1
<1>3. \A i \in 1..Len(reviews) : i \in 1..Len(reviews') /\ (Approved(i) => Approved(i)')
  BY <1>2 DEF Approved
<1>4. UNCHANGED <<team, file, op, snapshot, pc, lock, stale, crashed, registry, contracts, accepted>>
  BY DEF Reviews
<1> QED
  BY <1>2, <1>3, <1>4 DEF FilesTypeOK, LockInv, Critical, ReadInv, KeptInv, Accounted

LEMMA ReadContractStep ==
  ASSUME FilesInv, NEW p \in Processes, ReadsForContract(p) \/ ReadsContract(p)
  PROVE  FilesInv'
<1> USE DEF FilesInv, lockVars, dataVars, Alive, Processes
<1>1. op[p] \in OpsOf(file)
  BY DEF FilesTypeOK
<1>2. CASE ReadsForContract(p)
  <2>1. /\ UNCHANGED <<team, file, op, lock, stale, crashed, registry, reviews, contracts, accepted>>
        /\ Alive(p) /\ pc[p] = "holding" /\ op[p].kind = "finalize"
        /\ snapshot' = [snapshot EXCEPT ![p] = LatestReview(op[p].of)]
        /\ pc' = [pc EXCEPT ![p] = IF Finalizable(op[p].of) THEN "changing" ELSE "leaving"]
    BY <1>2 DEF ReadsForContract, At
  <2>2. Finalizable(op[p].of) =>
          LatestReview(op[p].of) \in 1..Len(reviews) /\ Approved(LatestReview(op[p].of)) /\ contracts[op[p].of] = <<>>
    BY LatestIsReview DEF Finalizable, Approved
  <2>3. FilesTypeOK' /\ KeptInv' /\ LockInv'
    BY <2>1 DEF FilesTypeOK, KeptInv, Accounted, Approved, LockInv, Critical
  <2>4. ReadInv'
    <3> SUFFICES ASSUME NEW q \in Processes, q \notin crashed, pc'[q] = "changing"
                 PROVE  /\ op[q].kind = "mark" => registry # NoFile /\ snapshot'[q] = registry
                        /\ op[q].kind = "finalize" =>
                             /\ contracts[op[q].of] = <<>>
                             /\ snapshot'[q] \in 1..Len(reviews) /\ Approved(snapshot'[q])
                        /\ op[q].kind \in {"evaluate", "resolve"} =>
                             contracts[op[q].of] # <<>> /\ snapshot'[q] = contracts[op[q].of][1]
      BY <2>1 DEF ReadInv, Approved
    <3>1. CASE q = p
      BY <2>1, <2>2, <3>1 DEF FilesTypeOK
    <3>2. CASE q # p
      BY <2>1, <3>2 DEF FilesTypeOK, ReadInv
    <3> QED BY <3>1, <3>2
  <2> QED
    BY <2>3, <2>4
<1>3. CASE ReadsContract(p)
  <2>1. /\ UNCHANGED <<team, file, op, lock, stale, crashed, registry, reviews, contracts, accepted>>
        /\ Alive(p) /\ pc[p] = "holding" /\ op[p].kind \in {"evaluate", "resolve"}
        /\ snapshot' = [snapshot EXCEPT ![p] = IF contracts[op[p].of] = <<>> THEN NoFile ELSE contracts[op[p].of][1]]
        /\ pc' = [pc EXCEPT ![p] = IF contracts[op[p].of] = <<>> THEN "leaving" ELSE "changing"]
    BY <1>3 DEF ReadsContract, At
  <2>2. FilesTypeOK' /\ KeptInv' /\ LockInv'
    BY <2>1 DEF FilesTypeOK, KeptInv, Accounted, Approved, LockInv, Critical
  <2>3. ReadInv'
    <3> SUFFICES ASSUME NEW q \in Processes, q \notin crashed, pc'[q] = "changing"
                 PROVE  /\ op[q].kind = "mark" => registry # NoFile /\ snapshot'[q] = registry
                        /\ op[q].kind = "finalize" =>
                             /\ contracts[op[q].of] = <<>>
                             /\ snapshot'[q] \in 1..Len(reviews) /\ Approved(snapshot'[q])
                        /\ op[q].kind \in {"evaluate", "resolve"} =>
                             contracts[op[q].of] # <<>> /\ snapshot'[q] = contracts[op[q].of][1]
      BY <2>1 DEF ReadInv, Approved
    <3>1. CASE q = p
      BY <2>1, <3>1 DEF FilesTypeOK
    <3>2. CASE q # p
      BY <2>1, <3>2 DEF FilesTypeOK, ReadInv
    <3> QED BY <3>1, <3>2
  <2> QED
    BY <2>2, <2>3
<1> QED
  BY <1>2, <1>3

LEMMA WriteContractStep ==
  ASSUME FilesInv, NEW p \in Processes, WritesContract(p) \/ WritesAmended(p)
  PROVE  FilesInv'
<1> USE DEF FilesInv, lockVars, dataVars, Alive, Processes
<1>1. /\ op[p] \in OpsOf(file) /\ op[p].of \in Proposals /\ file = "handoff"
      /\ Alive(p) /\ pc[p] = "changing" /\ pc' = [pc EXCEPT ![p] = "leaving"]
      /\ UNCHANGED <<team, file, op, snapshot, lock, stale, crashed, registry, reviews>>
  BY Kinds DEF FilesTypeOK, WritesContract, WritesAmended, At
<1> DEFINE pr == op[p].of
<1>2. contracts[pr] \in Seq(ContractRec) /\ accepted.contracts[pr] \in ContractRec
  BY <1>1 DEF FilesTypeOK
<1>3. /\ accepted'.registry = accepted.registry /\ accepted' \in [registry : Registries, contracts : [Proposals -> ContractRec]]
      /\ contracts' \in [Proposals -> Seq(ContractRec)] /\ Accounted(pr)'
      /\ \A other \in Proposals : other # pr =>
           contracts'[other] = contracts[other] /\ accepted'.contracts[other] = accepted.contracts[other]
  <2>1. CASE WritesContract(p)
    <3>1. contracts[pr] = <<>> /\ snapshot[p] \in 1..Len(reviews) /\ Approved(snapshot[p])
      BY <1>1, <2>1 DEF ReadInv, WritesContract
    <3>2. accepted' = accepted /\ accepted.contracts[pr] = Contract(0)
      BY <1>1, <2>1, <3>1 DEF KeptInv, Accounted, WritesContract
    <3>3. Contract(snapshot[p]) \in ContractRec
      BY <3>1 DEF Contract, ContractRec
    <3>4. contracts' = [contracts EXCEPT ![pr] = <<Contract(snapshot[p])>>]
      BY <2>1, <3>1 DEF WritesContract, FilesTypeOK
    <3>5. contracts'[pr] = <<Contract(snapshot[p])>>
      BY <1>1, <3>4 DEF FilesTypeOK
    <3> DEFINE c == Contract(snapshot[p])
    <3>6. c.review = snapshot[p] /\ c.status = Contract(0).status /\ c.evaluated = Contract(0).evaluated
      BY DEF Contract
    <3> HIDE DEF c
    <3>7. Len(<<c>>) = 1 /\ <<c>>[1] = c /\ <<c>> # <<>>
      OBVIOUS
    <3>8. contracts'[pr] = <<c>> /\ UNCHANGED <<reviews, accepted>>
      BY <1>1, <3>2, <3>5 DEF c
    <3>9. Accounted(pr)'
      BY <1>1, <3>1, <3>2, <3>6, <3>7, <3>8 DEF Accounted, Approved
    <3> QED
      BY <1>1, <3>2, <3>3, <3>4, <3>9 DEF FilesTypeOK
  <2>2. CASE WritesAmended(p)
    <3> DEFINE c == Amended(contracts[pr][1], op[p])
               a == Amended(accepted.contracts[pr], op[p])
    <3>1. contracts[pr] # <<>> /\ snapshot[p] = contracts[pr][1] /\ op[p] \in ContractOps
      BY <1>1, <2>2, Kinds DEF ReadInv, WritesAmended
    <3>2. Accounted(pr) /\ Len(contracts[pr]) = 1 /\ contracts[pr][1] \in ContractRec
      BY <1>1, <1>2, <3>1 DEF KeptInv, Accounted
    <3>3. c \in ContractRec /\ a \in ContractRec
      BY <1>2, <3>1, <3>2, AmendedTyped
    <3>4. c.review = contracts[pr][1].review /\ c.status = a.status /\ c.evaluated = a.evaluated
      BY <1>2, <3>1, <3>2 DEF Accounted, Amended, ContractRec
    <3> HIDE DEF c, a
    <3>5. contracts' = [contracts EXCEPT ![pr] = [contracts[pr] EXCEPT ![1] = c]]
          /\ accepted' = [accepted EXCEPT !.contracts = [accepted.contracts EXCEPT ![pr] = a]]
      BY <2>2, <3>1 DEF WritesAmended, c, a
    <3>6. contracts'[pr] \in Seq(ContractRec) /\ Len(contracts'[pr]) = 1 /\ contracts'[pr][1] = c
          /\ contracts' \in [Proposals -> Seq(ContractRec)]
      BY <1>1, <1>2, <3>2, <3>3, <3>5 DEF FilesTypeOK
    <3>7. accepted' \in [registry : Registries, contracts : [Proposals -> ContractRec]]
          /\ accepted'.contracts[pr] = a /\ accepted'.registry = accepted.registry
      BY <1>1, <3>3, <3>5 DEF FilesTypeOK
    <3>8. Accounted(pr)'
      BY <1>1, <3>1, <3>2, <3>4, <3>6, <3>7 DEF Accounted, Approved
    <3>9. \A other \in Proposals : other # pr =>
           contracts'[other] = contracts[other] /\ accepted'.contracts[other] = accepted.contracts[other]
      BY <3>5 DEF FilesTypeOK
    <3> QED
      BY <3>6, <3>7, <3>8, <3>9
  <2> QED
    BY <2>1, <2>2
<1>4. FilesTypeOK'
  BY <1>1, <1>3 DEF FilesTypeOK
<1>5. LockInv' /\ (\A q \in Processes : Alive(q) /\ pc'[q] = "changing" => FALSE)
  BY <1>1 DEF FilesTypeOK, LockInv, Critical
<1>6. ReadInv'
  BY <1>1, <1>5 DEF ReadInv
<1>7. KeptInv'
  <2>1. \A other \in Proposals : Accounted(other)'
    BY <1>1, <1>3 DEF KeptInv, Accounted, Approved
  <2> QED BY <1>1, <1>3, <2>1 DEF KeptInv
<1> QED
  BY <1>4, <1>5, <1>6, <1>7

LEMMA FilesStep ==
  ASSUME FilesInv, ~robbed', [FilesNext]_filesVars
  PROVE  FilesInv'
<1>1. CASE UNCHANGED filesVars
  BY <1>1 DEF filesVars, lockVars, dataVars, FilesInv, FilesTypeOK, LockInv, Critical, ReadInv, KeptInv,
              Accounted, Approved, Alive, Processes
<1>2. ASSUME NEW p \in Processes, NEW o \in IF file = "registry" THEN MarkOps ELSE FinalizeOps \cup ContractOps,
             Calls(p, o)
      PROVE  FilesInv'
  BY <1>2, LockStep DEF OpsOf
<1>3. ASSUME NEW p \in Processes,
             \/ CreatesLock(p) \/ FindsLock(p) \/ LooksAtLock(p) \/ RemovesStale(p) \/ Unlocks(p) \/ Crashes(p)
             \/ Initializes(p) \/ Reads(p) \/ Writes(p)
             \/ ReadsForContract(p) \/ WritesContract(p) \/ ReadsContract(p) \/ WritesAmended(p)
      PROVE  FilesInv'
  BY <1>3, LockStep, MarkStep, ReadContractStep, WriteContractStep
<1>4. CASE LockAges
  BY <1>4, LockStep DEF LockAges, FilesInv, FilesTypeOK
<1>5. ASSUME NEW pr \in Proposals, NEW d \in {"approved", "rejected"}, Reviews(pr, d)
      PROVE  FilesInv'
  BY <1>5, ReviewStep
<1> QED
  BY <1>1, <1>2, <1>3, <1>4, <1>5 DEF FilesNext

(* Only who removes a stale lock can rob another: he found it stale, so     *)
(* somebody had died.                                                       *)
LEMMA RobberyStep ==
  ASSUME FilesInv, ~robbed, robbed', [FilesNext]_filesVars
  PROVE  RobbedByThree'
<1>1. PICK p \in Processes : RemovesStale(p)
  BY DEF FilesNext, filesVars, lockVars, Calls, CreatesLock, FindsLock, LooksAtLock, Unlocks, Crashes, Initializes,
         Reads, Writes, ReadsForContract, WritesContract, ReadsContract, WritesAmended, LockAges, Reviews
<1>2. PICK c \in crashed : c # p /\ c # lock
  BY <1>1 DEF FilesInv, LockInv, RemovesStale, At, Alive
<1>3. lock \in Processes /\ lock # p
  BY <1>1 DEF FilesInv, LockInv, Critical, RemovesStale, At
<1> QED
  BY <1>1, <1>2, <1>3 DEF RobbedByThree, RemovesStale, Processes

(* Once robbed, always robbed, and the dead do not come back.               *)
LEMMA RobbedStep ==
  ASSUME robbed, RobbedByThree, [FilesNext]_filesVars
  PROVE  robbed' /\ RobbedByThree'
<1>1. robbed' /\ crashed \subseteq crashed' /\ team' = team
  BY DEF FilesNext, filesVars, lockVars, Calls, CreatesLock, FindsLock, LooksAtLock, RemovesStale, Unlocks, Crashes,
         Initializes, Reads, Writes, ReadsForContract, WritesContract, ReadsContract, WritesAmended, LockAges, Reviews
<1> QED
  BY <1>1 DEF RobbedByThree, Processes

LEMMA SharedStep == SharedInv /\ [FilesNext]_filesVars => SharedInv'
BY FilesStep, RobberyStep, RobbedStep DEF SharedInv

LEMMA FilesHold == SharedInv => ChangesAreKept
<1> SUFFICES ASSUME ~robbed, FilesInv PROVE ChangesAreKept
  BY DEF SharedInv, ChangesAreKept, RobbedByThree
<1>1. ASSUME file = "handoff", NEW pr \in Proposals, contracts[pr] # <<>>
      PROVE  contracts[pr][1] = [accepted.contracts[pr] EXCEPT !.review = contracts[pr][1].review]
  <2>1. /\ contracts[pr] \in Seq(ContractRec) /\ Len(contracts[pr]) = 1
        /\ contracts[pr][1].status = accepted.contracts[pr].status
        /\ contracts[pr][1].evaluated = accepted.contracts[pr].evaluated
    BY <1>1 DEF FilesInv, FilesTypeOK, KeptInv, Accounted
  <2>2. contracts[pr][1] \in ContractRec /\ accepted.contracts[pr] \in ContractRec
    BY <1>1, <2>1 DEF FilesInv, FilesTypeOK
  <2> QED
    BY <2>1, <2>2 DEF ContractRec
<1>2. ASSUME file = "handoff", NEW pr \in Proposals
      PROVE  /\ Len(contracts[pr]) <= 1
             /\ contracts[pr] # <<>> => Approved(contracts[pr][1].review)
  <2> Len(<<>>) = 0
    OBVIOUS
  <2>1. Accounted(pr)
    BY <1>2 DEF FilesInv, KeptInv
  <2>2. CASE contracts[pr] = <<>>
    BY <2>2
  <2>3. CASE contracts[pr] # <<>>
    <3>1. Len(contracts[pr]) = 1 /\ Approved(contracts[pr][1].review)
      BY <2>1, <2>3, Zenon DEF Accounted
    <3> QED BY <3>1
  <2> QED
    BY <2>2, <2>3
<1> QED
  BY <1>1, <1>2 DEF FilesInv, KeptInv, ChangesAreKept
-----------------------------------------------------------------------------
(***************************************************************************)
(* From one session to the next.                                           *)
(***************************************************************************)

HandoverTypeOK ==
  /\ onBroken \in OnBroken /\ time \in Nat /\ environment \in BOOLEAN
  /\ healthy \in [Agents -> BOOLEAN] /\ tested \in [Agents -> BOOLEAN]
  /\ verdict \in [Agents -> {"none", "passed", "failed", "fixed"}]
  /\ stage \in [Agents -> {"off", "testing", "fixing", "retesting", "threw", "ready", "closing"}]
  /\ DOMAIN bridge = Agents

(* Everything that ended did so by now, and each open session knows what    *)
(* had ended last when it began; what ends later is no business of its own. *)
ChainInv ==
  /\ \A x \in artifacts : x.endedAt \in 1..time /\ x.session \in 1..time /\ x.startedAt = x.session
  /\ \A a \in Agents : bridge[a].opened =>
       /\ bridge[a].session \in 1..time
       /\ LET before == {x \in artifacts : x.endedAt < bridge[a].session} IN
          IF before = {} THEN bridge[a].from = NoArtifact
          ELSE bridge[a].from \in before /\ \A x \in before : x.endedAt <= bridge[a].from.endedAt
  /\ \A x \in artifacts : x.previous # 0 =>
       \E y \in artifacts : y.session = x.previous /\ y.endedAt < x.startedAt

(* Only a broken environment is fixed, and only under "fix".                *)
VerdictInv ==
  \A a \in Agents :
    /\ stage[a] = "fixing" => onBroken = "fix" /\ ~healthy[a] /\ verdict[a] = "failed"
    /\ stage[a] = "retesting" => onBroken = "fix"
    /\ stage[a] = "ready" /\ tested[a] =>
         /\ healthy[a] <=> verdict[a] = "passed"
         /\ onBroken = "throw" => healthy[a]

HandoverInv == HandoverTypeOK /\ ChainInv /\ VerdictInv

LEMMA HandoverInitially == HandoverInit => HandoverInv
BY DEF HandoverInit, HandoverInv, HandoverTypeOK, ChainInv, VerdictInv, Closed

(* What ended last is found, whatever has ended.                            *)
LEMMA LatestIsFound ==
  ASSUME ChainInv, time \in Nat, artifacts # {}
  PROVE  LatestArtifact \in artifacts /\ \A y \in artifacts : y.endedAt <= LatestArtifact.endedAt
<1> DEFINE T == {x.endedAt : x \in artifacts}
<1>1. T \subseteq 0..time /\ T # {}
  BY DEF ChainInv
<1>2. PICK k \in T : \A j \in T : j <= k
  <2> HIDE DEF T
  <2> QED BY <1>1, MaxExists
<1>3. \E x \in artifacts : \A y \in artifacts : y.endedAt <= x.endedAt
  BY <1>2
<1> QED
  BY <1>3 DEF LatestArtifact

LEMMA HandoverStep == HandoverInv /\ [HandoverNext]_handoverVars => HandoverInv'
<1> SUFFICES ASSUME HandoverInv, [HandoverNext]_handoverVars PROVE HandoverInv'
  OBVIOUS
<1> USE DEF HandoverInv
<1>1. CASE UNCHANGED handoverVars
  BY <1>1 DEF handoverVars, HandoverTypeOK, ChainInv, VerdictInv
<1>2. ASSUME NEW a \in Agents, NEW smokeTest \in BOOLEAN, Opens(a, smokeTest)
      PROVE  HandoverInv'
  <2>1. HandoverTypeOK' /\ VerdictInv'
    <3>1. /\ stage[a] = "off" /\ stage' = [stage EXCEPT ![a] = IF artifacts # {} /\ smokeTest THEN "testing" ELSE "ready"]
          /\ tested' = [tested EXCEPT ![a] = artifacts # {} /\ smokeTest]
      BY <1>2 DEF Opens, Goes
    <3>2. HandoverTypeOK'
      BY <1>2, <3>1 DEF HandoverTypeOK, Opens
    <3>3. stage'[a] = "ready" => ~tested'[a]
      BY <3>1 DEF HandoverTypeOK
    <3>4. UNCHANGED onBroken /\ \A b \in Agents \ {a} :
            UNCHANGED <<stage[b], tested[b], healthy[b], verdict[b]>>
      BY <1>2, <3>1 DEF Opens
    <3>5. stage'[a] \in {"testing", "ready"}
      BY <3>1 DEF HandoverTypeOK
    <3> QED
      BY <3>2, <3>3, <3>4, <3>5 DEF VerdictInv
  <2>2. ChainInv'
    <3>1. /\ time \in Nat /\ time' = time + 1 /\ artifacts' = artifacts /\ DOMAIN bridge = Agents
          /\ bridge' = [bridge EXCEPT ![a] = [opened |-> TRUE, session |-> time + 1, from |-> LatestArtifact]]
      BY <1>2 DEF Opens, HandoverTypeOK
    <3>2. {x \in artifacts : x.endedAt < time + 1} = artifacts
      BY <3>1 DEF ChainInv
    <3>3. bridge'[a].session = time + 1 /\ bridge'[a].from = LatestArtifact
      BY <3>1
    <3>4. artifacts = {} => LatestArtifact = NoArtifact
      BY DEF LatestArtifact
    <3>5. ASSUME NEW b \in Agents, bridge'[b].opened
          PROVE  /\ bridge'[b].session \in 1..time'
                 /\ LET before == {x \in artifacts : x.endedAt < bridge'[b].session} IN
                    IF before = {} THEN bridge'[b].from = NoArtifact
                    ELSE bridge'[b].from \in before /\ \A x \in before : x.endedAt <= bridge'[b].from.endedAt
      <4>1. CASE b = a
        BY <3>1, <3>2, <3>3, <3>4, <4>1, LatestIsFound
      <4>2. CASE b # a
        BY <3>1, <3>5, <4>2 DEF ChainInv
      <4> QED BY <4>1, <4>2
    <3> QED
      BY <3>1, <3>5 DEF ChainInv
  <2> QED
    BY <2>1, <2>2
<1>3. ASSUME NEW a \in Agents, SmokeTest(a) \/ Fixes(a) \/ FixerThrows(a) \/ TestsAgain(a)
      PROVE  HandoverInv'
  <2>1. UNCHANGED <<time, artifacts, bridge, onBroken, tested>>
    BY <1>3 DEF SmokeTest, Fixes, FixerThrows, TestsAgain, Answers
  <2>2. ChainInv'
    BY <2>1 DEF ChainInv
  <2>3. CASE SmokeTest(a)
    <3>1. PICK works \in {environment, FALSE} : Goes(a, "testing", AfterTest(~works)) /\ Answers(a, works)
      BY <2>3 DEF SmokeTest
    <3> QED
      BY <2>2, <3>1 DEF HandoverTypeOK, VerdictInv, Answers, Goes, AfterTest
  <2>4. CASE Fixes(a) \/ FixerThrows(a)
    BY <2>2, <2>4 DEF HandoverTypeOK, VerdictInv, Fixes, FixerThrows, Goes
  <2>5. CASE TestsAgain(a)
    <3>1. PICK works \in {environment, FALSE} : Goes(a, "retesting", "ready") /\ Answers(a, works)
      BY <2>5 DEF TestsAgain
    <3> QED
      BY <2>2, <3>1 DEF HandoverTypeOK, VerdictInv, Answers, Goes
  <2> QED
    BY <1>3, <2>3, <2>4, <2>5
<1>4. CASE EnvironmentBreaks \/ \E a \in Agents : Resets(a) \/ \E f \in FeatureIds : Passes(a, f)
  <2>1. /\ UNCHANGED <<onBroken, time, artifacts, bridge, healthy, tested, verdict>> /\ environment' \in BOOLEAN
        /\ UNCHANGED stage \/ \E a \in Agents : stage' = [stage EXCEPT ![a] = "closing"]
    BY <1>4 DEF HandoverTypeOK, EnvironmentBreaks, Resets, Passes, Goes
  <2>2. HandoverTypeOK' /\ ChainInv'
    BY <2>1 DEF HandoverTypeOK, ChainInv
  <2>3. VerdictInv'
    BY <2>1 DEF HandoverTypeOK, VerdictInv
  <2> QED BY <2>2, <2>3
<1>5. ASSUME NEW a \in Agents, Ends(a) PROVE HandoverInv'
  BY <1>5 DEF HandoverTypeOK, ChainInv, VerdictInv, Ends, Closed
<1>6. ASSUME NEW a \in Agents, Closes(a) PROVE HandoverInv'
  <2>1. HandoverTypeOK' /\ VerdictInv'
    BY <1>6 DEF HandoverTypeOK, VerdictInv, Closes, Goes
  <2>2. ChainInv'
    <3> DEFINE x == [session |-> bridge[a].session, startedAt |-> bridge[a].session, endedAt |-> time + 1,
                     previous |-> IF bridge[a].from = NoArtifact THEN 0 ELSE bridge[a].from.session,
                     next |-> toDo[a]]
    <3>1. /\ time \in Nat /\ time' = time + 1 /\ artifacts' = artifacts \cup {x} /\ DOMAIN bridge = Agents
          /\ bridge' = [bridge EXCEPT ![a] = Closed] /\ bridge[a].opened
      BY <1>6 DEF Closes, HandoverTypeOK
    <3>2. /\ x.session = bridge[a].session /\ x.startedAt = bridge[a].session /\ x.endedAt = time + 1
          /\ x.previous = IF bridge[a].from = NoArtifact THEN 0 ELSE bridge[a].from.session
      OBVIOUS
    <3>3. x.session \in 1..time
      BY <3>1, <3>2 DEF ChainInv
    <3>4. x.previous # 0 => \E y \in artifacts : y.session = x.previous /\ y.endedAt < x.startedAt
      BY <3>1, <3>2 DEF ChainInv
    <3> HIDE DEF x
    <3>5. ASSUME NEW b \in Agents, bridge'[b].opened
          PROVE  /\ bridge'[b] = bridge[b] /\ bridge[b].opened
                 /\ {y \in artifacts' : y.endedAt < bridge[b].session} = {y \in artifacts : y.endedAt < bridge[b].session}
      <4>1. b # a /\ bridge'[b] = bridge[b]
        BY <3>1, <3>5 DEF Closed
      <4> QED
        BY <3>1, <3>2, <3>5, <4>1 DEF ChainInv
    <3>6. \A b \in Agents : bridge'[b].opened =>
             /\ bridge'[b].session \in 1..time'
             /\ LET before == {y \in artifacts' : y.endedAt < bridge'[b].session} IN
                IF before = {} THEN bridge'[b].from = NoArtifact
                ELSE bridge'[b].from \in before /\ \A y \in before : y.endedAt <= bridge'[b].from.endedAt
      BY <3>1, <3>5 DEF ChainInv
    <3>7. \A y \in artifacts' : y.endedAt \in 1..time' /\ y.session \in 1..time' /\ y.startedAt = y.session
      BY <3>1, <3>2, <3>3 DEF ChainInv
    <3>8. \A y \in artifacts' : y.previous # 0 =>
             \E z \in artifacts' : z.session = y.previous /\ z.endedAt < y.startedAt
      BY <3>1, <3>4 DEF ChainInv
    <3> QED
      BY <3>6, <3>7, <3>8 DEF ChainInv
  <2> QED
    BY <2>1, <2>2
<1> QED
  BY <1>1, <1>2, <1>3, <1>4, <1>5, <1>6 DEF HandoverNext

LEMMA HandoverHolds == HandoverInv => ResumesSoundly
BY DEF HandoverInv, ChainInv, VerdictInv, ResumesSoundly
-----------------------------------------------------------------------------
(***************************************************************************)
(* Back to an earlier step: the rows of a thread and the commits they are  *)
(* mapped to, also half-way through a rollback.                            *)
(***************************************************************************)

RowRec == [step : HistorySteps, content : Nat]
MappingRec == [step : HistorySteps, commit : Nat]
RollbackRec == [stage : {"none", "checked out", "listed", "putting", "done"}, target : Nat,
                kept : SUBSET RowRec, before : SUBSET RowRec]

HistoryTypeOK ==
  /\ contents \in Nat /\ tree \in Nat /\ commits \in Seq(Nat) /\ head \in 0..Len(commits)
  /\ rows \subseteq RowRec /\ putTimes \in [HistorySteps -> Nat]
  /\ mappings \in Seq(MappingRec)
  /\ rollback \in RollbackRec

CommitOf(i) == commits[mappings[i].commit]

(* The commit that is mapped to a step put once is of what its row holds,   *)
(* also while a rollback has taken the row away.                            *)
MappedInv ==
  /\ \A i \in DOMAIN mappings : mappings[i].commit \in 1..Len(commits) /\ putTimes[mappings[i].step] >= 1
  /\ \A r \in rows \cup rollback.before :
       /\ putTimes[r.step] >= 1
       /\ \A i \in DOMAIN mappings :
            mappings[i].step = r.step /\ putTimes[r.step] = 1 => CommitOf(i) = r.content

(* What each stage of a rollback has done so far.                           *)
StageInv ==
  LET upTo == {r \in rollback.before : r.step <= rollback.target} IN
  /\ rollback.stage # "none" =>
       \E i \in DOMAIN mappings : mappings[i].step = rollback.target /\ tree = CommitOf(i)
  /\ rollback.stage = "none" => rollback.before = {}
  /\ rollback.stage \in {"checked out", "listed"} => rows = rollback.before
  /\ rollback.stage \in {"listed", "putting", "done"} => rollback.kept = upTo
  /\ rollback.stage = "putting" => rows \subseteq rollback.kept
  /\ rollback.stage = "done" => rows = rollback.kept

HistoryInv == HistoryTypeOK /\ MappedInv /\ StageInv

LEMMA HistoryInitially == HistoryInit => HistoryInv
<1> SUFFICES ASSUME HistoryInit PROVE HistoryInv
  OBVIOUS
<1>1. NoRollback \in RollbackRec
  BY DEF NoRollback, RollbackRec
<1>2. <<>> \in Seq(Nat) /\ <<>> \in Seq(MappingRec) /\ Len(<<>>) = 0 /\ DOMAIN <<>> = {}
  OBVIOUS
<1> QED
  BY <1>1, <1>2 DEF HistoryInit, HistoryInv, HistoryTypeOK, MappedInv, StageInv, NoRollback

(* The first mapping of a step is one of its mappings.                      *)
LEMMA FirstIsMapping ==
  ASSUME HistoryTypeOK, NEW s, MappingsOf(s) # {}
  PROVE  \E i \in DOMAIN mappings : FirstMapping(s) = mappings[i] /\ mappings[i].step = s
<1>1. MappingsOf(s) \subseteq DOMAIN mappings /\ DOMAIN mappings = 1..Len(mappings) /\ Len(mappings) \in Nat
  BY DEF HistoryTypeOK, MappingsOf
<1>2. \E i \in MappingsOf(s) : \A j \in MappingsOf(s) : i <= j
  BY <1>1, LeastExists
<1> QED
  BY <1>1, <1>2 DEF FirstMapping, MappingsOf

LEMMA MappedShrinks ==
  ASSUME MappedInv, UNCHANGED <<commits, mappings, putTimes>>,
         rows' \cup rollback'.before \subseteq rows \cup rollback.before
  PROVE  MappedInv'
BY DEF MappedInv, CommitOf

LEMMA PutStep ==
  ASSUME HistoryInv, NEW s \in HistorySteps, Put(s)
  PROVE  HistoryInv'
<1> USE DEF HistoryInv
<1>1. /\ Idle /\ rollback.before = {} /\ UNCHANGED <<tree, contents, rollback>>
      /\ rows' = {r \in rows : r.step # s} \cup {Row(s, tree)}
      /\ putTimes' = [putTimes EXCEPT ![s] = @ + 1]
      /\ Commits(s) \/ UNCHANGED <<commits, head, mappings>>
  BY DEF Put, StageInv, Idle
<1>2. Row(s, tree) \in RowRec /\ Row(s, tree).step = s /\ Row(s, tree).content = tree
  BY DEF Row, RowRec, HistoryTypeOK
<1>3. /\ rows' \subseteq RowRec /\ putTimes' \in [HistorySteps -> Nat] /\ putTimes'[s] = putTimes[s] + 1
      /\ \A x \in HistorySteps : putTimes'[x] >= putTimes[x]
      /\ \A x \in HistorySteps \ {s} : putTimes'[x] = putTimes[x]
  BY <1>1, <1>2 DEF HistoryTypeOK
<1>4. /\ commits' \in Seq(Nat) /\ Len(commits') >= Len(commits) /\ head' \in 0..Len(commits')
      /\ \A c \in 1..Len(commits) : commits'[c] = commits[c]
      /\ mappings' \in Seq(MappingRec)
      /\ \A i \in DOMAIN mappings' :
           \/ i \in DOMAIN mappings /\ mappings'[i] = mappings[i]
           \/ mappings'[i].step = s /\ mappings'[i].commit \in 1..Len(commits') /\ CommitOf(i)' = tree
  <2>1. CASE UNCHANGED <<commits, head, mappings>>
    BY <2>1 DEF HistoryTypeOK
  <2>2. CASE Commits(s)
    <3> DEFINE n == Len(commits) + 1
               m == [step |-> s, commit |-> n]
    <3>1. commits \in Seq(Nat) /\ tree \in Nat /\ commits' = Append(commits, tree)
      BY <2>2 DEF Commits, HistoryTypeOK
    <3>2. commits' \in Seq(Nat) /\ Len(commits') = n /\ n \in Nat /\ commits'[n] = tree
          /\ \A c \in 1..Len(commits) : commits'[c] = commits[c]
      BY <3>1
    <3>3. head' = n /\ mappings' \in {Append(mappings, m), mappings}
      BY <2>2, <3>2 DEF Commits
    <3>4. m \in MappingRec /\ m.step = s /\ m.commit = n
      BY <3>2 DEF MappingRec
    <3> HIDE DEF m, n
    <3>5. mappings \in Seq(MappingRec)
      BY DEF HistoryTypeOK
    <3>6. /\ mappings' \in Seq(MappingRec)
          /\ \A i \in DOMAIN mappings' : (i \in DOMAIN mappings /\ mappings'[i] = mappings[i]) \/ mappings'[i] = m
      BY <3>3, <3>4, <3>5
    <3> QED
      BY <3>2, <3>3, <3>4, <3>6 DEF CommitOf, n
  <2> QED BY <1>1, <2>1, <2>2
<1>5. HistoryTypeOK'
  BY <1>1, <1>3, <1>4 DEF HistoryTypeOK
<1>6. \A i \in DOMAIN mappings : mappings[i] \in MappingRec
  BY DEF HistoryTypeOK
<1>7. \A i \in DOMAIN mappings' : mappings'[i].commit \in 1..Len(commits') /\ putTimes'[mappings'[i].step] >= 1
  <2> SUFFICES ASSUME NEW i \in DOMAIN mappings'
               PROVE  mappings'[i].commit \in 1..Len(commits') /\ putTimes'[mappings'[i].step] >= 1
    OBVIOUS
  <2>1. CASE i \in DOMAIN mappings /\ mappings'[i] = mappings[i]
    <3>1. mappings[i].step \in HistorySteps /\ putTimes[mappings[i].step] >= 1
      BY <1>6, <2>1 DEF MappedInv, MappingRec
    <3>2. putTimes'[mappings[i].step] >= putTimes[mappings[i].step] /\ putTimes'[mappings[i].step] \in Nat
          /\ putTimes[mappings[i].step] \in Nat
      BY <1>3, <3>1 DEF HistoryTypeOK
    <3>3. mappings[i].commit \in 1..Len(commits) /\ Len(commits) \in Nat /\ Len(commits') \in Nat
      BY <1>4, <2>1 DEF MappedInv, HistoryTypeOK
    <3> QED
      BY <1>4, <2>1, <3>1, <3>2, <3>3
  <2>2. CASE mappings'[i].step = s /\ mappings'[i].commit \in 1..Len(commits')
    BY <1>3, <2>2 DEF HistoryTypeOK
  <2> QED BY <1>4, <2>1, <2>2
<1>8. ASSUME NEW r \in rows' \cup rollback'.before
      PROVE  /\ putTimes'[r.step] >= 1
             /\ \A i \in DOMAIN mappings' :
                  mappings'[i].step = r.step /\ putTimes'[r.step] = 1 => CommitOf(i)' = r.content
  <2>1. CASE r \in rows /\ r.step # s
    <3>1. r.step \in HistorySteps /\ putTimes'[r.step] = putTimes[r.step]
      BY <1>3, <2>1 DEF HistoryTypeOK, RowRec
    <3>2. ASSUME NEW i \in DOMAIN mappings', mappings'[i].step = r.step, putTimes'[r.step] = 1
          PROVE  CommitOf(i)' = r.content
      <4>1. i \in DOMAIN mappings /\ mappings'[i] = mappings[i] /\ mappings[i].commit \in 1..Len(commits)
        BY <1>4, <2>1, <3>2 DEF MappedInv
      <4> QED
        BY <1>4, <2>1, <3>1, <3>2, <4>1 DEF MappedInv, CommitOf
    <3> QED
      BY <2>1, <3>1, <3>2 DEF MappedInv
  <2>2. CASE r = Row(s, tree)
    <3>1. putTimes[s] \in Nat
      BY DEF HistoryTypeOK
    <3>2. ASSUME NEW i \in DOMAIN mappings', mappings'[i].step = s, putTimes'[s] = 1
          PROVE  CommitOf(i)' = tree
      <4>1. putTimes[s] = 0
        BY <1>3, <3>1, <3>2
      <4> QED
        BY <1>4, <3>2, <4>1 DEF MappedInv
    <3> QED
      BY <1>2, <1>3, <2>2, <3>1, <3>2
  <2> QED BY <1>1, <1>8, <2>1, <2>2
<1>9. MappedInv'
  BY <1>7, <1>8 DEF MappedInv
<1>10. StageInv'
  BY <1>1 DEF StageInv, Idle
<1> QED
  BY <1>5, <1>9, <1>10

LEMMA HistoryStep == HistoryInv /\ [HistoryNext]_historyVars => HistoryInv'
<1> SUFFICES ASSUME HistoryInv, [HistoryNext]_historyVars PROVE HistoryInv'
  OBVIOUS
<1> USE DEF HistoryInv, CommitOf, Idle
<1>1. CASE UNCHANGED historyVars
  BY <1>1 DEF historyVars, HistoryTypeOK, MappedInv, StageInv
<1>2. CASE Works
  <2>1. HistoryTypeOK'
    BY <1>2 DEF Works, HistoryTypeOK
  <2>2. MappedInv'
    BY <1>2 DEF Works, MappedInv, StageInv, HistoryTypeOK
  <2>3. StageInv'
    BY <1>2 DEF Works, StageInv, HistoryTypeOK
  <2> QED
    BY <2>1, <2>2, <2>3
<1>3. ASSUME NEW s \in HistorySteps, Put(s) PROVE HistoryInv'
  BY <1>3, PutStep
<1>4. ASSUME NEW s \in HistorySteps, RollsBack(s) PROVE HistoryInv'
  <2>1. PICK i \in DOMAIN mappings : MappingFor(s) = mappings[i] /\ mappings[i].step = s
    BY <1>4, FirstIsMapping DEF RollsBack, MappingFor
  <2>2. mappings[i].commit \in 1..Len(commits) /\ commits[mappings[i].commit] \in Nat /\ s \in Nat
    BY <2>1, HistoryAssumption DEF MappedInv, HistoryTypeOK, HistorySteps
  <2>3. /\ rollback.stage = "none" /\ head' = mappings[i].commit /\ tree' = commits[mappings[i].commit]
        /\ rollback' = [stage |-> "checked out", target |-> s, kept |-> {}, before |-> rows]
        /\ UNCHANGED <<contents, commits, rows, mappings, putTimes>>
    BY <1>4, <2>1 DEF RollsBack
  <2>4. HistoryTypeOK'
    <3>1. rollback' \in RollbackRec
      BY <2>2, <2>3 DEF HistoryTypeOK, RollbackRec
    <3>2. Len(commits) \in Nat
      BY DEF HistoryTypeOK
    <3>3. head' \in 0..Len(commits)
      <4> DEFINE c == mappings[i].commit
      <4>1. c \in 1..Len(commits) /\ head' = c
        BY <2>2, <2>3
      <4> HIDE DEF c
      <4> QED BY <3>2, <4>1
    <3>4. tree' \in Nat
      BY <2>2, <2>3
    <3> QED
      BY <2>3, <3>1, <3>3, <3>4 DEF HistoryTypeOK
  <2>5. MappedInv'
    BY <2>3 DEF MappedInv
  <2>6. StageInv'
    BY <2>1, <2>3 DEF StageInv
  <2> QED
    BY <2>4, <2>5, <2>6
<1>5. ASSUME NEW s \in HistorySteps, CheckoutFails(s) PROVE HistoryInv'
  <2>1. HistoryTypeOK'
    BY <1>5 DEF CheckoutFails, CommittedTree, HistoryTypeOK
  <2>2. MappedInv'
    BY <1>5 DEF CheckoutFails, CommittedTree, MappedInv, StageInv, HistoryTypeOK
  <2>3. StageInv'
    BY <1>5 DEF CheckoutFails, CommittedTree, StageInv, HistoryTypeOK
  <2> QED
    BY <2>1, <2>2, <2>3
<1>6. CASE Lists
  <2>1. HistoryTypeOK'
    BY <1>6 DEF Lists, Later, HistoryTypeOK, RollbackRec, RowRec
  <2>2. MappedInv'
    BY <1>6 DEF Lists, Later, MappedInv, StageInv, HistoryTypeOK, RollbackRec
  <2>3. StageInv'
    <3>1. \A r \in rows : (~Later(r)) <=> r.step <= rollback.target
      <4>1. \A r \in rows : r.step \in 1..MaxStep
        BY DEF HistoryTypeOK, RowRec, HistorySteps
      <4>2. rollback.target \in Nat /\ MaxStep \in Nat
        BY HistoryAssumption DEF HistoryTypeOK, RollbackRec
      <4> QED
        BY <4>1, <4>2 DEF Later
    <3> QED
      BY <1>6, <3>1 DEF Lists, StageInv, HistoryTypeOK, RollbackRec
  <2> QED
    BY <2>1, <2>2, <2>3
<1>7. CASE DeletesThread \/ RolledBack
  <2>1. HistoryTypeOK'
    BY <1>7 DEF DeletesThread, RolledBack, HistoryTypeOK, RollbackRec, RowRec
  <2>2. MappedInv'
    <3>1. UNCHANGED <<commits, mappings, putTimes>> /\ rows' \cup rollback'.before \subseteq rows \cup rollback.before
      BY <1>7 DEF DeletesThread, RolledBack, StageInv, HistoryTypeOK, RollbackRec
    <3> QED BY <3>1, MappedShrinks
  <2>3. StageInv'
    BY <1>7 DEF DeletesThread, RolledBack, StageInv, HistoryTypeOK, RollbackRec
  <2> QED
    BY <2>1, <2>2, <2>3
<1>8. CASE Resumes
  <2>1. HistoryTypeOK'
    BY <1>8 DEF Resumes, NoRollback, HistoryTypeOK, RollbackRec, RowRec
  <2>2. MappedInv'
    <3>1. UNCHANGED <<commits, mappings, putTimes>> /\ rows' \cup rollback'.before \subseteq rows \cup rollback.before
      BY <1>8 DEF Resumes, NoRollback, StageInv, HistoryTypeOK, RollbackRec
    <3> QED BY <3>1, MappedShrinks
  <2>3. StageInv'
    BY <1>8 DEF Resumes, NoRollback, StageInv, HistoryTypeOK, RollbackRec
  <2> QED
    BY <2>1, <2>2, <2>3
<1>9. ASSUME NEW r \in rollback.kept, PutsBack(r) PROVE HistoryInv'
  <2>1. HistoryTypeOK'
    BY <1>9 DEF PutsBack, HistoryTypeOK, RollbackRec, RowRec
  <2>2. MappedInv'
    <3>1. UNCHANGED <<commits, mappings, putTimes>> /\ rows' \cup rollback'.before \subseteq rows \cup rollback.before
      BY <1>9 DEF PutsBack, StageInv, HistoryTypeOK, RollbackRec
    <3> QED BY <3>1, MappedShrinks
  <2>3. StageInv'
    BY <1>9 DEF PutsBack, StageInv, HistoryTypeOK, RollbackRec
  <2> QED
    BY <2>1, <2>2, <2>3
<1> QED
  BY <1>1, <1>2, <1>3, <1>4, <1>5, <1>6, <1>7, <1>8, <1>9 DEF HistoryNext

LEMMA HistoryHolds == HistoryInv => RollbackRestores
BY DEF HistoryInv, MappedInv, StageInv, RollbackRestores
-----------------------------------------------------------------------------
(***************************************************************************)
(* Experiments: who wrote what is in the thread, and what was kept of it.  *)
(***************************************************************************)

TrialRec == [stage : Stages, before : Int, after : Int]

ImprovementTypeOK ==
  /\ thread \in Seq(Nat) /\ saved \in Seq(Nat) /\ tried \in Nat
  /\ trial \in TrialRec /\ result.gain \in Int

(* An experiment is judged once, at its end; between the two commands of a  *)
(* rollback the thread holds only what was written late, and after them the *)
(* snapshot too.                                                            *)
Restored ==
  /\ lateWriters = {} => thread = saved
  /\ \A i \in DOMAIN thread : thread[i] = saved[1] \/ thread[i] \in lateWriters
  /\ \E i \in DOMAIN thread : thread[i] = saved[1]

ImprovementInv ==
  /\ ImprovementTypeOK
  /\ ~(trial.stage \in {"judged", "rest"}) => result = Untried
  /\ saved = <<>> \/ Len(saved) = 1
  /\ trial.stage = "putting" =>
       saved # <<>> /\ (lateWriters = {} => thread = <<>>) /\ \A i \in DOMAIN thread : thread[i] \in lateWriters
  /\ trial.stage \in {"judged", "rest"} /\ result.rolledBack /\ ~storeFailed /\ saved # <<>> => Restored
  /\ result.success => result.gain >= Improvement
  /\ trial.stage = "judged" /\ result.success => proposal \in proven
  /\ skill # "first" => skill \in proven \ BadRevisions

LEMMA ImprovementInitially == ImprovementInit => ImprovementInv
<1> SUFFICES ASSUME ImprovementInit PROVE ImprovementInv
  OBVIOUS
<1>1. Rest \in TrialRec /\ Rest.stage = "rest"
  BY DEF Rest, TrialRec, Stages
<1>2. <<>> \in Seq(Nat) /\ <<0, 0>> \in Seq(Nat)
  OBVIOUS
<1>3. result = Untried /\ ~Untried.success /\ ~Untried.rolledBack /\ Untried.gain = 0
  BY DEF ImprovementInit, Untried
<1>4. trial = Rest /\ thread \in {<<>>, <<0, 0>>} /\ saved = <<>> /\ tried = 0 /\ skill = "first"
  BY DEF ImprovementInit
<1>5. thread \in Seq(Nat) /\ saved \in Seq(Nat)
  BY <1>2, <1>4, Zenon
<1>6. ImprovementTypeOK
  BY <1>1, <1>3, <1>4, <1>5 DEF ImprovementTypeOK
<1> QED
  BY <1>1, <1>3, <1>4, <1>6 DEF ImprovementInv

LEMMA ImprovementStep == ImprovementInv /\ [ImprovementNext]_improvementVars => ImprovementInv'
<1> SUFFICES ASSUME ImprovementInv, [ImprovementNext]_improvementVars PROVE ImprovementInv'
  OBVIOUS
<1> USE DEF ImprovementInv, TrialAt, GoesTo, Judged
<1>1. CASE UNCHANGED improvementVars
  BY <1>1 DEF improvementVars, ImprovementTypeOK, Restored
<1>2. CASE Propose
  <2>1. ImprovementTypeOK'
    BY <1>2, ImprovementAssumption DEF Propose, Rest, Untried, ImprovementTypeOK, TrialRec, Stages
  <2> QED
    BY <1>2, <2>1, ImprovementAssumption DEF Propose, Rest, Untried, ImprovementTypeOK, TrialRec, Stages, Restored
<1>3. CASE WriteCheckpoint
  <2>1. ImprovementTypeOK'
    BY <1>3, ImprovementAssumption DEF WriteCheckpoint, ImprovementTypeOK, TrialRec, Stages
  <2> QED
    BY <1>3, <2>1, ImprovementAssumption DEF WriteCheckpoint, ImprovementTypeOK, TrialRec, Stages, Restored
<1>4. CASE MeasureBaseline
  <2>1. ImprovementTypeOK'
    BY <1>4, ImprovementAssumption DEF MeasureBaseline, ImprovementTypeOK, TrialRec, Stages
  <2> QED
    BY <1>4, <2>1, ImprovementAssumption DEF MeasureBaseline, ImprovementTypeOK, TrialRec, Stages, Restored
<1>5. CASE TakeSnapshot
  <2>1. ImprovementTypeOK'
    BY <1>5, ImprovementAssumption DEF TakeSnapshot, Last, ImprovementTypeOK, TrialRec, Stages
  <2> QED
    BY <1>5, <2>1, ImprovementAssumption DEF TakeSnapshot, Last, ImprovementTypeOK, TrialRec, Stages, Restored
<1>6. CASE Apply
  <2>1. ImprovementTypeOK'
    BY <1>6, ImprovementAssumption DEF Apply, ImprovementTypeOK, TrialRec, Stages
  <2> QED
    BY <1>6, <2>1, ImprovementAssumption DEF Apply, ImprovementTypeOK, TrialRec, Stages, Restored
<1>7. CASE Measure
  <2>1. PICK m \in Metrics :
          \/ /\ Improved(trial.before, m) /\ trial' = [trial EXCEPT !.stage = "judged", !.after = m]
             /\ result' = [success |-> TRUE, rolledBack |-> FALSE, gain |-> trial.before - m]
             /\ proven' = proven \cup {proposal}
          \/ /\ trial' = [trial EXCEPT !.stage = "restoring", !.after = m]
             /\ UNCHANGED <<result, proven>>
    BY <1>7 DEF Measure
  <2>2. /\ m \in Int /\ trial.before \in Int /\ trial.before - m \in Int /\ trial.stage = "measuring"
        /\ UNCHANGED <<thread, saved, tried, storeFailed, lateWriters, skill, proposal>>
    BY <1>7, ImprovementAssumption DEF Measure, ImprovementTypeOK, TrialRec
  <2>3. trial' \in TrialRec /\ trial'.stage \in {"judged", "restoring"}
        /\ (trial'.stage = "judged" <=> trial' = [trial EXCEPT !.stage = "judged", !.after = m])
    BY <2>1, <2>2 DEF ImprovementTypeOK, TrialRec, Stages
  <2>4. ImprovementTypeOK'
    BY <2>1, <2>2, <2>3 DEF ImprovementTypeOK
  <2>5. result = Untried
    BY <2>2
  <2> QED
    BY <2>1, <2>2, <2>3, <2>4, <2>5 DEF Improved, Untried
<1>8. ASSUME NEW timedOut \in BOOLEAN, Fail(timedOut) PROVE ImprovementInv'
  <2>1. UNCHANGED <<thread, saved, tried, storeFailed, lateWriters, skill, proposal, proven>>
    BY <1>8 DEF Fail
  <2>2. CASE trial' = [trial EXCEPT !.stage = "judged"] /\ result' = [success |-> FALSE, rolledBack |-> FALSE, gain |-> 0]
    <3>1. trial' \in TrialRec /\ trial'.stage = "judged" /\ result'.gain = 0 /\ ~result'.success /\ ~result'.rolledBack
      BY <2>2 DEF ImprovementTypeOK, TrialRec, Stages
    <3>2. ImprovementTypeOK'
      BY <2>1, <3>1 DEF ImprovementTypeOK
    <3> QED
      BY <2>1, <3>1, <3>2
  <2>3. CASE trial' = [trial EXCEPT !.stage = "restoring"] /\ result' = result /\ trial.stage \in {"applying", "measuring"}
    <3>1. ImprovementTypeOK'
      BY <2>1, <2>3 DEF ImprovementTypeOK, TrialRec, Stages
    <3> QED
      BY <2>1, <2>3, <3>1 DEF ImprovementTypeOK, TrialRec, Untried
  <2> QED
    BY <1>8, <2>2, <2>3 DEF Fail
<1>9. CASE RollBackNothing
  <2>1. ImprovementTypeOK'
    BY <1>9, ImprovementAssumption DEF RollBackNothing, NoSnapshot, ImprovementTypeOK, TrialRec, Stages
  <2> QED
    BY <1>9, <2>1, ImprovementAssumption DEF RollBackNothing, NoSnapshot, ImprovementTypeOK, TrialRec, Stages, Restored
<1>10. CASE DeleteThread
  <2>1. ImprovementTypeOK'
    <3>1. thread' = <<>> /\ UNCHANGED <<saved, tried, result>> /\ trial' = [trial EXCEPT !.stage = "putting"]
      BY <1>10 DEF DeleteThread
    <3>2. trial' \in TrialRec
      BY <3>1 DEF ImprovementTypeOK, TrialRec, Stages
    <3>3. <<>> \in Seq(Nat)
      OBVIOUS
    <3> QED
      BY <3>1, <3>2, <3>3 DEF ImprovementTypeOK
  <2> QED
    BY <1>10, <2>1, ImprovementAssumption DEF DeleteThread, NoSnapshot, ImprovementTypeOK, TrialRec, Stages, Restored
<1>11. CASE PutSnapshot
  <2>1. ImprovementTypeOK'
    <3>1. thread' = thread \o saved /\ UNCHANGED <<saved, tried>> /\ result'.gain = 0
          /\ trial' = [trial EXCEPT !.stage = "judged"]
      BY <1>11 DEF PutSnapshot
    <3>2. thread' \in Seq(Nat)
      BY <3>1 DEF ImprovementTypeOK
    <3>3. trial' \in TrialRec
      BY <3>1 DEF ImprovementTypeOK, TrialRec, Stages
    <3> QED
      BY <3>1, <3>2, <3>3 DEF ImprovementTypeOK
  <2>2. Restored'
    <3>1. /\ thread' = thread \o saved /\ UNCHANGED <<saved, lateWriters>> /\ thread \in Seq(Nat) /\ saved \in Seq(Nat)
          /\ Len(saved) = 1 /\ trial.stage = "putting"
      BY <1>11 DEF PutSnapshot, ImprovementTypeOK
    <3>2. /\ Len(thread') = Len(thread) + 1 /\ thread'[Len(thread) + 1] = saved[1] /\ Len(thread) + 1 \in DOMAIN thread'
          /\ \A i \in DOMAIN thread' : (i \in DOMAIN thread /\ thread'[i] = thread[i]) \/ i = Len(thread) + 1
      <4>1. Len(thread') = Len(thread) + Len(saved) /\ thread' \in Seq(Nat) /\ Len(thread) \in Nat
        BY <3>1, ConcatProperties, LenProperties
      <4>2. DOMAIN thread' = 1..Len(thread) + 1 /\ DOMAIN thread = 1..Len(thread)
        BY <3>1, <4>1, LenProperties
      <4>3. thread'[Len(thread) + 1] = saved[1] /\ \A i \in 1..Len(thread) : thread'[i] = thread[i]
        BY <3>1, <4>1, ConcatProperties
      <4> QED
        BY <3>1, <4>1, <4>2, <4>3
    <3>3. lateWriters = {} => thread' = saved
      <4>1. lateWriters = {} => thread = <<>>
        BY <3>1
      <4> QED
        BY <3>1, <4>1, ConcatEmptySeq
    <3> QED
      BY <3>1, <3>2, <3>3 DEF Restored
  <2>3. trial'.stage = "judged"
    BY <1>11 DEF PutSnapshot, ImprovementTypeOK, TrialRec
  <2> QED
    BY <1>11, <2>1, <2>2, <2>3 DEF PutSnapshot
<1>12. CASE StoreFails
  <2>1. ImprovementTypeOK'
    <3>1. UNCHANGED <<thread, saved, tried>> /\ trial' = [trial EXCEPT !.stage = "judged"] /\ result'.gain = 0
      BY <1>12 DEF StoreFails
    <3>2. trial' \in TrialRec
      BY <3>1 DEF ImprovementTypeOK, TrialRec, Stages
    <3> QED
      BY <3>1, <3>2 DEF ImprovementTypeOK
  <2> QED
    BY <1>12, <2>1, ImprovementAssumption DEF StoreFails, ImprovementTypeOK, TrialRec, Stages, Restored
<1>13. ASSUME NEW n \in 1..MaxExperiments, LateWrite(n) \/ LateEnd(n) PROVE ImprovementInv'
  <2>1. ImprovementTypeOK'
    <3>1. n \in Nat /\ UNCHANGED <<saved, trial, tried, result>>
      BY <1>13, ImprovementAssumption DEF LateWrite, LateEnd
    <3>2. thread' = Append(thread, n) \/ thread' = thread
      BY <1>13 DEF LateWrite, LateEnd
    <3>3. thread' \in Seq(Nat)
      <4>1. thread \in Seq(Nat)
        BY DEF ImprovementTypeOK
      <4> QED
        BY <3>1, <3>2, <4>1, AppendProperties
    <3> QED
      BY <3>1, <3>3 DEF ImprovementTypeOK
  <2>2. CASE LateEnd(n)
    BY <2>1, <2>2 DEF LateEnd, Restored
  <2>3. CASE LateWrite(n)
    <3>1. /\ thread' = Append(thread, n) /\ thread \in Seq(Nat) /\ UNCHANGED <<saved, trial, result, storeFailed, skill, proposal, proven>>
          /\ trial.stage \in {"putting", "judged", "rest"} => lateWriters' = lateWriters \cup {n}
      BY <2>3 DEF LateWrite, ImprovementTypeOK
    <3>2. n \in Nat
      BY ImprovementAssumption
    <3>3. /\ \A i \in DOMAIN thread : i \in DOMAIN thread' /\ thread'[i] = thread[i]
          /\ \A i \in DOMAIN thread' : i \in DOMAIN thread \/ thread'[i] = n
      BY <3>1, <3>2
    <3> QED
      BY <2>1, <3>1, <3>3 DEF Restored
  <2> QED
    BY <1>13, <2>2, <2>3
<1>14. CASE Commit
  <2>1. ImprovementTypeOK'
    BY <1>14, ImprovementAssumption DEF Commit, ImprovementTypeOK, TrialRec, Stages
  <2> QED
    BY <1>14, <2>1, ImprovementAssumption DEF Commit, ImprovementTypeOK, TrialRec, Stages, Restored
<1> QED
  BY <1>1, <1>2, <1>3, <1>4, <1>5, <1>6, <1>7, <1>8, <1>9, <1>10, <1>11, <1>12, <1>13, <1>14 DEF ImprovementNext

LEMMA ImprovementHolds == ImprovementInv => ExperimentsHonest
BY DEF ImprovementInv, ImprovementTypeOK, TrialRec, Restored, ExperimentsHonest

-----------------------------------------------------------------------------
(***************************************************************************)
(* The gate.  Calls are decided in their order, so what is decided lies    *)
(* behind the call in turn, and no later answer of a hook, rewriting of    *)
(* arguments or answer of the safety model is about it any more.           *)
(***************************************************************************)
GateStages == {"idle", "hooks", "safety", "lookup", "execution", "running", "after", "done"}
BeingDecided == gateStage \in {"hooks", "safety", "lookup"}

GateTypeOK ==
  /\ batch \in Seq(CallRec) /\ position \in Nat /\ approved \in Seq(Nat)
  /\ gateStage \in GateStages
  /\ gateStage = "idle" => position = 0
  /\ gateStage # "idle" => position \in 1..Len(batch)

\* Hooks are asked before a call, or after it, and never in between.
FireInv ==
  /\ "event" \in DOMAIN fire
  /\ fire # NoFire => \/ fire.event = "PreToolUse" /\ gateStage = "hooks"
                      \/ fire.event \in {"PostToolUse", "PostToolUseFailure"} /\ gateStage = "after"

Unobjected(c) == \A said \in replies : said.call = c => said.reply.decision \in {"allow", "escalate", "block"}
Cleared(c) == batch[c].tool \in guarded =>
                \E e \in cleared : e.call = c /\ e.args = batch[c].args /\ e.answer = "approved"
Passed(c) == /\ Unobjected(c) /\ Cleared(c)
             /\ Known(batch[c]) /\ ArgumentsFit(batch[c].args, Tools[batch[c].tool].schema)

Decided == ToSet(approved) \cup {r.call : r \in ran}

TurnInv ==
  /\ \A c \in Decided : c \in 1..position /\ (BeingDecided => c # position)
  /\ \A said \in replies : said.call \in 1..position
  /\ BeingDecided => Unobjected(position)
  /\ gateStage = "lookup" => Cleared(position)

PassedInv == \A c \in Decided : Passed(c)

RanInv == \A r \in ran : /\ PolicyAllows(batch[r.call].tool, batch[r.call].args)
                        /\ r.args = Rewritten(batch[r.call].tool, batch[r.call].args)

GateInv == GateTypeOK /\ FireInv /\ TurnInv /\ PassedInv /\ RanInv

(* The policy and the checks of a call that is decided change only with the *)
(* call itself.                                                             *)
LEMMA PolicyKept ==
  ASSUME UNCHANGED <<scope, grant>>, NEW tool, NEW args
  PROVE  PolicyAllows(tool, args)' <=> PolicyAllows(tool, args)
BY DEF PolicyAllows, Granted, AllowsNetwork, AllowsPath, AllowsCommand, AllowedPaths

LEMMA DecidedKept ==
  ASSUME PassedInv, RanInv, UNCHANGED <<scope, grant, guarded, ran>>, cleared \subseteq cleared',
         \A c \in Decided : /\ batch'[c] = batch[c]
                            /\ \A said \in replies' : said.call = c => said \in replies
  PROVE  (\A c \in Decided : Passed(c)') /\ RanInv'
<1>1. ASSUME NEW c \in Decided PROVE Passed(c)'
  <2>1. Passed(c)
    BY <1>1 DEF PassedInv
  <2>2. Unobjected(c)'
    BY <1>1, <2>1 DEF Passed, Unobjected
  <2>3. Cleared(c)'
    BY <1>1, <2>1 DEF Passed, Cleared
  <2> QED
    BY <1>1, <2>1, <2>2, <2>3 DEF Passed, Known
<1>2. ASSUME NEW r \in ran PROVE PolicyAllows(batch[r.call].tool, batch[r.call].args)'
                               /\ r.args = Rewritten(batch[r.call].tool, batch[r.call].args)'
  <2>1. r.call \in Decided
    BY DEF Decided
  <2>2. batch'[r.call] = batch[r.call]
    BY <2>1
  <2>3. PolicyAllows(batch[r.call].tool, batch[r.call].args) /\ r.args = Rewritten(batch[r.call].tool, batch[r.call].args)
    BY DEF RanInv
  <2>4. PolicyAllows(batch[r.call].tool, batch[r.call].args)'
    <3>1. \A tool, args : PolicyAllows(tool, args)' <=> PolicyAllows(tool, args)
      BY PolicyKept
    <3> QED
      BY <2>2, <2>3 DEF PolicyAllows, Granted, AllowsNetwork, AllowsPath, AllowsCommand, AllowedPaths
  <2> QED
    BY <2>2, <2>3, <2>4
<1> QED
  BY <1>1, <1>2 DEF RanInv

LEMMA GateInitially == GateInit => GateInv
<1> SUFFICES ASSUME GateInit PROVE GateInv
  OBVIOUS
<1>1. batch = <<>> /\ position = 0 /\ approved = <<>> /\ gateStage = "idle" /\ fire = NoFire
      /\ replies = {} /\ ran = {}
  BY DEF GateInit
<1>2. Decided = {}
  BY <1>1 DEF Decided, ToSet
<1>3. GateTypeOK
  BY <1>1 DEF GateTypeOK, GateStages
<1> QED
  BY <1>1, <1>2, <1>3 DEF GateInv, FireInv, TurnInv, PassedInv, RanInv, BeingDecided, NoFire

(* Where the next call comes from: behind the one in turn lies what is      *)
(* decided, the queue included.                                             *)
LEMMA NextInTurn ==
  ASSUME GateInv, NEW queue \in Seq(Nat), NextCall(queue),
         \A c \in ToSet(queue) \cup {r.call : r \in ran} : c \in 1..position,
         position \in 1..Len(batch), batch' \in Seq(CallRec), Len(batch') = Len(batch),
         fire' = NoFire, ran' = ran,
         \A said \in replies' : said.call \in 1..position
  PROVE  GateTypeOK' /\ FireInv' /\ TurnInv'
<1>1. /\ approved' = queue /\ position' \in {position, position + 1} /\ position' \in 1..Len(batch')
      /\ gateStage' \in {"hooks", "execution", "done"}
      /\ gateStage' = "hooks" => position' = position + 1
  BY DEF NextCall, GateInv, GateTypeOK
<1>2. GateTypeOK'
  BY <1>1 DEF GateTypeOK, GateStages
<1>3. FireInv'
  BY DEF FireInv, NoFire
<1>4. position \in Nat /\ position < position + 1 /\ 1..position \subseteq 1..position'
  BY <1>1
<1>5. \A c \in Decided' : c \in 1..position' /\ (BeingDecided' => c # position')
  BY <1>1, <1>4 DEF Decided, BeingDecided
<1>6. BeingDecided' => Unobjected(position)' /\ gateStage' # "lookup"
  BY <1>1, <1>4 DEF BeingDecided, Unobjected
<1> QED
  BY <1>1, <1>2, <1>3, <1>4, <1>5, <1>6 DEF TurnInv

(* fire() returns: the call in turn is refused, or goes on with what a      *)
(* handler made of its arguments; after a tool, the next one has its turn.  *)
LEMMA FireReturns ==
  ASSUME GateInv, NEW reply, FireEnds(reply), fire # NoFire,
         reply.modified \in GivenArguments \cup {Unmodified},
         UNCHANGED <<scope, grant, guarded, ran, cleared>>,
         fire.event # "PreToolUse" => replies' = replies,
         \A said \in replies' : said \in replies \/ said.call = position,
         fire.event = "PreToolUse" /\ reply.decision # "deny" => Unobjected(position)'
  PROVE  GateInv'
<1>1. CASE fire.event = "PreToolUse"
  <2>1. gateStage = "hooks" /\ position \in 1..Len(batch) /\ fire' = NoFire /\ batch \in Seq(CallRec)
    BY <1>1 DEF GateInv, FireInv, GateTypeOK, FireEnds
  <2>2. \A c \in Decided : c \in 1..position /\ c # position
    BY <2>1 DEF GateInv, TurnInv, BeingDecided
  <2>3. \A said \in replies' : said.call \in 1..position
    BY <2>1 DEF GateInv, TurnInv
  <2>4. CASE reply.decision = "deny"
    <3>1. NextCall(approved) /\ UNCHANGED batch /\ approved \in Seq(Nat)
      BY <1>1, <2>4 DEF FireEnds, Turned, GateInv, GateTypeOK
    <3>2. GateTypeOK' /\ FireInv' /\ TurnInv'
      <4>1. \A c \in ToSet(approved) \cup {r.call : r \in ran} : c \in 1..position
        BY <2>2 DEF Decided
      <4> QED
        BY <2>1, <2>3, <3>1, <4>1, NextInTurn
    <3>3. (\A c \in Decided : Passed(c)') /\ RanInv'
      <4>1. \A c \in Decided : batch'[c] = batch[c] /\ \A said \in replies' : said.call = c => said \in replies
        BY <2>2, <3>1
      <4> QED
        BY <4>1, DecidedKept DEF GateInv
    <3>4. Decided' = Decided
      BY <3>1 DEF NextCall, Decided
    <3> QED
      BY <3>2, <3>3, <3>4 DEF GateInv, PassedInv
  <2>5. CASE reply.decision # "deny"
    <3>1. /\ gateStage' = "safety" /\ UNCHANGED <<position, approved>>
          /\ batch' = IF reply.modified = Unmodified THEN batch
                      ELSE [batch EXCEPT ![position].args = reply.modified]
      BY <1>1, <2>5 DEF FireEnds
    <3>2. batch' \in Seq(CallRec) /\ Len(batch') = Len(batch) /\ \A c : c # position => batch'[c] = batch[c]
      <4>1. CASE reply.modified = Unmodified
        BY <2>1, <3>1, <4>1
      <4>2. CASE reply.modified # Unmodified
        <5>1. reply.modified \in GivenArguments
          BY <4>2
        <5>2. batch[position] \in CallRec
          BY <2>1
        <5>3. [batch[position] EXCEPT !.args = reply.modified] \in CallRec
          BY <5>1, <5>2 DEF CallRec
        <5>4. batch' = [batch EXCEPT ![position] = [batch[position] EXCEPT !.args = reply.modified]]
          BY <3>1, <4>2
        <5> HIDE DEF CallRec
        <5> QED
          BY <2>1, <5>3, <5>4
      <4> QED
        BY <4>1, <4>2
    <3>3. GateTypeOK'
      BY <2>1, <3>1, <3>2 DEF GateInv, GateTypeOK, GateStages
    <3>4. FireInv'
      BY <2>1 DEF FireInv, NoFire
    <3>5. Decided' = Decided
      BY <3>1 DEF Decided
    <3>6. TurnInv'
      <4>1. Unobjected(position)' /\ gateStage' # "lookup" /\ position' = position
        BY <1>1, <2>5, <3>1
      <4>2. \A c \in Decided' : c \in 1..position' /\ c # position'
        BY <2>2, <3>5, <4>1
      <4>3. \A said \in replies' : said.call \in 1..position'
        BY <2>3, <4>1
      <4> QED
        BY <4>1, <4>2, <4>3 DEF TurnInv
    <3>7. (\A c \in Decided : Passed(c)') /\ RanInv'
      <4>1. \A c \in Decided : batch'[c] = batch[c] /\ \A said \in replies' : said.call = c => said \in replies
        BY <2>2, <3>2
      <4> QED
        BY <4>1, DecidedKept DEF GateInv
    <3> QED
      BY <3>3, <3>4, <3>5, <3>6, <3>7 DEF GateInv, PassedInv
  <2> QED
    BY <2>4, <2>5
<1>2. CASE fire.event # "PreToolUse"
  <2>1. /\ gateStage = "after" /\ position \in 1..Len(batch) /\ fire' = NoFire /\ UNCHANGED <<batch, replies>>
        /\ approved' = Tail(approved) /\ approved \in Seq(Nat)
        /\ IF Len(approved) > 1 THEN UNCHANGED <<gateStage, position>>
           ELSE IF serial /\ position < Len(batch)
           THEN gateStage' = "hooks" /\ position' = position + 1
           ELSE gateStage' = "done" /\ UNCHANGED position
    BY <1>2 DEF GateInv, FireInv, GateTypeOK, FireEnds, AfterHooks
  <2>2. ToSet(approved') \subseteq ToSet(approved) /\ approved' \in Seq(Nat)
    <3>1. CASE approved = <<>>
      BY <2>1, <3>1
    <3>2. CASE approved # <<>>
      BY <2>1, <3>2, HeadTailProperties DEF ToSet
    <3> QED
      BY <3>1, <3>2
  <2>3. Decided' \subseteq Decided
    BY <2>2 DEF Decided
  <2>4. GateTypeOK'
    BY <2>1, <2>2 DEF GateInv, GateTypeOK, GateStages
  <2>5. FireInv'
    BY <2>1 DEF FireInv, NoFire
  <2>6. (\A c \in Decided : Passed(c)') /\ RanInv'
    BY <2>1, DecidedKept DEF GateInv
  <2>7. TurnInv'
    <3>1. \A c \in Decided : c \in 1..position
      BY DEF GateInv, TurnInv
    <3>2. \A said \in replies : said.call \in 1..position
      BY DEF GateInv, TurnInv
    <3>3. BeingDecided' => gateStage' = "hooks" /\ position' = position + 1
      BY <2>1 DEF BeingDecided
    <3>4. position' \in {position, position + 1} /\ position \in Nat
      BY <2>1
    <3>5. \A c \in Decided' : c \in 1..position' /\ (BeingDecided' => c # position')
      BY <2>3, <3>1, <3>3, <3>4
    <3>6. \A said \in replies' : said.call \in 1..position' /\ (BeingDecided' => said.call # position')
      BY <2>1, <3>2, <3>3, <3>4
    <3>7. BeingDecided' => Unobjected(position)'
      BY <3>6 DEF Unobjected
    <3>8. gateStage' # "lookup"
      BY <2>1
    <3> QED
      BY <3>5, <3>6, <3>7, <3>8 DEF TurnInv
  <2> QED
    BY <2>3, <2>4, <2>5, <2>6, <2>7 DEF GateInv, PassedInv
<1> QED
  BY <1>1, <1>2

(* What is decided stays decided as long as the calls and the answers about *)
(* them stay.                                                               *)
LEMMA GateRests ==
  ASSUME GateInv, UNCHANGED <<batch, approved, ran, replies, scope, grant, guarded>>,
         cleared \subseteq cleared', GateTypeOK', FireInv', TurnInv'
  PROVE  GateInv'
<1>1. Decided' = Decided
  BY DEF Decided
<1>2. (\A c \in Decided : Passed(c)') /\ RanInv'
  BY DecidedKept DEF GateInv
<1> QED
  BY <1>1, <1>2 DEF GateInv, PassedInv

LEMMA HookAnswersStep ==
  ASSUME GateInv, NEW reply \in HookReplies \cup {GuardrailReply(Current)}, HookAnswers(reply)
  PROVE  GateInv'
<1>1. /\ reply.decision \in {"allow", "escalate", "block", "deny", "void", "throw", "timeout"}
      /\ reply.modified \in GivenArguments \cup {Unmodified}
  <2>1. CASE reply \in HookReplies
    BY <2>1, GateAssumption DEF GivenArguments
  <2>2. CASE reply = GuardrailReply(Current)
    BY <2>2 DEF GuardrailReply
  <2> QED
    BY <2>1, <2>2
<1>2. /\ fire # NoFire /\ UNCHANGED <<scope, grant, guarded, ran, cleared>>
      /\ replies' = IF fire.event = "PreToolUse"
                    THEN replies \cup {[call |-> position, at |-> fire.at, reply |-> reply]}
                    ELSE replies
      /\ IF Fails(reply) THEN FireEnds([decision |-> "deny", modified |-> Unmodified])
         ELSE IF reply.decision \in {"deny", "block"} THEN FireEnds(reply)
         ELSE /\ fire' = [fire EXCEPT !.asked = FALSE]
              /\ UNCHANGED <<gateStage, position, approved, outcome, batch>>
  BY DEF HookAnswers
<1>3. fire.event # "PreToolUse" => replies' = replies
  BY <1>2
<1>4. \A said \in replies' : said \in replies \/ said.call = position
  BY <1>2
<1>5. fire.event = "PreToolUse" => gateStage = "hooks" /\ Unobjected(position)
  BY <1>2 DEF GateInv, FireInv, TurnInv, BeingDecided
<1>6. fire.event = "PreToolUse" /\ position' = position /\ reply.decision \in {"allow", "escalate", "block"}
        => Unobjected(position)'
  BY <1>2, <1>5 DEF Unobjected
<1>7. CASE Fails(reply)
  <2> DEFINE denial == [decision |-> "deny", modified |-> Unmodified]
  <2>1. FireEnds(denial) /\ denial.decision = "deny" /\ denial.modified = Unmodified
    BY <1>2, <1>7
  <2> HIDE DEF denial
  <2> QED
    BY <1>2, <1>3, <1>4, <2>1, FireReturns
<1>8. CASE ~Fails(reply) /\ reply.decision \in {"deny", "block"}
  <2>1. FireEnds(reply)
    BY <1>2, <1>8
  <2>2. CASE fire.event = "PreToolUse"
    <3>1. reply.decision # "deny" => position' = position
      BY <2>1, <2>2 DEF FireEnds
    <3> QED
      BY <1>1, <1>2, <1>3, <1>4, <1>6, <1>8, <2>1, <2>2, <3>1, FireReturns
  <2>3. CASE fire.event # "PreToolUse"
    BY <1>1, <1>2, <1>3, <1>4, <2>1, <2>3, FireReturns
  <2> QED
    BY <2>2, <2>3
<1>9. CASE ~Fails(reply) /\ reply.decision \notin {"deny", "block"}
  <2>1. fire' = [fire EXCEPT !.asked = FALSE] /\ UNCHANGED <<gateStage, position, approved, batch>>
    BY <1>2, <1>9
  <2>2. GateTypeOK'
    BY <2>1 DEF GateInv, GateTypeOK
  <2>3. FireInv'
    <3>1. "event" \in DOMAIN fire' /\ fire'.event = fire.event
      BY <2>1 DEF GateInv, FireInv
    <3> QED
      BY <1>2, <2>1, <3>1 DEF GateInv, FireInv
  <2>4. fire.event = "PreToolUse" => reply.decision \in {"allow", "escalate", "block"}
    BY <1>1, <1>9 DEF Fails, FailClosed
  <2>5. Decided' = Decided
    BY <1>2, <2>1 DEF Decided
  <2>6. TurnInv'
    <3>1. BeingDecided' => Unobjected(position)'
      <4>1. CASE fire.event = "PreToolUse"
        BY <1>6, <2>1, <2>4, <4>1
      <4>2. CASE fire.event # "PreToolUse"
        BY <1>3, <2>1, <4>2 DEF GateInv, TurnInv, BeingDecided, Unobjected
      <4> QED
        BY <4>1, <4>2
    <3>2. gateStage' = "lookup" => Cleared(position)'
      BY <1>2, <2>1 DEF GateInv, TurnInv, Cleared
    <3>3. \A said \in replies' : said.call \in 1..position'
      <4>1. CASE fire.event = "PreToolUse"
        BY <1>4, <1>5, <2>1 , <4>1 DEF GateInv, GateTypeOK, TurnInv
      <4>2. CASE fire.event # "PreToolUse"
        BY <1>3, <2>1, <4>2 DEF GateInv, TurnInv
      <4> QED
        BY <4>1, <4>2
    <3>4. \A c \in Decided' : c \in 1..position' /\ (BeingDecided' => c # position')
      BY <2>1, <2>5 DEF GateInv, TurnInv, BeingDecided
    <3> QED
      BY <3>1, <3>2, <3>3, <3>4 DEF TurnInv
  <2>7. (\A c \in Decided : Passed(c)') /\ RanInv'
    <3>1. \A c \in Decided : batch'[c] = batch[c] /\ \A said \in replies' : said.call = c => said \in replies
      <4>1. CASE fire.event = "PreToolUse"
        BY <1>4, <1>5, <2>1, <4>1 DEF GateInv, TurnInv, BeingDecided
      <4>2. CASE fire.event # "PreToolUse"
        BY <1>3, <2>1, <4>2
      <4> QED
        BY <4>1, <4>2
    <3> QED
      BY <1>2, <3>1, DecidedKept DEF GateInv
  <2> QED
    BY <2>2, <2>3, <2>5, <2>6, <2>7 DEF GateInv, PassedInv
<1> QED
  BY <1>7, <1>8, <1>9

LEMMA GateStep ==
  ASSUME GateInv, [GateNext]_gateVars
  PROVE  GateInv'
<1>1. CASE UNCHANGED gateVars
  <2>1. GateTypeOK' /\ FireInv'
    BY <1>1 DEF gateVars, GateInv, GateTypeOK, FireInv
  <2>2. TurnInv'
    BY <1>1 DEF gateVars, GateInv, TurnInv, Decided, BeingDecided, Unobjected, Cleared
  <2> QED
    BY <1>1, <2>1, <2>2, GateRests DEF gateVars
<1>2. ASSUME NEW calls \in Batches, StartBatch(calls) PROVE GateInv'
  <2>1. /\ position = 0 /\ position' = 1 /\ gateStage' = "hooks" /\ fire = NoFire /\ fire' = fire
        /\ batch' = calls /\ calls # <<>> /\ UNCHANGED <<approved, ran, replies>>
    BY <1>2 DEF StartBatch, GateInv, GateTypeOK, FireInv
  <2>2. Decided = {} /\ Decided' = {} /\ ran = {} /\ replies = {}
    <3>1. \A c \in Decided : c \in 1..0
      BY <2>1 DEF GateInv, TurnInv
    <3>2. \A said \in replies : said.call \in 1..0
      BY <2>1 DEF GateInv, TurnInv
    <3>3. Decided = {} /\ replies = {}
      BY <3>1, <3>2
    <3>4. ran = {}
      BY <3>3 DEF Decided
    <3> QED
      BY <2>1, <3>3, <3>4 DEF Decided
  <2>3. calls \in Seq(CallRec)
    BY GateAssumption
  <2>4. GateTypeOK'
    <3>1. 1 \in 1..Len(calls)
      BY <2>1, <2>3, EmptySeq
    <3> QED
      BY <2>1, <2>3, <3>1 DEF GateInv, GateTypeOK, GateStages
  <2>5. FireInv'
    BY <2>1 DEF FireInv, NoFire
  <2> QED
    BY <2>1, <2>2, <2>4, <2>5 DEF GateInv, TurnInv, PassedInv, RanInv, Unobjected
<1>3. ASSUME NEW event \in HookEvents, HookOff(event) \/ \E definition \in LateHooks : HookOn(event, definition)
      PROVE  GateInv'
  <2>1. UNCHANGED <<batch, position, gateStage, approved, scope, grant, guarded, replies, cleared, ran>>
    BY <1>3 DEF HookOff, HookOn
  <2>2. \/ fire' = fire \/ fire' = [fire EXCEPT !.live = FALSE]
        \/ \E definition \in LateHooks : fire' = [fire EXCEPT !.list = Append(@, definition)]
    BY <1>3 DEF HookOff, HookOn
  <2>3. fire = NoFire => fire' = fire
    BY <1>3 DEF HookOff, HookOn, HookEvents, NoFire
  <2>4. GateTypeOK'
    BY <2>1 DEF GateInv, GateTypeOK
  <2>5. FireInv'
    <3>1. "event" \in DOMAIN fire' /\ fire'.event = fire.event
      BY <2>2 DEF GateInv, FireInv
    <3> QED
      BY <2>1, <2>3, <3>1 DEF GateInv, FireInv
  <2>6. TurnInv'
    BY <2>1 DEF GateInv, TurnInv, Decided, BeingDecided, Unobjected, Cleared
  <2> QED
    BY <2>1, <2>4, <2>5, <2>6, GateRests
<1>4. CASE FireHooks
  <2>1. /\ gateStage \in {"hooks", "after"}
        /\ UNCHANGED <<batch, position, gateStage, approved, scope, grant, guarded, replies, cleared, ran>>
        /\ "event" \in DOMAIN fire'
        /\ fire'.event \in IF gateStage = "hooks" THEN {"PreToolUse"} ELSE {"PostToolUse", "PostToolUseFailure"}
    BY <1>4 DEF FireHooks
  <2>2. GateTypeOK' /\ FireInv'
    BY <2>1 DEF GateInv, GateTypeOK, FireInv
  <2>3. TurnInv'
    BY <2>1 DEF GateInv, TurnInv, Decided, BeingDecided, Unobjected, Cleared
  <2> QED
    BY <2>1, <2>2, <2>3, GateRests
<1>5. CASE ConsultHook
  <2>1. /\ UNCHANGED <<batch, position, gateStage, approved, scope, grant, guarded, replies, cleared, ran>>
        /\ "event" \in DOMAIN fire' /\ fire'.event = fire.event /\ fire # NoFire
    <3> DEFINE at == CHOOSE i \in Matching : \A j \in Matching : i <= j
    <3>1. fire' = [fire EXCEPT !.asked = TRUE, !.at = at]
      BY <1>5 DEF ConsultHook
    <3> HIDE DEF at
    <3> QED
      BY <1>5, <3>1 DEF ConsultHook, GateInv, FireInv
  <2>2. GateTypeOK' /\ FireInv'
    BY <2>1 DEF GateInv, GateTypeOK, FireInv
  <2>3. TurnInv'
    BY <2>1 DEF GateInv, TurnInv, Decided, BeingDecided, Unobjected, Cleared
  <2> QED
    BY <2>1, <2>2, <2>3, GateRests
<1>6. CASE HooksPass
  <2> DEFINE reply == [decision |-> "allow", modified |-> Unmodified]
  <2>1. FireEnds(reply) /\ fire # NoFire /\ reply.modified = Unmodified /\ reply.decision = "allow"
        /\ UNCHANGED <<scope, grant, guarded, ran, cleared, replies>>
    BY <1>6 DEF HooksPass
  <2> HIDE DEF reply
  <2>2. fire.event = "PreToolUse" => Unobjected(position)'
    <3>1. fire.event = "PreToolUse" => position' = position /\ gateStage = "hooks"
      BY <2>1 DEF FireEnds, GateInv, FireInv
    <3> QED
      BY <2>1, <3>1 DEF GateInv, TurnInv, BeingDecided, Unobjected
  <2> QED
    BY <2>1, <2>2, FireReturns
<1>7. ASSUME NEW reply \in HookReplies \cup {GuardrailReply(Current)}, HookAnswers(reply) PROVE GateInv'
  BY <1>7, HookAnswersStep
<1>8. ASSUME NEW answer, SafetyAnswers(answer) PROVE GateInv'
  <2>1. /\ gateStage = "safety" /\ fire = NoFire /\ position \in 1..Len(batch) /\ approved \in Seq(Nat)
        /\ UNCHANGED <<fire, batch, scope, grant, guarded, replies, ran>> /\ cleared \subseteq cleared'
    BY <1>8 DEF SafetyAnswers, GateInv, GateTypeOK, FireInv
  <2>2. CASE gateStage' = "lookup" /\ UNCHANGED <<position, approved>>
    <3>1. GateTypeOK' /\ FireInv'
      BY <2>1, <2>2 DEF GateInv, GateTypeOK, GateStages, FireInv
    <3>2. Cleared(position)'
      <4>1. batch'[position'] = batch[position] /\ position' = position
        BY <2>1, <2>2
      <4>2. CASE batch[position].tool \notin guarded
        BY <2>1, <4>1, <4>2 DEF Cleared
      <4>3. CASE batch[position].tool \in guarded
        <5> DEFINE word == [call |-> position, args |-> batch[position].args, answer |-> answer]
        <5>1. answer = "approved" /\ cleared' = cleared \cup {word}
          BY <1>8, <2>2, <4>3 DEF SafetyAnswers, Approves, Turned, NextCall
        <5>2. word \in cleared' /\ word.call = position /\ word.args = batch[position].args /\ word.answer = "approved"
          BY <5>1
        <5> QED
          BY <4>1, <5>2 DEF Cleared
      <4> QED
        BY <4>2, <4>3
    <3>3. TurnInv'
      BY <2>1, <2>2, <3>2 DEF GateInv, TurnInv, Decided, BeingDecided, Unobjected
    <3> QED
      BY <2>1, <2>2, <3>1, <3>3, GateRests
  <2>3. CASE NextCall(approved)
    <3>1. \A c \in ToSet(approved) \cup {r.call : r \in ran} : c \in 1..position
      BY DEF GateInv, TurnInv, Decided
    <3>2. \A said \in replies' : said.call \in 1..position
      BY <2>1 DEF GateInv, TurnInv
    <3>3. GateTypeOK' /\ FireInv' /\ TurnInv'
      BY <2>1, <2>3, <3>1, <3>2, NextInTurn DEF GateInv, GateTypeOK
    <3>4. approved' = approved
      BY <2>3 DEF NextCall
    <3> QED
      BY <2>1, <3>3, <3>4, GateRests
  <2> QED
    BY <1>8, <2>2, <2>3 DEF SafetyAnswers, Turned
<1>9. CASE LookUp
  <2>1. /\ gateStage = "lookup" /\ fire = NoFire /\ position \in 1..Len(batch) /\ approved \in Seq(Nat)
        /\ UNCHANGED <<fire, batch, scope, grant, guarded, replies, ran, cleared>>
    BY <1>9 DEF LookUp, GateInv, GateTypeOK, FireInv
  <2>2. /\ \A c \in ToSet(approved) \cup {r.call : r \in ran} : c \in 1..position
        /\ \A said \in replies' : said.call \in 1..position
    BY <2>1 DEF GateInv, TurnInv, Decided
  <2>3. CASE NextCall(approved)
    <3>1. GateTypeOK' /\ FireInv' /\ TurnInv'
      BY <2>1, <2>2, <2>3, NextInTurn DEF GateInv, GateTypeOK
    <3>2. approved' = approved
      BY <2>3 DEF NextCall
    <3> QED
      BY <2>1, <3>1, <3>2, GateRests
  <2>4. CASE /\ Known(batch[position]) /\ ArgumentsFit(batch[position].args, Tools[batch[position].tool].schema)
             /\ NextCall(Append(approved, position))
    <3> DEFINE queue == Append(approved, position)
    <3>1. queue \in Seq(Nat) /\ ToSet(queue) = ToSet(approved) \cup {position}
      <4>1. position \in Nat
        BY DEF GateInv, GateTypeOK
      <4>2. /\ queue \in Seq(Nat) /\ Len(queue) = Len(approved) + 1 /\ queue[Len(approved) + 1] = position
            /\ \A i \in 1..Len(approved) : queue[i] = approved[i]
        BY <2>1, <4>1
      <4>3. DOMAIN queue = 1..Len(approved) + 1 /\ DOMAIN approved = 1..Len(approved) /\ Len(approved) \in Nat
        BY <2>1, <4>2, LenProperties
      <4> HIDE DEF queue
      <4>4. \A i \in DOMAIN queue : i \in DOMAIN approved \/ i = Len(approved) + 1
        BY <4>3
      <4>5. DOMAIN approved \subseteq DOMAIN queue /\ Len(approved) + 1 \in DOMAIN queue
        BY <4>3
      <4> QED
        BY <4>2, <4>3, <4>4, <4>5 DEF ToSet
    <3>2. NextCall(queue) /\ approved' = queue
      BY <2>4 DEF NextCall
    <3> HIDE DEF queue
    <3>3. \A c \in ToSet(queue) \cup {r.call : r \in ran} : c \in 1..position
      BY <2>1, <2>2, <3>1
    <3>4. GateTypeOK' /\ FireInv' /\ TurnInv'
      BY <2>1, <2>2, <3>1, <3>2, <3>3, NextInTurn DEF GateInv, GateTypeOK
    <3>5. (\A c \in Decided : Passed(c)') /\ RanInv'
      BY <2>1, DecidedKept DEF GateInv
    <3>6. ASSUME NEW c, c = position PROVE Passed(c)'
      <4>1. Unobjected(c) /\ Cleared(c)
        BY <2>1, <3>6 DEF GateInv, TurnInv, BeingDecided
      <4> QED
        BY <2>1, <2>4, <3>6, <4>1 DEF Passed, Unobjected, Cleared, Known
    <3>7. Decided' = Decided \cup {position}
      BY <2>1, <3>1, <3>2 DEF Decided
    <3> QED
      BY <3>4, <3>5, <3>6, <3>7 DEF GateInv, PassedInv
  <2> QED
    BY <1>9, <2>3, <2>4 DEF LookUp, Turned
<1>10. CASE Execute
  <2> DEFINE Allowed == {i \in ToSet(approved) : PolicyAllows(batch[i].tool, batch[i].args)}
             Given(i) == [call |-> i, args |-> Rewritten(batch[i].tool, batch[i].args)]
  <2>1. /\ gateStage = "execution" /\ gateStage' = "running" /\ ran' = ran \cup {Given(i) : i \in Allowed}
        /\ UNCHANGED <<fire, batch, position, approved, scope, grant, guarded, replies, cleared>>
    BY <1>10 DEF Execute
  <2>2. \A i : Given(i).call = i /\ Given(i).args = Rewritten(batch[i].tool, batch[i].args)
    OBVIOUS
  <2>3. Allowed \subseteq ToSet(approved) /\ \A i \in Allowed : PolicyAllows(batch[i].tool, batch[i].args)
    OBVIOUS
  <2> HIDE DEF Allowed, Given
  <2>4. Decided' = Decided
    BY <2>1, <2>2, <2>3 DEF Decided
  <2>5. GateTypeOK' /\ FireInv'
    BY <2>1 DEF GateInv, GateTypeOK, GateStages, FireInv
  <2>6. TurnInv'
    BY <2>1, <2>4 DEF GateInv, TurnInv, BeingDecided
  <2>7. PassedInv'
    BY <2>1, <2>4 DEF GateInv, PassedInv, Passed, Unobjected, Cleared, Known
  <2>8. RanInv'
    <3>1. ASSUME NEW r \in ran' PROVE PolicyAllows(batch[r.call].tool, batch[r.call].args)
                                     /\ r.args = Rewritten(batch[r.call].tool, batch[r.call].args)
      BY <2>1, <2>2, <2>3, <3>1 DEF GateInv, RanInv
    <3> QED
      BY <2>1, <3>1 DEF RanInv, PolicyAllows, Granted, AllowsNetwork, AllowsPath, AllowsCommand, AllowedPaths
  <2> QED
    BY <2>5, <2>6, <2>7, <2>8 DEF GateInv
<1>11. ASSUME ToolsEnded \/ \E i \in running, how \in {"ok", "error"} : ToolEnds(i, how) PROVE GateInv'
  <2>1. /\ gateStage' = gateStage \/ (gateStage = "running" /\ gateStage' = "after")
        /\ UNCHANGED <<fire, batch, position, approved, scope, grant, guarded, replies, cleared, ran>>
    BY <1>11 DEF ToolsEnded, ToolEnds
  <2>2. GateTypeOK' /\ FireInv'
    BY <2>1 DEF GateInv, GateTypeOK, GateStages, FireInv
  <2>3. TurnInv'
    BY <2>1 DEF GateInv, TurnInv, Decided, BeingDecided, Unobjected, Cleared
  <2> QED
    BY <2>1, <2>2, <2>3, GateRests
<1> QED
  BY <1>1, <1>2, <1>3, <1>4, <1>5, <1>6, <1>7, <1>8, <1>9, <1>10, <1>11 DEF GateNext

(* Of a path argument the tool is given the real paths, and a real path is  *)
(* its own.                                                                 *)
LEMMA ResolvedTexts ==
  ASSUME NEW value, IsValue(value), \A i \in DOMAIN value.items : IsValue(value.items[i]),
         IsTextList(value)
  PROVE  Texts(Resolved(value)) = {Real[text] : text \in Texts(value)}
<1>1. ASSUME NEW text, IsValue(text) PROVE AtRealPath(text).text = Real[text.text] /\ AtRealPath(text).type = text.type
  BY <1>1 DEF IsValue, AtRealPath
<1>2. CASE value.type = "string"
  <2>1. Resolved(value) = AtRealPath(value)
    BY <1>2 DEF Resolved
  <2> QED
    BY <1>1, <1>2, <2>1 DEF Texts
<1>3. CASE value.type # "string"
  <2> DEFINE items == [i \in DOMAIN value.items |-> AtRealPath(value.items[i])]
  <2>1. Resolved(value) = [value EXCEPT !.items = items]
    BY <1>3 DEF Resolved
  <2>2. DOMAIN items = DOMAIN value.items /\ \A i \in DOMAIN value.items : items[i].text = Real[value.items[i].text]
    BY <1>1
  <2> HIDE DEF items
  <2>3. Resolved(value).type = value.type /\ Resolved(value).items = items
    BY <2>1 DEF IsValue
  <2> QED
    BY <1>3, <2>2, <2>3 DEF Texts
<1> QED
  BY <1>2, <1>3

LEMMA GateHolds == GateInv => OnlyCheckedCallsRun
<1> SUFFICES ASSUME GateInv, NEW r \in ran
             PROVE  LET call == batch[r.call] tool == Tools[call.tool] IN
    /\ \A said \in replies : said.call = r.call =>
         said.reply.decision \in {"allow", "escalate", "block"}
    /\ call.tool \in guarded =>
         \E c \in cleared : c.call = r.call /\ c.args = call.args /\ c.answer = "approved"
    /\ tool.schema # Unset => \A key \in tool.schema.required : Present(call.args.fields, key)
    /\ grant.status = "active" /\ Granted("tool", call.tool)
    /\ \A key \in Checked(call.tool, call.args, PathArguments) :
         \A path \in Texts(r.args.fields[key]) :
           /\ \E allowed \in AllowedPaths : <<Real[path], Real[allowed]>> \in Within
           /\ \A denied \in scope.disallowedPaths : <<Real[path], Real[denied]>> \notin Within
    /\ \A key \in Checked(call.tool, call.args, CommandArguments) :
         \A command \in Texts(call.args.fields[key]) :
           command \in scope.allowedCommands /\ Granted("command", command)
    /\ tool.online => scope.network # "none" /\ Granted("network", "network")
  BY DEF OnlyCheckedCallsRun
<1> DEFINE call == batch[r.call]
<1>1. r.call \in Decided /\ r.call \in 1..Len(batch) /\ batch \in Seq(CallRec)
  BY DEF GateInv, GateTypeOK, TurnInv, Decided
<1>2. Passed(r.call) /\ PolicyAllows(call.tool, call.args) /\ r.args = Rewritten(call.tool, call.args)
  BY <1>1 DEF GateInv, PassedInv, RanInv
<1>3. call.args \in GivenArguments
  <2>1. call \in CallRec
    BY <1>1
  <2> QED
    BY <2>1 DEF CallRec
<1> HIDE DEF call
<1>4. ASSUME NEW key \in Checked(call.tool, call.args, PathArguments), NEW path \in Texts(r.args.fields[key])
      PROVE  /\ \E allowed \in AllowedPaths : <<Real[path], Real[allowed]>> \in Within
             /\ \A denied \in scope.disallowedPaths : <<Real[path], Real[denied]>> \notin Within
  <2> DEFINE value == call.args.fields[key]
  <2>1. Tools[call.tool].schema # Unset /\ key \in PathArguments \cap DOMAIN call.args.fields
    BY DEF Checked
  <2>2. call.args.type = "object"
    BY <1>2, <2>1 DEF Passed, ArgumentsFit, call
  <2>3. IsTextList(value) /\ \A text \in Texts(value) : AllowsPath(text)
    BY <1>2, <2>2 DEF PolicyAllows
  <2>4. /\ IsValue(call.args) /\ IsValue(value) /\ \A i \in DOMAIN value.items : IsValue(value.items[i])
        /\ Texts(value) \subseteq DOMAIN Real
    BY <1>3, <2>1, <2>3, GateAssumption
  <2> HIDE DEF value
  <2>5. \E text \in Texts(value) : Real[path] = Real[text]
    <3>1. CASE Tools[call.tool].rewrites
      <4>1. r.args = [call.args EXCEPT !.fields = [k \in DOMAIN @ |->
                        IF k \in Checked(call.tool, call.args, PathArguments) THEN Resolved(@[k]) ELSE @[k]]]
        BY <1>2, <2>2, <3>1 DEF Rewritten
      <4>2. r.args.fields[key] = Resolved(value)
        BY <2>1, <2>4, <4>1 DEF IsValue, value
      <4>3. PICK text \in Texts(value) : path = Real[text]
        BY <2>3, <2>4, <4>2, ResolvedTexts
      <4>4. Real[Real[text]] = Real[text]
        BY <2>4, <4>3, GateAssumption
      <4> QED
        BY <4>3, <4>4
    <3>2. CASE ~Tools[call.tool].rewrites
      <4>1. r.args = call.args
        BY <1>2, <3>2 DEF Rewritten
      <4> QED
        BY <4>1 DEF value
    <3> QED
      BY <3>1, <3>2
  <2> QED
    BY <2>3, <2>5 DEF AllowsPath, IsInside
<1>5. ASSUME NEW key \in Checked(call.tool, call.args, CommandArguments), NEW command \in Texts(call.args.fields[key])
      PROVE  command \in scope.allowedCommands /\ Granted("command", command)
  <2>1. call.args.type = "object"
    BY <1>2 DEF Checked, Passed, ArgumentsFit, call
  <2> QED
    BY <1>2, <2>1 DEF PolicyAllows, AllowsCommand
<1> QED
  BY <1>2, <1>4, <1>5 DEF Passed, Unobjected, Cleared, ArgumentsFit, PolicyAllows, AllowsNetwork, call

-----------------------------------------------------------------------------
(***************************************************************************)
(* The agents of a graph.  An agent over the budget is at a model call,    *)
(* which will be refused, or has failed: usage only grows.  While no       *)
(* thread has lost its log there are as many logs as threads that recorded *)
(* something.                                                              *)
(***************************************************************************)
LogRec == [thread : Threads, entries : Nat]
Recorded == {t \in Threads : recorded[t] > 0}

LogsInv ==
  /\ recorded \in [Threads -> Nat] /\ logs \in Seq(LogRec)
  /\ IsFiniteSet(Recorded) /\ \A i \in DOMAIN logs : recorded[logs[i].thread] > 0
  /\ Cardinality(Recorded) <= MaxThreadIds =>
       /\ Len(logs) = Cardinality(Recorded)
       /\ \A t \in Recorded : \E i \in DOMAIN logs : logs[i] = [thread |-> t, entries |-> recorded[t]]

Doings == {"idle", "returned", "failed", "handling", "calling", "acting"}

SpendInv ==
  /\ tokensOf \in [AgentNodes -> Nat] /\ runTokens \in Nat /\ cost \in Nat /\ budget \in SpendingLimits
  /\ runTokens = Total(tokensOf, AgentNodes)
  /\ doing \in [AgentNodes -> Doings] /\ overruns \in [AgentNodes -> Nat]
  /\ \A a \in AgentNodes : doing[a] = "calling" => a \in Declared
  /\ \A a \in AgentNodes : doing[a] = "handling" => a \notin Declared
  /\ budget.mode = "error" => \A a \in AgentNodes :
       /\ overruns[a] <= 1
       /\ a \in Declared /\ doing[a] = "acting" => overruns[a] = 0
       /\ doing[a] = "calling" /\ overruns[a] > 0 => OverBudget(a)

LEMMA LogsKept ==
  ASSUME LogsInv, NEW a \in AgentNodes, NEW n \in Nat, RecordEntries(a, n)
  PROVE  LogsInv'
<1> DEFINE t == ThreadOf[a]
<1>1. t \in Threads /\ MaxThreadIds \in Nat
  BY AgentsAssumption
<1>2. /\ recorded' = [recorded EXCEPT ![t] = @ + n]
      /\ logs' = IF n = 0 THEN logs
                 ELSE IF LogOf(t) # {}
                 THEN [i \in DOMAIN logs |-> IF i \in LogOf(t) THEN [logs[i] EXCEPT !.entries = @ + n] ELSE logs[i]]
                 ELSE Kept(Append(logs, [thread |-> t, entries |-> n]))
  BY DEF RecordEntries
<1> HIDE DEF t
<1>3. /\ recorded' \in [Threads -> Nat] /\ recorded'[t] = recorded[t] + n
      /\ \A u \in Threads \ {t} : recorded'[u] = recorded[u]
      /\ recorded[t] \in Nat
  BY <1>1, <1>2 DEF LogsInv
<1>4. CASE n = 0
  <2>1. recorded' = recorded /\ logs' = logs
    <3>1. \A u \in Threads : recorded'[u] = recorded[u]
      BY <1>3, <1>4
    <3> QED
      BY <1>2, <1>3, <1>4, <3>1 DEF LogsInv
  <2> QED
    BY <2>1 DEF LogsInv, Recorded
<1>5. CASE n # 0 /\ LogOf(t) # {}
  <2>1. recorded[t] > 0
    BY <1>5 DEF LogOf, LogsInv
  <2>2. Recorded' = Recorded
    BY <1>3, <2>1 DEF Recorded
  <2>3. /\ logs \in Seq(LogRec) /\ DOMAIN logs = 1..Len(logs) /\ Len(logs) \in Nat
        /\ \A i \in DOMAIN logs : logs[i] \in LogRec
    BY DEF LogsInv
  <2>4. logs' = [i \in DOMAIN logs |-> IF i \in LogOf(t) THEN [logs[i] EXCEPT !.entries = @ + n] ELSE logs[i]]
    BY <1>2, <1>5
  <2>5. ASSUME NEW i \in DOMAIN logs
        PROVE  /\ logs'[i] \in LogRec /\ logs'[i].thread = logs[i].thread
               /\ logs[i].thread = t => logs'[i].entries = logs[i].entries + n
               /\ logs[i].thread # t => logs'[i] = logs[i]
    <3>1. logs[i] \in LogRec /\ (i \in LogOf(t) <=> logs[i].thread = t)
      BY <2>3 DEF LogOf
    <3>2. logs'[i] = IF i \in LogOf(t) THEN [logs[i] EXCEPT !.entries = logs[i].entries + n] ELSE logs[i]
      BY <2>4
    <3> QED
      BY <3>1, <3>2 DEF LogRec
  <2>6. logs' \in Seq(LogRec) /\ DOMAIN logs' = DOMAIN logs /\ Len(logs') = Len(logs)
    <3>1. DOMAIN logs' = 1..Len(logs) /\ logs' = [i \in 1..Len(logs) |-> logs'[i]]
      BY <2>3, <2>4
    <3>2. \A i \in 1..Len(logs) : logs'[i] \in LogRec
      BY <2>3, <2>5
    <3>3. logs' \in [1..Len(logs) -> LogRec]
      BY <3>1, <3>2
    <3>4. logs' \in Seq(LogRec)
      BY <2>3, <3>3
    <3> QED
      BY <2>3, <3>1, <3>4
  <2>7. \A i \in DOMAIN logs' : recorded'[logs'[i].thread] > 0
    <3> SUFFICES ASSUME NEW i \in DOMAIN logs PROVE recorded'[logs[i].thread] > 0
      BY <2>5, <2>6
    <3>1. recorded[logs[i].thread] > 0 /\ logs[i].thread \in Threads
      BY <2>3 DEF LogsInv, LogRec
    <3> QED
      BY <1>3, <3>1
  <2>8. ASSUME Cardinality(Recorded) <= MaxThreadIds, NEW u \in Recorded
        PROVE  \E i \in DOMAIN logs' : logs'[i] = [thread |-> u, entries |-> recorded'[u]]
    <3>1. PICK i \in DOMAIN logs : logs[i] = [thread |-> u, entries |-> recorded[u]]
      BY <2>8 DEF LogsInv
    <3>2. CASE u = t
      <4>1. logs'[i].thread = t /\ logs'[i].entries = recorded'[t] /\ logs'[i] \in LogRec
        BY <1>3, <2>5, <3>1, <3>2
      <4> QED
        BY <2>6, <3>2, <4>1 DEF LogRec
    <3>3. CASE u # t
      <4>1. logs'[i] = logs[i] /\ recorded'[u] = recorded[u]
        BY <1>3, <2>5, <3>1, <3>3 DEF Recorded
      <4> QED
        BY <2>6, <3>1, <4>1
    <3> QED
      BY <3>2, <3>3
  <2> QED
    BY <1>3, <2>2, <2>6, <2>7, <2>8 DEF LogsInv
<1>6. CASE n # 0 /\ LogOf(t) = {}
  <2> DEFINE new == [thread |-> t, entries |-> n]
             all == Append(logs, new)
  <2>1. /\ logs \in Seq(LogRec) /\ DOMAIN logs = 1..Len(logs) /\ Len(logs) \in Nat /\ new \in LogRec
        /\ \A i \in DOMAIN logs : logs[i] \in LogRec /\ logs[i].thread # t
    <3>1. new \in LogRec
      BY <1>1 DEF LogRec
    <3>2. \A i \in DOMAIN logs : logs[i].thread # t
      BY <1>6 DEF LogOf
    <3> QED
      BY <3>1, <3>2 DEF LogsInv
  <2>2. logs' = Kept(all)
    BY <1>2, <1>6
  <2>3. /\ all \in Seq(LogRec) /\ Len(all) = Len(logs) + 1 /\ all[Len(logs) + 1] = new
        /\ \A i \in DOMAIN logs : all[i] = logs[i]
    <3> HIDE DEF new
    <3> QED
      BY <2>1
  <2>4. recorded'[t] = recorded[t] + n /\ recorded'[t] > 0
    BY <1>3, <1>6
  <2>5. Recorded' = Recorded \cup {t}
    BY <1>1, <1>3, <2>4 DEF Recorded
  <2>6. /\ IsFiniteSet(Recorded') /\ Cardinality(Recorded) \in Nat
        /\ Cardinality(Recorded') = IF t \in Recorded THEN Cardinality(Recorded) ELSE Cardinality(Recorded) + 1
    BY <2>5, FS_AddElement, FS_CardinalityType DEF LogsInv
  <2>7. ASSUME NEW i \in 1..Len(all) PROVE all[i] \in LogRec /\ recorded'[all[i].thread] > 0
    <3>1. CASE i \in DOMAIN logs
      <4>1. recorded[logs[i].thread] > 0 /\ logs[i].thread \in Threads \ {t}
        BY <2>1, <3>1 DEF LogsInv, LogRec
      <4> QED
        BY <1>3, <2>1, <2>3, <3>1, <4>1
    <3>2. CASE i \notin DOMAIN logs
      <4>1. i = Len(logs) + 1
        BY <2>1, <2>3, <3>2
      <4>2. all[i] = new /\ new.thread = t
        BY <2>3, <4>1
      <4> HIDE DEF all
      <4> QED
        BY <2>1, <2>4, <4>2
    <3> QED
      BY <3>1, <3>2
  <2> HIDE DEF all, new
  <2>8. logs' \in Seq(LogRec) /\ \A i \in DOMAIN logs' : \E j \in 1..Len(all) : logs'[i] = all[j]
    <3>1. CASE Len(all) > MaxThreadIds
      <4>1. logs' = Tail(all) /\ all # <<>>
        BY <1>1, <2>1, <2>2, <2>3, <3>1 DEF Kept
      <4>2. /\ Tail(all) \in Seq(LogRec) /\ Len(Tail(all)) = Len(all) - 1
            /\ \A i \in 1..Len(Tail(all)) : Tail(all)[i] = all[i + 1]
        BY <2>3, <4>1
      <4>3. \A i \in 1..Len(Tail(all)) : i + 1 \in 1..Len(all)
        BY <2>1, <2>3, <4>2
      <4>4. DOMAIN Tail(all) = 1..Len(Tail(all))
        BY <4>2
      <4> QED
        BY <4>1, <4>2, <4>3, <4>4
    <3>2. CASE ~(Len(all) > MaxThreadIds)
      <4>1. logs' = all /\ DOMAIN all = 1..Len(all)
        BY <2>2, <2>3, <3>2 DEF Kept
      <4> QED
        BY <2>3, <4>1
    <3> QED
      BY <3>1, <3>2
  <2>9. \A i \in DOMAIN logs' : recorded'[logs'[i].thread] > 0
    BY <2>7, <2>8
  <2>10. ASSUME Cardinality(Recorded') <= MaxThreadIds
         PROVE  /\ Len(logs') = Cardinality(Recorded')
                /\ \A u \in Recorded' : \E i \in DOMAIN logs' : logs'[i] = [thread |-> u, entries |-> recorded'[u]]
    <3>1. Cardinality(Recorded) <= MaxThreadIds
      BY <1>1, <2>6, <2>10
    <3>2. /\ Len(logs) = Cardinality(Recorded)
          /\ \A u \in Recorded : \E i \in DOMAIN logs : logs[i] = [thread |-> u, entries |-> recorded[u]]
      BY <3>1 DEF LogsInv
    <3>3. t \notin Recorded
      <4>1. SUFFICES ASSUME t \in Recorded PROVE FALSE
        OBVIOUS
      <4>2. PICK i \in DOMAIN logs : logs[i] = [thread |-> t, entries |-> recorded[t]]
        BY <3>2, <4>1
      <4>3. logs[i].thread = t
        BY <4>2
      <4> QED
        BY <2>1, <4>3
    <3>4. recorded[t] = 0 /\ recorded'[t] = n
      BY <1>1, <1>3, <3>3 DEF Recorded
    <3>5. Len(all) = Cardinality(Recorded') /\ Len(all) <= MaxThreadIds
      BY <2>3, <2>6, <2>10, <3>2, <3>3
    <3>6. logs' = all /\ DOMAIN all = 1..Len(all)
      BY <1>1, <2>1, <2>2, <2>3, <3>5 DEF Kept
    <3>7. ASSUME NEW u \in Recorded' PROVE \E i \in DOMAIN all : all[i] = [thread |-> u, entries |-> recorded'[u]]
      <4>1. CASE u = t
        <5>1. Len(logs) + 1 \in DOMAIN all
          BY <2>1, <2>3, <3>6
        <5> QED
          BY <2>3, <3>4, <4>1, <5>1 DEF new
      <4>2. CASE u # t
        <5>1. u \in Recorded /\ recorded'[u] = recorded[u]
          BY <1>3, <2>5, <4>2 DEF Recorded
        <5>2. PICK i \in DOMAIN logs : logs[i] = [thread |-> u, entries |-> recorded[u]]
          BY <3>2, <5>1
        <5>3. i \in DOMAIN all
          BY <2>1, <2>3, <3>6
        <5> QED
          BY <2>3, <5>1, <5>2, <5>3
      <4> QED
        BY <4>1, <4>2
    <3> QED
      BY <3>5, <3>6, <3>7
  <2> QED
    BY <1>3, <2>6, <2>8, <2>9, <2>10 DEF LogsInv
<1> QED
  BY <1>4, <1>5, <1>6

LEMMA AgentsInitially == AgentsInit => LogsInv /\ SpendInv
<1> SUFFICES ASSUME AgentsInit PROVE LogsInv /\ SpendInv
  OBVIOUS
<1>1. LogsInv
  <2>1. Recorded = {} /\ Len(logs) = 0 /\ DOMAIN logs = {} /\ logs \in Seq(LogRec)
    BY DEF AgentsInit, Recorded
  <2>2. IsFiniteSet(Recorded) /\ Cardinality(Recorded) = 0
    BY <2>1, FS_EmptySet
  <2>3. recorded \in [Threads -> Nat]
    BY DEF AgentsInit
  <2> QED
    BY <2>1, <2>2, <2>3 DEF LogsInv
<1>2. SpendInv
  <2>1. /\ tokensOf \in [AgentNodes -> Nat] /\ \A a \in AgentNodes : tokensOf[a] = 0
        /\ runTokens = 0 /\ cost = 0 /\ budget \in SpendingLimits
        /\ \A a \in AgentNodes : doing[a] = "idle" /\ overruns[a] = 0
        /\ doing \in [AgentNodes -> Doings] /\ overruns \in [AgentNodes -> Nat]
    BY DEF AgentsInit, Doings
  <2>2. Total(tokensOf, AgentNodes) = 0
    BY <2>1, TotalZero, AgentsAssumption
  <2> QED
    BY <2>1, <2>2 DEF SpendInv
<1> QED
  BY <1>1, <1>2

(* An agent goes on without a model having answered: what was spent stays. *)
LEMMA AgentGoes ==
  ASSUME SpendInv, UNCHANGED <<tokensOf, runTokens, cost, budget>>, NEW a \in AgentNodes,
         NEW to \in Doings, NEW over \in Nat,
         doing' = [doing EXCEPT ![a] = to], overruns' = [overruns EXCEPT ![a] = over],
         to = "calling" => a \in Declared, to = "handling" => a \notin Declared,
         budget.mode = "error" => /\ over <= 1
                                  /\ a \in Declared /\ to = "acting" => over = 0
                                  /\ to = "calling" /\ over > 0 => OverBudget(a)
  PROVE  SpendInv'
<1>1. /\ doing' \in [AgentNodes -> Doings] /\ overruns' \in [AgentNodes -> Nat]
      /\ doing'[a] = to /\ overruns'[a] = over
      /\ \A b \in AgentNodes \ {a} : doing'[b] = doing[b] /\ overruns'[b] = overruns[b]
  BY DEF SpendInv
<1>2. \A b \in AgentNodes : OverBudget(b) => OverBudget(b)'
  BY DEF OverBudget, Exceeds
<1>3. ASSUME NEW b \in AgentNodes
      PROVE  /\ doing'[b] = "calling" => b \in Declared
             /\ doing'[b] = "handling" => b \notin Declared
             /\ budget.mode = "error" => /\ overruns'[b] <= 1
                                         /\ b \in Declared /\ doing'[b] = "acting" => overruns'[b] = 0
                                         /\ doing'[b] = "calling" /\ overruns'[b] > 0 => OverBudget(b)'
  <2>1. CASE b = a
    BY <1>1, <1>2, <2>1
  <2>2. CASE b # a
    BY <1>1, <1>2, <2>2 DEF SpendInv
  <2> QED
    BY <2>1, <2>2
<1> QED
  BY <1>1, <1>3 DEF SpendInv

LEMMA OverIs == \A a \in AgentNodes : Over(a) \in Nat /\ Over(a) <= 1 /\ (Over(a) > 0 => OverBudget(a))
BY DEF Over

LEMMA LimitsAreFew == IsFiniteSet(1..3)
<1>1. 1 \in Int /\ 3 \in Int
  OBVIOUS
<1> QED
  BY <1>1, FS_Interval

LEMMA ModelAnswersStep ==
  ASSUME SpendInv, LogsInv, NEW a \in AgentNodes, NEW usage \in Usages, NEW calls \in CallLists,
         ModelAnswers(a, usage, calls)
  PROVE  SpendInv' /\ LogsInv'
<1> DEFINE i == Counted(usage.input)
           o == Counted(usage.output)
           n == i + o
<1>1. i \in Nat /\ o \in Nat /\ n \in Nat
  BY AgentsAssumption DEF Counted
<1>2. /\ tokensOf' = [tokensOf EXCEPT ![a] = @ + n] /\ runTokens' = runTokens + n
      /\ cost' = IF ModelOf[a] \in DOMAIN Prices
                 THEN cost + i * Prices[ModelOf[a]][1] + o * Prices[ModelOf[a]][2] ELSE cost
      /\ UNCHANGED <<budget, overruns>> /\ doing[a] = "calling"
  BY DEF ModelAnswers, Spend
<1> HIDE DEF i, o
<1>3. /\ tokensOf' \in [AgentNodes -> Nat] /\ tokensOf'[a] = tokensOf[a] + n
      /\ \A b \in AgentNodes \ {a} : tokensOf'[b] = tokensOf[b]
  BY <1>1, <1>2 DEF SpendInv
<1>4. runTokens' = Total(tokensOf', AgentNodes) /\ runTokens' \in Nat /\ runTokens' >= runTokens /\ runTokens \in Nat
  <2>1. Total(tokensOf', AgentNodes) = Total(tokensOf, AgentNodes) + n
    <3> HIDE DEF n
    <3>1. tokensOf \in [AgentNodes -> Nat] /\ IsFiniteSet(AgentNodes)
      BY AgentsAssumption DEF SpendInv
    <3> QED
      BY <1>1, <1>3, <3>1, TotalGrows
  <2> QED
    BY <1>1, <1>2, <2>1 DEF SpendInv
<1>5. cost' \in Nat /\ cost' >= cost /\ cost \in Nat
  <2>1. cost \in Nat
    BY DEF SpendInv
  <2>2. CASE ModelOf[a] \in DOMAIN Prices
    <3> DEFINE p == Prices[ModelOf[a]][1]
               q == Prices[ModelOf[a]][2]
    <3>1. p \in Nat /\ q \in Nat
      BY <2>2, AgentsAssumption
    <3>2. cost' = cost + i * p + o * q
      BY <1>2, <2>2
    <3> HIDE DEF p, q
    <3>3. i * p \in Nat /\ o * q \in Nat
      BY <1>1, <3>1
    <3> QED
      BY <2>1, <3>2, <3>3
  <2>3. CASE ModelOf[a] \notin DOMAIN Prices
    BY <1>2, <2>1, <2>3
  <2> QED
    BY <2>2, <2>3
<1>6. \A b \in AgentNodes : tokensOf[b] \in Nat /\ tokensOf'[b] \in Nat /\ tokensOf'[b] >= tokensOf[b]
  BY <1>1, <1>3 DEF SpendInv
<1>7. /\ budget.perAgent \in Nat \cup {Unlimited} /\ budget.perRun \in Nat \cup {Unlimited}
      /\ budget.cost \in Nat \cup {Unlimited}
  BY AgentsAssumption DEF SpendInv
<1>8. \A m, k \in Nat, limit \in Nat \cup {Unlimited} : Exceeds(m, limit) /\ k >= m => Exceeds(k, limit)
  BY DEF Exceeds
<1>9. ASSUME NEW b \in AgentNodes, OverBudget(b)
      PROVE  Exceeds(runTokens', budget.perRun) \/ Exceeds(cost', budget.cost) \/ Exceeds(tokensOf'[b], budget.perAgent)
  BY <1>4, <1>5, <1>6, <1>7, <1>8, <1>9 DEF OverBudget
<1>10. \A b \in AgentNodes : OverBudget(b) => OverBudget(b)'
  <2>1. SUFFICES ASSUME NEW b \in AgentNodes, OverBudget(b) PROVE OverBudget(b)'
    OBVIOUS
  <2>2. Exceeds(runTokens', budget.perRun) \/ Exceeds(cost', budget.cost) \/ Exceeds(tokensOf'[b], budget.perAgent)
    BY <1>9, <2>1
  <2> QED
    BY <1>2, <2>2 DEF OverBudget
<1>11. ASSUME budget.mode = "error", OverBudget(a) PROVE Refuses(a)
  <2>1. /\ Totals(a)[1][1] = tokensOf'[a] /\ Totals(a)[1][2] = budget.perAgent
        /\ Totals(a)[2][1] = runTokens' /\ Totals(a)[2][2] = budget.perRun
        /\ Totals(a)[3][1] = cost' /\ Totals(a)[3][2] = budget.cost
    BY DEF Totals
  <2>2. \E j \in 1..3 : Exceeds(Totals(a)[j][1], Totals(a)[j][2])
    BY <1>9, <1>11, <2>1
  <2> QED
    BY <1>11, <2>2 DEF Refuses
<1>12. ASSUME NEW to \in {"failed", "returned", "acting"}, doing' = [doing EXCEPT ![a] = to],
              to = "acting" => ~Refuses(a)
       PROVE  SpendInv'
  <2>1. /\ doing' \in [AgentNodes -> Doings] /\ doing'[a] = to
        /\ \A b \in AgentNodes \ {a} : doing'[b] = doing[b]
    BY <1>12 DEF SpendInv, Doings
  <2>2. ASSUME NEW b \in AgentNodes
        PROVE  /\ doing'[b] = "calling" => b \in Declared
               /\ doing'[b] = "handling" => b \notin Declared
               /\ budget.mode = "error" => /\ overruns[b] <= 1
                                           /\ b \in Declared /\ doing'[b] = "acting" => overruns[b] = 0
                                           /\ doing'[b] = "calling" /\ overruns[b] > 0 => OverBudget(b)'
    <3>1. CASE b = a
      <4>1. budget.mode = "error" /\ to = "acting" => ~(overruns[a] > 0)
        BY <1>2, <1>11, <1>12 DEF SpendInv
      <4>2. budget.mode = "error" => overruns[a] <= 1
        BY DEF SpendInv
      <4>3. overruns[a] \in Nat
        BY DEF SpendInv
      <4> QED
        BY <2>1, <3>1, <4>1, <4>2, <4>3
    <3>2. CASE b # a
      BY <1>10, <2>1, <3>2 DEF SpendInv
    <3> QED
      BY <3>1, <3>2
  <2>3. overruns' = overruns /\ budget' = budget /\ overruns \in [AgentNodes -> Nat] /\ budget \in SpendingLimits
    BY <1>2 DEF SpendInv
  <2> QED
    BY <1>3, <1>4, <1>5, <2>1, <2>2, <2>3 DEF SpendInv
<1>13. EntriesOf(a, usage) \in Nat
  <2> DEFINE told == {j \in 1..3 : Exceeds(Totals(a)[j][1], Totals(a)[j][2]) \/ Warns(Totals(a)[j][1], Totals(a)[j][2])}
  <2>1. IsFiniteSet(1..3) /\ told \subseteq 1..3
    BY LimitsAreFew
  <2>2. Cardinality(told) \in Nat
    BY <2>1, FS_Subset, FS_CardinalityType
  <2>3. EntriesOf(a, usage) = (IF NaN \in {usage.input, usage.output} THEN 1 ELSE 0)
                              + (IF ModelOf[a] \in DOMAIN Prices THEN 0 ELSE 1) + Cardinality(told)
    BY DEF EntriesOf
  <2> HIDE DEF told
  <2> QED
    BY <2>2, <2>3
<1>14. CASE Refuses(a)
  <2>1. RecordEntries(a, 1) /\ doing' = [doing EXCEPT ![a] = "failed"]
    BY <1>14 DEF ModelAnswers
  <2> QED
    BY <1>12, <2>1, LogsKept
<1>15. CASE ~Refuses(a)
  <2>1. /\ RecordEntries(a, 1 + EntriesOf(a, usage))
        /\ \E to \in {"returned", "acting"} : doing' = [doing EXCEPT ![a] = to]
    BY <1>15 DEF ModelAnswers
  <2>2. 1 + EntriesOf(a, usage) \in Nat
    BY <1>13
  <2>3. LogsInv'
    BY <2>1, <2>2, LogsKept
  <2> QED
    BY <1>12, <1>15, <2>1, <2>3
<1> QED
  BY <1>14, <1>15

LEMMA SpendStep == SpendInv /\ LogsInv /\ [AgentsNext]_agentVars => SpendInv' /\ LogsInv'
<1> SUFFICES ASSUME SpendInv, LogsInv, [AgentsNext]_agentVars PROVE SpendInv' /\ LogsInv'
  OBVIOUS
<1> USE DEF Doings
<1>1. ASSUME UNCHANGED <<recorded, logs>> PROVE LogsInv'
  BY <1>1 DEF LogsInv, Recorded
<1>2. ASSUME UNCHANGED <<tokensOf, runTokens, cost, budget, doing, overruns>> PROVE SpendInv'
  <2>1. \A a \in AgentNodes : OverBudget(a) => OverBudget(a)'
    BY <1>2 DEF OverBudget
  <2> QED
    BY <1>2, <2>1 DEF SpendInv
<1>3. CASE UNCHANGED agentVars
  BY <1>1, <1>2, <1>3 DEF agentVars, loopVars, guardVars
<1>4. ASSUME NEW a \in AgentNodes, StartAgent(a) PROVE SpendInv' /\ LogsInv'
  <2>1. /\ UNCHANGED <<tokensOf, runTokens, cost, budget, recorded, logs>>
        /\ overruns' = [overruns EXCEPT ![a] = Over(a)]
        /\ \E to \in Doings : /\ doing' = [doing EXCEPT ![a] = to] /\ to # "acting"
                              /\ to = "calling" => a \in Declared
                              /\ to = "handling" => a \notin Declared
    BY <1>4 DEF StartAgent, guardVars
  <2> QED
    BY <1>1, <2>1, AgentGoes, OverIs
<1>5. ASSUME NEW a \in AgentNodes, NEW to \in Doings, doing' = [doing EXCEPT ![a] = to],
             UNCHANGED <<tokensOf, runTokens, cost, budget, overruns>>,
             to \in {"failed", "returned"} \/ (to = "acting" /\ a \notin Declared)
      PROVE  SpendInv'
  <2>1. overruns[a] \in Nat /\ overruns' = [overruns EXCEPT ![a] = overruns[a]]
    BY <1>5 DEF SpendInv
  <2>2. budget.mode = "error" => overruns[a] <= 1
    BY DEF SpendInv
  <2> QED
    BY <1>5, <2>1, <2>2, AgentGoes
<1>6. ASSUME NEW a \in AgentNodes, ModelThrows(a) \/ HandlerReturns(a) PROVE SpendInv' /\ LogsInv'
  <2>1. /\ UNCHANGED <<tokensOf, runTokens, cost, budget, overruns, recorded, logs>>
        /\ \E to \in {"failed", "returned"} : doing' = [doing EXCEPT ![a] = to]
    BY <1>6 DEF ModelThrows, HandlerReturns, guardVars
  <2> QED
    BY <1>1, <1>5, <2>1
<1>7. ASSUME NEW a \in AgentNodes, TakeUp(a) PROVE SpendInv' /\ LogsInv'
  <2>1. /\ UNCHANGED <<tokensOf, runTokens, cost, budget, overruns, recorded, logs>>
        /\ doing' = [doing EXCEPT ![a] = "failed"] \/ doing' = doing
    BY <1>7 DEF TakeUp, guardVars
  <2> QED
    BY <1>1, <1>2, <1>5, <2>1
<1>8. ASSUME NEW a \in AgentNodes, CallsAnswered(a) PROVE SpendInv' /\ LogsInv'
  <2>1. UNCHANGED <<tokensOf, runTokens, cost, budget, recorded, logs>> /\ doing[a] = "acting"
    BY <1>8 DEF CallsAnswered, guardVars
  <2>2. overruns[a] \in Nat /\ (budget.mode = "error" => overruns[a] <= 1)
        /\ (budget.mode = "error" /\ a \in Declared => overruns[a] = 0)
    BY <2>1 DEF SpendInv
  <2>3. CASE a \in Declared
    <3>1. \E to \in {"calling", "returned"}, more \in {0, Over(a)} :
            doing' = [doing EXCEPT ![a] = to] /\ overruns' = [overruns EXCEPT ![a] = overruns[a] + more]
      BY <1>8, <2>3 DEF CallsAnswered
    <3>2. PICK to \in {"calling", "returned"}, more \in {0, Over(a)} :
            doing' = [doing EXCEPT ![a] = to] /\ overruns' = [overruns EXCEPT ![a] = overruns[a] + more]
      BY <3>1
    <3>3. more \in Nat /\ more <= 1 /\ (more > 0 => OverBudget(a))
      BY <3>2, OverIs
    <3>4. /\ overruns[a] + more \in Nat
          /\ budget.mode = "error" => overruns[a] + more <= 1 /\ (overruns[a] + more > 0 => OverBudget(a))
      BY <2>2, <2>3, <3>3
    <3> QED
      BY <1>1, <2>1, <2>3, <3>2, <3>4, AgentGoes
  <2>4. CASE a \notin Declared
    <3>1. doing' = [doing EXCEPT ![a] = "handling"] /\ overruns' = overruns
      BY <1>8, <2>4 DEF CallsAnswered
    <3>2. overruns' = [overruns EXCEPT ![a] = overruns[a]]
      BY <3>1 DEF SpendInv
    <3> QED
      BY <1>1, <2>1, <2>2, <2>4, <3>1, <3>2, AgentGoes
  <2> QED
    BY <2>3, <2>4
<1>9. ASSUME NEW a \in AgentNodes, NEW i \in working[a], NEW how \in {"ok", "error"}, ToolAnswers(a, i, how)
      PROVE  SpendInv' /\ LogsInv'
  <2>1. /\ UNCHANGED <<tokensOf, runTokens, cost, budget, doing, overruns>>
        /\ \E n \in {0, 1} : RecordEntries(a, n)
    BY <1>9 DEF ToolAnswers
  <2> QED
    BY <1>2, <2>1, LogsKept
<1>10. ASSUME NEW a \in AgentNodes, NEW stray \in strays[a], StrayEnds(a, stray) PROVE SpendInv' /\ LogsInv'
  <2>1. UNCHANGED <<tokensOf, runTokens, cost, budget, doing, overruns>> /\ RecordEntries(a, 1)
    BY <1>10 DEF StrayEnds
  <2> QED
    BY <1>2, <2>1, LogsKept
<1>11. ASSUME NEW a \in AgentNodes, NEW calls \in CallLists, HandlerRunsTools(a, calls) PROVE SpendInv' /\ LogsInv'
  <2>1. /\ UNCHANGED <<tokensOf, runTokens, cost, budget, overruns, recorded, logs>>
        /\ doing' = [doing EXCEPT ![a] = "acting"] /\ a \notin Declared
    BY <1>11 DEF HandlerRunsTools, guardVars, SpendInv
  <2> QED
    BY <1>1, <1>5, <2>1
<1>12. ASSUME NEW a \in AgentNodes, HandlerSends(a) PROVE SpendInv' /\ LogsInv'
  BY <1>1, <1>2, <1>12 DEF HandlerSends, guardVars
<1> QED
  BY <1>3, <1>4, <1>6, <1>7, <1>8, <1>9, <1>10, <1>11, <1>12, ModelAnswersStep DEF AgentsNext

LEMMA SpendHolds == SpendInv /\ LogsInv => SpendingBounded
<1> SUFFICES ASSUME SpendInv, LogsInv PROVE SpendingBounded
  OBVIOUS
<1>1. runTokens = MapThenSumSet(LAMBDA a : tokensOf[a], AgentNodes)
  BY DEF SpendInv, Total
<1>2. Cardinality({t \in Threads : recorded[t] > 0}) <= MaxThreadIds =>
        \A t \in Threads : recorded[t] > 0 =>
          \E i \in DOMAIN logs : logs[i] = [thread |-> t, entries |-> recorded[t]]
  BY DEF LogsInv, Recorded
<1> QED
  BY <1>1, <1>2 DEF SpendInv, SpendingBounded

(* The messages of an agent.  Between a model's answer and the results of   *)
(* its calls the last message has calls that are still open; all others     *)
(* are answered.                                                            *)
ToolNamesGiven == UNION {{calls[i] : i \in DOMAIN calls} : calls \in CallLists}
CallSeqs == Seq(ToolNamesGiven)
Messages == [role : {"assistant"}, calls : CallSeqs] \cup [role : {"tool", "swarm"}, call : Nat]

HasResults(m, i) ==
  m[i].role = "assistant" =>
    \A k \in DOMAIN m[i].calls : i + k \in DOMAIN m /\ m[i + k] = [role |-> "tool", call |-> k]
HasAsker(m, i) ==
  m[i].role = "tool" =>
    /\ i > m[i].call /\ m[i - m[i].call].role = "assistant"
    /\ m[i].call \in DOMAIN m[i - m[i].call].calls
AllAnswered(m) == \A i \in DOMAIN m : HasResults(m, i) /\ HasAsker(m, i)
LastIsOpen(m, calls) ==
  /\ Len(m) > 0 /\ m[Len(m)] = Speech(calls)
  /\ \A i \in DOMAIN m : (i # Len(m) => HasResults(m, i)) /\ HasAsker(m, i)

TalkInv ==
  /\ transcript \in [AgentNodes -> Seq(Messages)] /\ toolAsks \in [AgentNodes -> CallSeqs]
  /\ sent \in [AgentNodes -> Nat]
  /\ \A a \in AgentNodes :
       /\ doing[a] \in {"calling", "returned"} => AllAnswered(transcript[a])
       /\ doing[a] = "acting" /\ a \in Declared => LastIsOpen(transcript[a], toolAsks[a])
  /\ \A r \in toolRuns : r.agent \in Declared => Permitted(r.agent, r.tool)

LEMMA SpeechIs ==
  \A calls \in CallSeqs : Speech(calls) \in Messages /\ Speech(calls).role = "assistant" /\ Speech(calls).calls = calls
BY DEF Speech, Messages

LEMMA SpeechAppended ==
  ASSUME NEW m \in Seq(Messages), AllAnswered(m), NEW calls \in CallSeqs
  PROVE  /\ Append(m, Speech(calls)) \in Seq(Messages)
         /\ LastIsOpen(Append(m, Speech(calls)), calls)
         /\ calls = <<>> => AllAnswered(Append(m, Speech(calls)))
<1> DEFINE n == Append(m, Speech(calls))
<1>1. /\ n \in Seq(Messages) /\ Len(n) = Len(m) + 1 /\ n[Len(n)] = Speech(calls) /\ Len(m) \in Nat
      /\ \A i \in 1..Len(m) : n[i] = m[i]
      /\ DOMAIN n = 1..Len(n) /\ DOMAIN m = 1..Len(m)
  <2>1. Speech(calls) \in Messages
    BY SpeechIs
  <2> QED
    BY <2>1
<1> HIDE DEF n
<1>2. ASSUME NEW i \in 1..Len(m) PROVE HasResults(n, i) /\ HasAsker(n, i)
  <2>1. HasResults(m, i) /\ HasAsker(m, i) /\ n[i] = m[i] /\ m[i] \in Messages
    BY <1>1 DEF AllAnswered
  <2>2. HasResults(n, i)
    <3> SUFFICES ASSUME m[i].role = "assistant", NEW k \in DOMAIN m[i].calls
                 PROVE  i + k \in DOMAIN n /\ n[i + k] = [role |-> "tool", call |-> k]
      BY <2>1 DEF HasResults
    <3>1. i + k \in DOMAIN m /\ m[i + k] = [role |-> "tool", call |-> k]
      BY <2>1 DEF HasResults
    <3> QED
      BY <1>1, <3>1
  <2>3. HasAsker(n, i)
    <3> SUFFICES ASSUME m[i].role = "tool"
                 PROVE  /\ i > m[i].call /\ n[i - m[i].call].role = "assistant"
                        /\ m[i].call \in DOMAIN n[i - m[i].call].calls
      BY <2>1 DEF HasAsker
    <3>1. m[i].call \in Nat
      BY <2>1 DEF Messages
    <3>2. /\ i > m[i].call /\ m[i - m[i].call].role = "assistant" /\ m[i].call \in DOMAIN m[i - m[i].call].calls
      BY <2>1 DEF HasAsker
    <3>3. i - m[i].call \in 1..Len(m)
      BY <1>1, <3>1, <3>2
    <3> QED
      BY <1>1, <3>2, <3>3
  <2> QED
    BY <2>2, <2>3
<1>3. HasAsker(n, Len(n)) /\ (calls = <<>> => HasResults(n, Len(n)))
  <2>1. n[Len(n)].role = "assistant" /\ n[Len(n)].calls = calls
    BY <1>1, SpeechIs
  <2>2. DOMAIN <<>> = {}
    OBVIOUS
  <2> QED
    BY <2>1, <2>2 DEF HasAsker, HasResults
<1>4. \A i \in DOMAIN n : i \in 1..Len(m) \/ i = Len(n)
  BY <1>1
<1>5. Len(n) > 0
  BY <1>1
<1>6. LastIsOpen(n, calls) /\ (calls = <<>> => AllAnswered(n))
  BY <1>1, <1>2, <1>3, <1>4, <1>5 DEF LastIsOpen, AllAnswered
<1> QED
  BY <1>1, <1>6 DEF n

LEMMA ResultsAppended ==
  ASSUME NEW m \in Seq(Messages), NEW calls \in CallSeqs, LastIsOpen(m, calls)
  PROVE  m \o Results(calls) \in Seq(Messages) /\ AllAnswered(m \o Results(calls))
<1> DEFINE n == m \o Results(calls)
<1>1. /\ Results(calls) \in Seq(Messages) /\ Len(Results(calls)) = Len(calls) /\ Len(calls) \in Nat
      /\ DOMAIN calls = 1..Len(calls)
      /\ \A k \in 1..Len(calls) : Results(calls)[k] = [role |-> "tool", call |-> k]
  <2>1. Len(calls) \in Nat /\ DOMAIN calls = 1..Len(calls)
    BY DEF CallSeqs
  <2>2. Results(calls) = [k \in 1..Len(calls) |-> [role |-> "tool", call |-> k]]
    BY <2>1 DEF Results
  <2>3. \A k \in 1..Len(calls) : [role |-> "tool", call |-> k] \in Messages
    BY <2>1 DEF Messages
  <2>4. Results(calls) \in [1..Len(calls) -> Messages]
    BY <2>2, <2>3
  <2> QED
    BY <2>1, <2>2, <2>4
<1>2. /\ n \in Seq(Messages) /\ Len(n) = Len(m) + Len(calls) /\ Len(m) \in Nat
      /\ \A i \in 1..Len(m) : n[i] = m[i]
      /\ \A k \in 1..Len(calls) : n[Len(m) + k] = [role |-> "tool", call |-> k]
      /\ DOMAIN n = 1..Len(n) /\ DOMAIN m = 1..Len(m)
  BY <1>1
<1> HIDE DEF n
<1>3. Len(m) > 0 /\ m[Len(m)] = Speech(calls) /\ Speech(calls).role = "assistant" /\ Speech(calls).calls = calls
  BY SpeechIs DEF LastIsOpen
<1>4. ASSUME NEW i \in 1..Len(m) PROVE HasResults(n, i) /\ HasAsker(n, i)
  <2>1. (i # Len(m) => HasResults(m, i)) /\ HasAsker(m, i) /\ n[i] = m[i] /\ m[i] \in Messages
    <3>1. i \in DOMAIN m /\ n[i] = m[i] /\ m[i] \in Messages
      BY <1>2
    <3> QED
      BY <3>1 DEF LastIsOpen
  <2>2. CASE i # Len(m)
    <3> SUFFICES ASSUME m[i].role = "assistant", NEW k \in DOMAIN m[i].calls
                 PROVE  i + k \in DOMAIN n /\ n[i + k] = [role |-> "tool", call |-> k]
      <4>1. HasAsker(n, i)
        <5> SUFFICES ASSUME m[i].role = "tool"
                     PROVE  /\ i > m[i].call /\ n[i - m[i].call].role = "assistant"
                            /\ m[i].call \in DOMAIN n[i - m[i].call].calls
          BY <2>1 DEF HasAsker
        <5>1. m[i].call \in Nat
          BY <2>1 DEF Messages
        <5>2. /\ i > m[i].call /\ m[i - m[i].call].role = "assistant" /\ m[i].call \in DOMAIN m[i - m[i].call].calls
          BY <2>1 DEF HasAsker
        <5>3. i - m[i].call \in 1..Len(m)
          BY <1>2, <5>1, <5>2
        <5> QED
          BY <1>2, <5>2, <5>3
      <4> QED
        BY <2>1, <4>1 DEF HasResults
    <3>1. i + k \in DOMAIN m /\ m[i + k] = [role |-> "tool", call |-> k]
      BY <2>1, <2>2 DEF HasResults
    <3> QED
      BY <1>1, <1>2, <3>1
  <2>3. CASE i = Len(m)
    <3>1. n[i].role = "assistant" /\ n[i].calls = calls
      BY <1>3, <2>1, <2>3
    <3>2. ASSUME NEW k \in DOMAIN calls PROVE i + k \in DOMAIN n /\ n[i + k] = [role |-> "tool", call |-> k]
      <4>1. k \in 1..Len(calls)
        BY <1>1
      <4>2. n[i + k] = [role |-> "tool", call |-> k]
        BY <1>2, <2>3, <4>1
      <4>3. i + k \in DOMAIN n
        BY <1>1, <1>2, <2>3, <4>1
      <4> QED
        BY <4>2, <4>3
    <3> QED
      BY <3>1, <3>2 DEF HasResults, HasAsker
  <2> QED
    BY <2>2, <2>3
<1>5. ASSUME NEW k \in 1..Len(calls) PROVE HasResults(n, Len(m) + k) /\ HasAsker(n, Len(m) + k)
  <2>1. n[Len(m) + k].role = "tool" /\ n[Len(m) + k].call = k
    <3>1. n[Len(m) + k] = [role |-> "tool", call |-> k]
      BY <1>2
    <3> QED
      BY <3>1
  <2>2. Len(m) + k > k /\ (Len(m) + k) - k = Len(m) /\ Len(m) \in 1..Len(m)
    BY <1>2, <1>3
  <2>3. n[Len(m)].role = "assistant" /\ n[Len(m)].calls = calls
    BY <1>2, <1>3, <2>2
  <2> QED
    BY <1>1, <2>1, <2>2, <2>3 DEF HasResults, HasAsker
<1>6. \A i \in DOMAIN n : i \in 1..Len(m) \/ \E k \in 1..Len(calls) : i = Len(m) + k
  <2> SUFFICES ASSUME NEW i \in DOMAIN n, i \notin 1..Len(m) PROVE \E k \in 1..Len(calls) : i = Len(m) + k
    OBVIOUS
  <2>1. i - Len(m) \in 1..Len(calls) /\ i = Len(m) + (i - Len(m))
    BY <1>1, <1>2
  <2> QED
    BY <2>1
<1> QED
  BY <1>2, <1>4, <1>5, <1>6 DEF AllAnswered, n

LEMMA TalkInitially == AgentsInit => TalkInv
BY DEF AgentsInit, TalkInv, CallSeqs

(* One agent goes on with its messages and calls, the others stay. *)
LEMMA AgentTalks ==
  ASSUME TalkInv, UNCHANGED toolRuns, NEW a \in AgentNodes, doing \in [AgentNodes -> Doings],
         NEW to \in Doings, doing' = [doing EXCEPT ![a] = to],
         NEW m \in Seq(Messages), transcript' = [transcript EXCEPT ![a] = m],
         NEW calls \in CallSeqs, toolAsks' = [toolAsks EXCEPT ![a] = calls],
         sent' \in [AgentNodes -> Nat],
         to \in {"calling", "returned"} => AllAnswered(m),
         to = "acting" /\ a \in Declared => LastIsOpen(m, calls)
  PROVE  TalkInv'
<1>1. /\ transcript' \in [AgentNodes -> Seq(Messages)] /\ toolAsks' \in [AgentNodes -> CallSeqs]
      /\ transcript'[a] = m /\ toolAsks'[a] = calls /\ doing'[a] = to
      /\ \A b \in AgentNodes \ {a} : /\ transcript'[b] = transcript[b] /\ toolAsks'[b] = toolAsks[b]
                                     /\ doing'[b] = doing[b]
  BY DEF TalkInv
<1>2. \A b \in AgentNodes :
        /\ doing'[b] \in {"calling", "returned"} => AllAnswered(transcript'[b])
        /\ doing'[b] = "acting" /\ b \in Declared => LastIsOpen(transcript'[b], toolAsks'[b])
  <2> SUFFICES ASSUME NEW b \in AgentNodes
               PROVE  /\ doing'[b] \in {"calling", "returned"} => AllAnswered(transcript'[b])
                      /\ doing'[b] = "acting" /\ b \in Declared => LastIsOpen(transcript'[b], toolAsks'[b])
    OBVIOUS
  <2>1. CASE b = a
    BY <1>1, <2>1
  <2>2. CASE b # a
    BY <1>1, <2>2 DEF TalkInv
  <2> QED
    BY <2>1, <2>2
<1>3. \A r \in toolRuns' : r.agent \in Declared => Permitted(r.agent, r.tool)
  BY DEF TalkInv
<1> QED
  BY <1>1, <1>2, <1>3 DEF TalkInv

LEMMA TalkStep == SpendInv /\ TalkInv /\ [AgentsNext]_agentVars => TalkInv'
<1> SUFFICES ASSUME SpendInv, TalkInv, [AgentsNext]_agentVars PROVE TalkInv'
  OBVIOUS
<1>1. doing \in [AgentNodes -> Doings] /\ \A a \in AgentNodes : doing[a] = "calling" => a \in Declared
  BY DEF SpendInv
<1>2. /\ sent \in [AgentNodes -> Nat]
      /\ \A a \in AgentNodes : /\ transcript[a] \in Seq(Messages) /\ toolAsks[a] \in CallSeqs
                               /\ transcript = [transcript EXCEPT ![a] = transcript[a]]
                               /\ toolAsks = [toolAsks EXCEPT ![a] = toolAsks[a]]
  BY DEF TalkInv
<1>3. /\ <<>> \in CallSeqs /\ <<>> \in Seq(Messages) /\ AllAnswered(<<>>) /\ CallLists \subseteq CallSeqs
  BY AgentsAssumption DEF CallSeqs, ToolNamesGiven, AllAnswered
<1>4. ASSUME UNCHANGED <<transcript, toolAsks, toolRuns, doing>>, sent' \in [AgentNodes -> Nat] PROVE TalkInv'
  BY <1>4 DEF TalkInv
<1>5. CASE UNCHANGED agentVars
  BY <1>2, <1>4, <1>5 DEF agentVars, loopVars
<1>6. ASSUME NEW a \in AgentNodes, StartAgent(a) PROVE TalkInv'
  <2>1. /\ UNCHANGED <<toolAsks, toolRuns>> /\ transcript' = [transcript EXCEPT ![a] = <<>>]
        /\ sent' = [sent EXCEPT ![a] = 0]
        /\ \E to \in Doings : doing' = [doing EXCEPT ![a] = to] /\ to # "acting"
    BY <1>6 DEF StartAgent, Doings
  <2>2. sent' \in [AgentNodes -> Nat]
    BY <1>2, <2>1
  <2>3. PICK to \in Doings : doing' = [doing EXCEPT ![a] = to] /\ to # "acting"
    BY <2>1
  <2>4. toolAsks' = [toolAsks EXCEPT ![a] = toolAsks[a]] /\ toolAsks[a] \in CallSeqs
    BY <1>2, <2>1
  <2> QED
    BY <1>1, <1>3, <2>1, <2>2, <2>3, <2>4, AgentTalks
<1>7. ASSUME NEW a \in AgentNodes, ModelThrows(a) PROVE TalkInv'
  <2>1. doing' = [doing EXCEPT ![a] = "failed"] /\ UNCHANGED <<transcript, toolAsks, toolRuns, sent>>
    BY <1>7 DEF ModelThrows
  <2> QED
    BY <1>1, <1>2, <2>1, AgentTalks DEF Doings
<1>8. ASSUME NEW a \in AgentNodes, NEW usage \in Usages, NEW calls \in CallLists, ModelAnswers(a, usage, calls)
      PROVE  TalkInv'
  <2>1. doing[a] = "calling" /\ UNCHANGED <<toolRuns, sent>> /\ AllAnswered(transcript[a]) /\ calls \in CallSeqs
    BY <1>3, <1>8 DEF ModelAnswers, TalkInv
  <2>2. CASE Refuses(a)
    <3>1. doing' = [doing EXCEPT ![a] = "failed"] /\ UNCHANGED <<transcript, toolAsks>>
      BY <1>8, <2>2 DEF ModelAnswers
    <3> QED
      BY <1>1, <1>2, <2>1, <3>1, AgentTalks DEF Doings
  <2>3. CASE ~Refuses(a)
    <3> DEFINE ends == calls = <<>> \/ OutOfTokens(used'[a])
    <3>1. /\ transcript' = [transcript EXCEPT ![a] = Append(transcript[a], Said(a, calls))]
          /\ doing' = [doing EXCEPT ![a] = IF ends THEN "returned" ELSE "acting"]
          /\ toolAsks' = [toolAsks EXCEPT ![a] = IF ends THEN <<>> ELSE calls]
      BY <1>8, <2>3 DEF ModelAnswers
    <3>2. CASE ends
      <4>1. Said(a, calls) = Speech(<<>>)
        BY <3>2 DEF Said
      <4>2. /\ Append(transcript[a], Speech(<<>>)) \in Seq(Messages)
            /\ AllAnswered(Append(transcript[a], Speech(<<>>)))
        BY <1>2, <1>3, <2>1, SpeechAppended
      <4>3. doing' = [doing EXCEPT ![a] = "returned"] /\ toolAsks' = [toolAsks EXCEPT ![a] = <<>>]
            /\ transcript' = [transcript EXCEPT ![a] = Append(transcript[a], Speech(<<>>))]
        BY <3>1, <3>2, <4>1
      <4> QED
        BY <1>1, <1>2, <1>3, <2>1, <4>2, <4>3, AgentTalks DEF Doings
    <3>3. CASE ~ends
      <4>1. Said(a, calls) = Speech(calls)
        BY <3>3 DEF Said
      <4>2. /\ Append(transcript[a], Speech(calls)) \in Seq(Messages)
            /\ LastIsOpen(Append(transcript[a], Speech(calls)), calls)
        BY <1>2, <2>1, SpeechAppended
      <4>3. doing' = [doing EXCEPT ![a] = "acting"] /\ toolAsks' = [toolAsks EXCEPT ![a] = calls]
            /\ transcript' = [transcript EXCEPT ![a] = Append(transcript[a], Speech(calls))]
        BY <3>1, <3>3, <4>1
      <4> QED
        BY <1>1, <1>2, <2>1, <4>2, <4>3, AgentTalks DEF Doings
    <3> QED
      BY <3>2, <3>3
  <2> QED
    BY <2>2, <2>3
<1>9. ASSUME NEW a \in AgentNodes, TakeUp(a) PROVE TalkInv'
  <2> DEFINE Runs == {i \in TakenUp(a) : HasTool(a, toolAsks[a][i]) /\ ~Forbidden(a, toolAsks[a][i])}
  <2>1. /\ UNCHANGED <<transcript, toolAsks, sent>>
        /\ toolRuns' = toolRuns \cup {[agent |-> a, tool |-> toolAsks[a][i]] : i \in Runs}
        /\ doing' = [doing EXCEPT ![a] = "failed"] \/ doing' = doing
    BY <1>9 DEF TakeUp
  <2>2. \A r \in toolRuns' : r.agent \in Declared => Permitted(r.agent, r.tool)
    BY <2>1 DEF TalkInv, Forbidden
  <2>3. \A b \in AgentNodes : doing'[b] \in {doing[b], "failed"}
    BY <1>1, <2>1
  <2> QED
    BY <2>1, <2>2, <2>3 DEF TalkInv
<1>10. ASSUME NEW a \in AgentNodes,
              (\E i \in working[a], how \in {"ok", "error"} : ToolAnswers(a, i, how))
              \/ \E stray \in strays[a] : StrayEnds(a, stray)
       PROVE  TalkInv'
  <2>1. UNCHANGED <<transcript, toolAsks, toolRuns, doing, sent>>
    BY <1>10 DEF ToolAnswers, StrayEnds
  <2> QED
    BY <1>2, <1>4, <2>1
<1>11. ASSUME NEW a \in AgentNodes, CallsAnswered(a) PROVE TalkInv'
  <2>1. doing[a] = "acting" /\ toolAsks' = [toolAsks EXCEPT ![a] = <<>>] /\ UNCHANGED <<toolRuns, sent>>
    BY <1>11 DEF CallsAnswered
  <2>2. CASE a \in Declared
    <3>1. /\ transcript' = [transcript EXCEPT ![a] = transcript[a] \o Results(toolAsks[a])]
          /\ \E to \in {"calling", "returned"} : doing' = [doing EXCEPT ![a] = to]
      BY <1>11, <2>2 DEF CallsAnswered
    <3>2. /\ transcript[a] \o Results(toolAsks[a]) \in Seq(Messages)
          /\ AllAnswered(transcript[a] \o Results(toolAsks[a]))
      BY <1>2, <2>1, <2>2, ResultsAppended DEF TalkInv
    <3> QED
      BY <1>1, <1>2, <1>3, <2>1, <3>1, <3>2, AgentTalks DEF Doings
  <2>3. CASE a \notin Declared
    <3>1. doing' = [doing EXCEPT ![a] = "handling"] /\ UNCHANGED transcript
      BY <1>11, <2>3 DEF CallsAnswered
    <3> QED
      BY <1>1, <1>2, <1>3, <2>1, <3>1, AgentTalks DEF Doings
  <2> QED
    BY <2>2, <2>3
<1>12. ASSUME NEW a \in AgentNodes, NEW calls \in CallLists, HandlerRunsTools(a, calls) PROVE TalkInv'
  <2>1. /\ doing' = [doing EXCEPT ![a] = "acting"] /\ toolAsks' = [toolAsks EXCEPT ![a] = calls] /\ a \notin Declared
        /\ UNCHANGED <<transcript, sent, toolRuns>>
    BY <1>12 DEF HandlerRunsTools, SpendInv
  <2> QED
    BY <1>1, <1>2, <1>3, <2>1, AgentTalks DEF Doings
<1>13. ASSUME NEW a \in AgentNodes, HandlerSends(a) PROVE TalkInv'
  <2>1. sent' = [sent EXCEPT ![a] = @ + 1] /\ UNCHANGED <<doing, transcript, toolAsks, toolRuns>>
    BY <1>13 DEF HandlerSends
  <2>2. sent' \in [AgentNodes -> Nat]
    BY <1>2, <2>1
  <2> QED
    BY <1>4, <2>1, <2>2
<1>14. ASSUME NEW a \in AgentNodes, HandlerReturns(a) PROVE TalkInv'
  <2> DEFINE m == [i \in 1..sent[a] |-> [role |-> "swarm", call |-> i]]
  <2>1. /\ doing' = [doing EXCEPT ![a] = "returned"] /\ transcript' = [transcript EXCEPT ![a] = m]
        /\ UNCHANGED <<toolAsks, sent, toolRuns>>
    BY <1>14 DEF HandlerReturns
  <2>2. sent[a] \in Nat /\ \A i \in 1..sent[a] : [role |-> "swarm", call |-> i] \in Messages
    BY <1>2 DEF Messages
  <2>3. m \in [1..sent[a] -> Messages]
    BY <2>2
  <2>4. m \in Seq(Messages)
    BY <2>2, <2>3
  <2>5. \A i \in DOMAIN m : m[i].role = "swarm"
    OBVIOUS
  <2>6. AllAnswered(m)
    BY <2>5 DEF AllAnswered, HasResults, HasAsker
  <2> HIDE DEF m
  <2> QED
    BY <1>1, <1>2, <2>1, <2>4, <2>6, AgentTalks DEF Doings
<1> QED
  BY <1>5, <1>6, <1>7, <1>8, <1>9, <1>10, <1>11, <1>12, <1>13, <1>14 DEF AgentsNext

LEMMA TalkHolds == TalkInv => TranscriptSound
BY DEF TalkInv, TranscriptSound, AllAnswered, HasResults, HasAsker

-----------------------------------------------------------------------------
(***************************************************************************)
(* The memory.  What is on disk agrees with what was noted, entry by       *)
(* entry, whoever moves it; the extractor's loader may lag behind, with a  *)
(* key that others have moved, but never has an entry twice, nor facts     *)
(* that were not noted.  A session notes facts on one day only, so the     *)
(* entries counted for a fact belong to as many sessions.                  *)
(***************************************************************************)
IsKey(k) == k = Key(k.folder, k.day, k.who)
IsUnit(u) == u = [tier |-> u.tier, cost |-> u.cost, content |-> u.content]
IsEntry(k) == k.folder \in {"recent", "archive"}
NoteOf(k) == <<k.who, k.day>>
Noting(f, notes) == {e[1] : e \in {x \in DOMAIN notes : f \in notes[x]}}
Topics(files) == {k \in DOMAIN files : k.folder = "semantic"}
Grow(notes, more) == \A e \in DOMAIN notes : e \in DOMAIN more /\ notes[e] \subseteq more[e]

(* The files of a day with these notes. *)
Filed(d, files, notes) ==
  /\ d \in Nat /\ IsFiniteSet(DOMAIN notes)
  /\ \A e \in DOMAIN notes : /\ e \in Agendas \X Nat /\ notes[e] \in SUBSET Facts
                             /\ \E k \in DOMAIN files : IsEntry(k) /\ NoteOf(k) = e
  /\ \A k \in DOMAIN files : IsKey(k) /\ files[k].facts \in SUBSET Facts
  /\ \A k \in DOMAIN files : IsEntry(k) => NoteOf(k) \in DOMAIN notes /\ files[k].facts = notes[NoteOf(k)]
  /\ \A k \in DOMAIN files : k.folder = "archive" =>
       k.day <= d - RecentDays /\ Key("recent", k.day, k.who) \notin DOMAIN files

(* The units of the extractor's loader on a day with these notes. *)
Kenned(d, us, notes) ==
  /\ \A k \in DOMAIN us : IsKey(k) /\ IsUnit(us[k])
  /\ \A k \in Episodic(us) :
       /\ NoteOf(k) \in DOMAIN notes
       /\ us[k].content \in {Unread, Unreadable} \/ us[k].content \subseteq notes[NoteOf(k)]
  /\ \A k \in DOMAIN us : k.folder = "archive" =>
       k.day <= d - RecentDays /\ Key("recent", k.day, k.who) \notin DOMAIN us

LEMMA WithoutIs ==
  \A f, ks : DOMAIN Without(f, ks) = DOMAIN f \ ks /\ \A k \in DOMAIN f \ ks : Without(f, ks)[k] = f[k]
BY DEF Without

(* Entries of recent days are found again in the archive; the rest stays. *)
LEMMA MovedIs ==
  ASSUME NEW files, NEW ks \in SUBSET DOMAIN files,
         \A k \in ks : k = Key("recent", k.day, k.who),
         \A k \in ks : Archived(k) \notin DOMAIN files
  PROVE  /\ DOMAIN Moved(files, ks) = (DOMAIN files \ ks) \cup {Archived(k) : k \in ks}
         /\ \A k \in DOMAIN files \ ks : Moved(files, ks)[k] = files[k]
         /\ \A k \in ks : Moved(files, ks)[Archived(k)] = files[k]
<1> DEFINE new == [a \in {Archived(k) : k \in ks} |-> files[Key("recent", a.day, a.who)]]
<1>1. \A k \in ks : Archived(k).day = k.day /\ Archived(k).who = k.who
  BY DEF Archived, Key
<1>2. \A k \in ks : new[Archived(k)] = files[k]
  BY <1>1
<1>3. DOMAIN new = {Archived(k) : k \in ks}
  OBVIOUS
<1>4. Moved(files, ks) = Overlaid(new, Without(files, ks))
  BY DEF Moved
<1> HIDE DEF new
<1>5. DOMAIN Without(files, ks) = DOMAIN files \ ks /\ \A k \in DOMAIN files \ ks : Without(files, ks)[k] = files[k]
  BY WithoutIs
<1> DEFINE old == Without(files, ks)
<1> HIDE DEF old
<1> HIDE DEF new
<1>6. Moved(files, ks) = [x \in DOMAIN new \cup DOMAIN old |-> IF x \in DOMAIN new THEN new[x] ELSE old[x]]
  BY <1>4 DEF Overlaid, old
<1>7. /\ DOMAIN Moved(files, ks) = (DOMAIN files \ ks) \cup {Archived(k) : k \in ks}
      /\ \A k \in DOMAIN files \ ks : Moved(files, ks)[k] = files[k]
  BY <1>3, <1>5, <1>6 DEF old
<1>8. ASSUME NEW k \in ks PROVE Moved(files, ks)[Archived(k)] = files[k]
  <2>1. Archived(k) \in DOMAIN new
    BY <1>3
  <2> QED
    BY <2>1, <1>2, <1>6
<1> QED
  BY <1>7, <1>8

(* The file of the day is written: nothing of the day is archived yet. *)
LEMMA WriteFiled ==
  ASSUME NEW d, NEW files, NEW notes, Filed(d, files, notes), NEW s \in Agendas,
         NEW f, f.facts \in SUBSET Facts
  PROVE  /\ Filed(d, Overlaid(Only(Key("recent", d, s), f), files), Overlaid(Only(<<s, d>>, f.facts), notes))
         /\ Topics(Overlaid(Only(Key("recent", d, s), f), files)) \subseteq Topics(files)
<1> DEFINE k == Key("recent", d, s)
           e == <<s, d>>
           g == Overlaid(Only(k, f), files)
           more == Overlaid(Only(e, f.facts), notes)
<1>1. DOMAIN g = DOMAIN files \cup {k} /\ g[k] = f /\ \A x \in DOMAIN files \ {k} : g[x] = files[x]
  <2> HIDE DEF k
  <2> QED
    BY DEF Overlaid, Only
<1>2. DOMAIN more = DOMAIN notes \cup {e} /\ more[e] = f.facts /\ \A x \in DOMAIN notes \ {e} : more[x] = notes[x]
  <2> HIDE DEF e
  <2> QED
    BY DEF Overlaid, Only
<1>3. IsKey(k) /\ NoteOf(k) = e /\ IsEntry(k) /\ k.folder = "recent" /\ k.day = d /\ k.who = s
  BY DEF IsKey, NoteOf, IsEntry, Key
<1> HIDE DEF k, g, more
<1>4. d \in Nat /\ e \in Agendas \X Nat
  BY DEF Filed
<1>5. IsFiniteSet(DOMAIN more)
  BY <1>2, FS_AddElement DEF Filed
<1>6. ASSUME NEW x \in DOMAIN more
      PROVE  x \in Agendas \X Nat /\ more[x] \in SUBSET Facts /\ \E y \in DOMAIN g : IsEntry(y) /\ NoteOf(y) = x
  <2>1. CASE x = e
    BY <2>1, <1>1, <1>2, <1>3, <1>4
  <2>2. CASE x # e
    BY <2>2, <1>1, <1>2 DEF Filed
  <2> QED
    BY <2>1, <2>2
<1>7. \A x \in DOMAIN g : IsKey(x) /\ g[x].facts \in SUBSET Facts
  BY <1>1, <1>3 DEF Filed
<1>8. ASSUME NEW x \in DOMAIN files, IsEntry(x), x # k PROVE NoteOf(x) # e
  <2>1. SUFFICES ASSUME x.who = s, x.day = d PROVE FALSE
    BY DEF NoteOf
  <2>2. CASE x.folder = "recent"
    BY <2>1, <2>2, <1>8 DEF Filed, IsKey, k
  <2>3. CASE x.folder = "archive"
    BY <2>1, <2>3, <1>4, MemoryAssumption DEF Filed
  <2> QED
    BY <2>2, <2>3, <1>8 DEF IsEntry
<1>9. ASSUME NEW x \in DOMAIN g, IsEntry(x) PROVE NoteOf(x) \in DOMAIN more /\ g[x].facts = more[NoteOf(x)]
  <2>1. CASE x = k
    BY <2>1, <1>1, <1>2, <1>3
  <2>2. CASE x # k
    BY <2>2, <1>1, <1>2, <1>8, <1>9 DEF Filed
  <2> QED
    BY <2>1, <2>2
<1>10. ASSUME NEW x \in DOMAIN g, x.folder = "archive"
       PROVE  x.day <= d - RecentDays /\ Key("recent", x.day, x.who) \notin DOMAIN g
  <2>1. x \in DOMAIN files
    BY <1>1, <1>3, <1>10
  <2>2. x.day <= d - RecentDays /\ Key("recent", x.day, x.who) \notin DOMAIN files
    BY <2>1, <1>10 DEF Filed
  <2>3. x.day \in Nat
    BY <2>1, <1>10 DEF Filed, IsEntry, NoteOf
  <2>4. Key("recent", x.day, x.who) # k
    BY <2>2, <2>3, <1>4, MemoryAssumption DEF k, Key
  <2> QED
    BY <2>2, <2>4, <1>1
<1>11. Topics(g) \subseteq Topics(files)
  BY <1>1, <1>3 DEF Topics
<1>12. Filed(d, g, more)
  BY <1>4, <1>5, <1>6, <1>7, <1>9, <1>10 DEF Filed
<1> QED
  BY <1>11, <1>12 DEF k, g, more

(* What is old is moved, or some of it. *)
LEMMA MoveFiled ==
  ASSUME NEW d, NEW files, NEW notes, Filed(d, files, notes),
         NEW ks \in SUBSET {x \in DOMAIN files : x.folder = "recent" /\ x.day <= d - RecentDays}
  PROVE  Filed(d, Moved(files, ks), notes) /\ Topics(Moved(files, ks)) \subseteq Topics(files)
<1> DEFINE g == Moved(files, ks)
<1>1. \A k \in ks : k = Key("recent", k.day, k.who) /\ k \in DOMAIN files /\ k.day <= d - RecentDays
  BY DEF Filed, IsKey
<1>2. \A k \in ks : /\ Archived(k).folder = "archive" /\ Archived(k).day = k.day /\ Archived(k).who = k.who
                    /\ IsKey(Archived(k)) /\ IsEntry(Archived(k)) /\ NoteOf(Archived(k)) = NoteOf(k) /\ IsEntry(k)
  BY <1>1 DEF Archived, Key, IsKey, IsEntry, NoteOf
<1>3. \A k \in ks : Archived(k) \notin DOMAIN files
  BY <1>1, <1>2 DEF Filed
<1>4. /\ DOMAIN g = (DOMAIN files \ ks) \cup {Archived(k) : k \in ks}
      /\ \A k \in DOMAIN files \ ks : g[k] = files[k]
      /\ \A k \in ks : g[Archived(k)] = files[k]
  BY <1>1, <1>3, MovedIs
<1> HIDE DEF g
<1>5. d \in Nat /\ IsFiniteSet(DOMAIN notes)
  BY DEF Filed
<1>6. ASSUME NEW e \in DOMAIN notes
      PROVE  e \in Agendas \X Nat /\ notes[e] \in SUBSET Facts /\ \E k \in DOMAIN g : IsEntry(k) /\ NoteOf(k) = e
  <2>1. e \in Agendas \X Nat /\ notes[e] \in SUBSET Facts
    BY DEF Filed
  <2>2. PICK k \in DOMAIN files : IsEntry(k) /\ NoteOf(k) = e
    BY DEF Filed
  <2>3. CASE k \in ks
    BY <2>1, <2>2, <2>3, <1>2, <1>4
  <2>4. CASE k \notin ks
    BY <2>1, <2>2, <2>4, <1>4
  <2> QED
    BY <2>3, <2>4
<1>7. ASSUME NEW x \in DOMAIN g
      PROVE  /\ IsKey(x) /\ g[x].facts \in SUBSET Facts
             /\ IsEntry(x) => NoteOf(x) \in DOMAIN notes /\ g[x].facts = notes[NoteOf(x)]
  <2>1. CASE x \in DOMAIN files \ ks
    BY <2>1, <1>4 DEF Filed
  <2>2. CASE x \notin DOMAIN files \ ks
    <3>1. PICK k \in ks : x = Archived(k)
      BY <2>2, <1>4
    <3>2. IsKey(x) /\ NoteOf(x) = NoteOf(k) /\ IsEntry(k) /\ g[x] = files[k] /\ k \in DOMAIN files
      BY <3>1, <1>1, <1>2, <1>4
    <3> QED
      BY <3>2 DEF Filed
  <2> QED
    BY <2>1, <2>2
<1>8. ASSUME NEW x \in DOMAIN g, x.folder = "archive"
      PROVE  x.day <= d - RecentDays /\ Key("recent", x.day, x.who) \notin DOMAIN g
  <2>1. Key("recent", x.day, x.who) \notin {Archived(k) : k \in ks}
    BY DEF Archived, Key
  <2>2. CASE x \in DOMAIN files
    BY <2>1, <2>2, <1>4, <1>8 DEF Filed
  <2>3. CASE x \notin DOMAIN files
    <3>1. PICK k \in ks : x = Archived(k)
      BY <2>3, <1>4
    <3>2. x.day <= d - RecentDays /\ Key("recent", x.day, x.who) = k
      BY <3>1, <1>1, <1>2
    <3> QED
      BY <3>2, <2>1, <1>4
  <2> QED
    BY <2>2, <2>3
<1>9. Topics(g) \subseteq Topics(files)
  BY <1>2, <1>4 DEF Topics
<1>10. Filed(d, g, notes)
  BY <1>5, <1>6, <1>7, <1>8 DEF Filed
<1> QED
  BY <1>9, <1>10 DEF g

(* What is read changes the content of units only. *)
LEMMA HydratedIs ==
  ASSUME NEW us, NEW ks, \A k \in DOMAIN us : IsUnit(us[k])
  PROVE  /\ DOMAIN Hydrated(us, ks) = DOMAIN us
         /\ \A k \in DOMAIN us :
              /\ IsUnit(Hydrated(us, ks)[k])
              /\ Hydrated(us, ks)[k].tier = us[k].tier /\ Hydrated(us, ks)[k].cost = us[k].cost
              /\ k \notin ks => Hydrated(us, ks)[k] = us[k]
              /\ k \in ks => Hydrated(us, ks)[k].content = Content(us[k], k)
<1> DEFINE h == Hydrated(us, ks)
<1>1. h = [k \in DOMAIN us |-> IF k \in ks THEN [us[k] EXCEPT !.content = Content(us[k], k)] ELSE us[k]]
  BY DEF Hydrated
<1> HIDE DEF h
<1>2. ASSUME NEW k \in DOMAIN us
      PROVE  /\ IsUnit(h[k]) /\ h[k].tier = us[k].tier /\ h[k].cost = us[k].cost
             /\ k \notin ks => h[k] = us[k]
             /\ k \in ks => h[k].content = Content(us[k], k)
  <2> DEFINE c == Content(us[k], k)
  <2>1. us[k] = [tier |-> us[k].tier, cost |-> us[k].cost, content |-> us[k].content]
    BY DEF IsUnit
  <2>2. [us[k] EXCEPT !.content = c] = [tier |-> us[k].tier, cost |-> us[k].cost, content |-> c]
    <3> HIDE DEF c
    <3> QED
      BY <2>1
  <2>3. h[k] = IF k \in ks THEN [us[k] EXCEPT !.content = c] ELSE us[k]
    BY <1>1
  <2> HIDE DEF c
  <2>4. CASE k \in ks
    <3>1. h[k] = [tier |-> us[k].tier, cost |-> us[k].cost, content |-> c]
      BY <2>2, <2>3, <2>4
    <3> QED
      BY <3>1, <2>4 DEF IsUnit, c
  <2>5. CASE k \notin ks
    BY <2>3, <2>5 DEF IsUnit
  <2> QED
    BY <2>4, <2>5
<1>3. DOMAIN h = DOMAIN us
  BY <1>1
<1> QED
  BY <1>2, <1>3 DEF h

LEMMA HydratedCosts ==
  ASSUME NEW us, NEW ks, \A k \in DOMAIN us : IsUnit(us[k])
  PROVE  Costs(Hydrated(us, ks)) = Costs(us)
<1> DEFINE h == Hydrated(us, ks)
<1>1. DOMAIN h = DOMAIN us /\ \A k \in DOMAIN us : h[k].cost = us[k].cost
  BY HydratedIs
<1> HIDE DEF h
<1>2. Costs(h) = Costs(us)
  BY <1>1 DEF Costs
<1> QED
  BY <1>2 DEF h

LEMMA HydratedRead ==
  ASSUME NEW us, NEW ks, \A k \in DOMAIN us : IsUnit(us[k]),
         \A k \in DOMAIN disk : disk[k].facts \in SUBSET Facts
  PROVE  \A k \in DOMAIN us \cap ks : Hydrated(us, ks)[k].content # Unread
<1>1. \A k \in DOMAIN us : Content(us[k], k) # Unread
  BY MemoryAssumption DEF Content
<1> QED
  BY <1>1, HydratedIs

(* Nobody forgets. *)
LEMMA KennedGrows ==
  \A d, us, notes, more : Kenned(d, us, notes) /\ Grow(notes, more) => Kenned(d, us, more)
<1> SUFFICES ASSUME NEW d, NEW us, NEW notes, NEW more, Kenned(d, us, notes), Grow(notes, more)
             PROVE  Kenned(d, us, more)
  OBVIOUS
<1>1. ASSUME NEW k \in Episodic(us)
      PROVE  /\ NoteOf(k) \in DOMAIN more
             /\ us[k].content \in {Unread, Unreadable} \/ us[k].content \subseteq more[NoteOf(k)]
  BY DEF Kenned, Grow
<1> QED
  BY <1>1 DEF Kenned

LEMMA DaysAreNat ==
  ASSUME NEW d, NEW files, NEW notes, Filed(d, files, notes), NEW k, NoteOf(k) \in DOMAIN notes
  PROVE  k.day \in Nat /\ d \in Nat
<1>1. NoteOf(k) \in Agendas \X Nat /\ d \in Nat
  BY DEF Filed
<1> QED
  BY <1>1 DEF NoteOf

LEMMA FiledLater == \A d, files, notes : Filed(d, files, notes) => Filed(d + 1, files, notes)
<1> SUFFICES ASSUME NEW d, NEW files, NEW notes, Filed(d, files, notes) PROVE Filed(d + 1, files, notes)
  OBVIOUS
<1>1. ASSUME NEW k \in DOMAIN files, k.folder = "archive"
      PROVE  k.day <= (d + 1) - RecentDays /\ Key("recent", k.day, k.who) \notin DOMAIN files
  <2>1. NoteOf(k) \in DOMAIN notes /\ k.day <= d - RecentDays
    BY <1>1 DEF Filed, IsEntry
  <2>2. k.day \in Nat /\ d \in Nat
    BY <2>1, DaysAreNat
  <2> QED
    BY <2>1, <2>2, <1>1, MemoryAssumption DEF Filed
<1> DEFINE n == d + 1
<1>2. n \in Nat
  BY DEF Filed
<1>3. \A k \in DOMAIN files : k.folder = "archive" =>
        k.day <= n - RecentDays /\ Key("recent", k.day, k.who) \notin DOMAIN files
  BY <1>1
<1> HIDE DEF n
<1>4. Filed(n, files, notes)
  BY <1>2, <1>3 DEF Filed
<1> QED
  BY <1>4 DEF n

LEMMA KennedLater ==
  ASSUME NEW d, NEW files, NEW notes, Filed(d, files, notes), NEW us, Kenned(d, us, notes)
  PROVE  Kenned(d + 1, us, notes)
<1>1. ASSUME NEW k \in DOMAIN us, k.folder = "archive"
      PROVE  k.day <= (d + 1) - RecentDays /\ Key("recent", k.day, k.who) \notin DOMAIN us
  <2>1. NoteOf(k) \in DOMAIN notes
    BY <1>1 DEF Kenned, Episodic
  <2>2. k.day \in Nat /\ d \in Nat
    BY <2>1, DaysAreNat
  <2>3. k.day <= d - RecentDays /\ Key("recent", k.day, k.who) \notin DOMAIN us
    BY <1>1 DEF Kenned
  <2> QED
    BY <2>2, <2>3, MemoryAssumption
<1> QED
  BY <1>1 DEF Kenned

(* The extractor's loader registers what it has written. *)
LEMMA WriteKenned ==
  ASSUME NEW d, NEW files, NEW notes, Filed(d, files, notes), NEW us, Kenned(d, us, notes),
         NEW s \in Agendas, NEW f, <<s, d>> \in DOMAIN notes, f.facts \subseteq notes[<<s, d>>]
  PROVE  LET k == Key("recent", d, s) IN
         Kenned(d, Overlaid(Only(k, [Unit(k, f) EXCEPT !.content = f.facts]), us), notes)
<1> DEFINE k == Key("recent", d, s)
           u == [Unit(k, f) EXCEPT !.content = f.facts]
           g == Overlaid(Only(k, u), us)
<1>1. IsKey(k) /\ NoteOf(k) = <<s, d>> /\ k.folder = "recent" /\ k.day = d /\ k.who = s
  BY DEF IsKey, NoteOf, Key
<1>2. u = [tier |-> TierOf(k, f), cost |-> f.cost, content |-> f.facts]
  <2> HIDE DEF k
  <2> QED
    BY DEF Unit
<1> HIDE DEF u
<1>3. IsUnit(u) /\ u.content = f.facts
  BY <1>2 DEF IsUnit
<1>4. DOMAIN g = DOMAIN us \cup {k} /\ g[k] = u /\ \A x \in DOMAIN us \ {k} : g[x] = us[x]
  <2> HIDE DEF k
  <2> QED
    BY DEF Overlaid, Only
<1> HIDE DEF g, k
<1>5. d \in Nat
  BY DEF Filed
<1>7. \A x \in DOMAIN g : IsKey(x) /\ IsUnit(g[x])
  BY <1>1, <1>3, <1>4 DEF Kenned
<1>8. ASSUME NEW x \in Episodic(g)
      PROVE  /\ NoteOf(x) \in DOMAIN notes
             /\ g[x].content \in {Unread, Unreadable} \/ g[x].content \subseteq notes[NoteOf(x)]
  <2>1. CASE x = k
    BY <2>1, <1>1, <1>3, <1>4
  <2>2. CASE x # k
    <3>1. x \in Episodic(us) /\ g[x] = us[x]
      BY <2>2, <1>4 DEF Episodic
    <3> QED
      BY <3>1 DEF Kenned
  <2> QED
    BY <2>1, <2>2
<1>9. ASSUME NEW x \in DOMAIN g, x.folder = "archive"
      PROVE  x.day <= d - RecentDays /\ Key("recent", x.day, x.who) \notin DOMAIN g
  <2>1. x \in DOMAIN us
    BY <1>1, <1>4, <1>9
  <2>2. x.day <= d - RecentDays /\ Key("recent", x.day, x.who) \notin DOMAIN us /\ NoteOf(x) \in DOMAIN notes
    BY <2>1, <1>9 DEF Kenned, Episodic
  <2>3. x.day \in Nat
    BY <2>2 DEF Filed, NoteOf
  <2>4. Key("recent", x.day, x.who) # k
    BY <2>2, <2>3, <1>5, MemoryAssumption DEF k, Key
  <2> QED
    BY <2>2, <2>4, <1>4
<1>10. Kenned(d, g, notes)
  BY <1>7, <1>8, <1>9 DEF Kenned
<1> QED
  BY <1>10 DEF g, u, k

(* It knows what it has moved, and what others have moved only as it was. *)
LEMMA MoveKenned ==
  ASSUME NEW d, NEW files, NEW notes, Filed(d, files, notes), NEW us, Kenned(d, us, notes),
         NEW ks \in SUBSET {x \in DOMAIN files : x.folder = "recent" /\ x.day <= d - RecentDays}
  PROVE  Kenned(d, MovedUnits(us, files, ks), notes)
<1> DEFINE g == MovedUnits(us, files, ks)
           as == {Archived(k) : k \in ks}
<1>1. \A k \in ks : k = Key("recent", k.day, k.who) /\ k \in DOMAIN files /\ k.day <= d - RecentDays
  BY DEF Filed, IsKey
<1>2. ASSUME NEW k \in ks
      PROVE  /\ Archived(k).folder = "archive" /\ Archived(k).day = k.day /\ Archived(k).who = k.who
             /\ IsKey(Archived(k)) /\ NoteOf(Archived(k)) = NoteOf(k) /\ NoteOf(k) \in DOMAIN notes
  <2>1. IsEntry(k) /\ k \in DOMAIN files
    BY DEF IsEntry
  <2>2. NoteOf(k) \in DOMAIN notes
    BY <2>1 DEF Filed
  <2> QED
    BY <2>2 DEF Archived, Key, IsKey, NoteOf
<1>3. /\ DOMAIN g = (DOMAIN us \ ks) \cup as
      /\ \A k \in (DOMAIN us \ ks) \ as : g[k] = us[k]
      /\ \A k \in ks : g[Archived(k)] = Unit(Archived(k), files[k])
  <2> DEFINE new == [a \in {Archived(k) : k \in ks} |-> Unit(a, files[Key("recent", a.day, a.who)])]
  <2>1. \A k \in ks : Archived(k).day = k.day /\ Archived(k).who = k.who
    BY DEF Archived, Key
  <2>2. \A k \in ks : new[Archived(k)] = Unit(Archived(k), files[k])
    BY <2>1, <1>1
  <2>3. DOMAIN new = {Archived(k) : k \in ks}
    OBVIOUS
  <2>4. g = Overlaid(new, Without(us, ks))
    BY DEF MovedUnits
  <2>5. DOMAIN Without(us, ks) = DOMAIN us \ ks /\ \A k \in DOMAIN us \ ks : Without(us, ks)[k] = us[k]
    BY WithoutIs
  <2> DEFINE old == Without(us, ks)
  <2> HIDE DEF old
  <2> HIDE DEF new
  <2>6. g = [x \in DOMAIN new \cup DOMAIN old |-> IF x \in DOMAIN new THEN new[x] ELSE old[x]]
    BY <2>4 DEF Overlaid, old
  <2>7. /\ DOMAIN g = (DOMAIN us \ ks) \cup {Archived(k) : k \in ks}
        /\ \A k \in (DOMAIN us \ ks) \ {Archived(x) : x \in ks} : g[k] = us[k]
    BY <2>3, <2>5, <2>6 DEF old
  <2>8. ASSUME NEW k \in ks PROVE g[Archived(k)] = Unit(Archived(k), files[k])
    <3>1. Archived(k) \in DOMAIN new
      BY <2>3
    <3> QED
      BY <3>1, <2>2, <2>6
  <2> QED
    BY <2>7, <2>8
<1> HIDE DEF g
<1>5. ASSUME NEW k \in ks, NEW u, u = Unit(Archived(k), files[k])
      PROVE  IsUnit(u) /\ u.content = Unread
  BY <1>5 DEF Unit, IsUnit
<1>6. ASSUME NEW x \in DOMAIN g
      PROVE  /\ IsKey(x) /\ IsUnit(g[x])
             /\ x \in Episodic(g) => /\ NoteOf(x) \in DOMAIN notes
                                     /\ \/ g[x].content \in {Unread, Unreadable}
                                        \/ g[x].content \subseteq notes[NoteOf(x)]
  <2>1. CASE x \in as
    <3>1. PICK k \in ks : x = Archived(k)
      BY <2>1
    <3>2. g[x] = Unit(Archived(k), files[k])
      BY <3>1, <1>3
    <3>3. IsUnit(g[x]) /\ g[x].content = Unread
      BY <3>2, <1>5
    <3> QED
      BY <3>1, <3>3, <1>2
  <2>2. CASE x \notin as
    <3>1. x \in DOMAIN us /\ g[x] = us[x]
      BY <2>2, <1>3
    <3>2. x \in Episodic(g) => x \in Episodic(us)
      BY <3>1 DEF Episodic
    <3> QED
      BY <3>1, <3>2 DEF Kenned
  <2> QED
    BY <2>1, <2>2
<1>7. ASSUME NEW x \in DOMAIN g, x.folder = "archive"
      PROVE  x.day <= d - RecentDays /\ Key("recent", x.day, x.who) \notin DOMAIN g
  <2>1. Key("recent", x.day, x.who) \notin as
    BY DEF Archived, Key
  <2>2. CASE x \in as
    <3>1. PICK k \in ks : x = Archived(k)
      BY <2>2
    <3>2. x.day <= d - RecentDays /\ Key("recent", x.day, x.who) = k
      BY <3>1, <1>1, <1>2
    <3> QED
      BY <3>2, <2>1, <1>3
  <2>3. CASE x \notin as
    <3>1. x \in DOMAIN us
      BY <2>3, <1>3
    <3>2. x.day <= d - RecentDays /\ Key("recent", x.day, x.who) \notin DOMAIN us
      BY <3>1, <1>7 DEF Kenned
    <3> QED
      BY <3>2, <2>1, <1>3
  <2> QED
    BY <2>2, <2>3
<1>8. \A x \in Episodic(g) : x \in DOMAIN g
  BY DEF Episodic
<1>9. Kenned(d, g, notes)
  BY <1>6, <1>7, <1>8 DEF Kenned
<1> QED
  BY <1>9 DEF g

(* Sessions note more about a fact, never less. *)
LEMMA NotingGrows ==
  ASSUME NEW notes, NEW more, Grow(notes, more), IsFiniteSet(DOMAIN more)
  PROVE  \A f : Cardinality(Noting(f, notes)) >= 3 => Cardinality(Noting(f, more)) >= 3
<1> SUFFICES ASSUME NEW f, Cardinality(Noting(f, notes)) >= 3 PROVE Cardinality(Noting(f, more)) >= 3
  OBVIOUS
<1> DEFINE new == {x \in DOMAIN more : f \in more[x]}
           whose == [x \in new |-> x[1]]
<1>1. IsFiniteSet(new)
  BY FS_Subset
<1>2. whose \in Surjection(new, Noting(f, more))
  BY DEF Surjection, Noting
<1>3. IsFiniteSet(Noting(f, more))
  <2> HIDE DEF whose, new
  <2> QED
    BY <1>1, <1>2, FS_Surjection
<1>4. Noting(f, notes) \in SUBSET Noting(f, more)
  BY DEF Noting, Grow
<1>5. Cardinality(Noting(f, notes)) <= Cardinality(Noting(f, more)) /\ IsFiniteSet(Noting(f, notes))
  BY <1>3, <1>4, FS_Subset
<1>6. Cardinality(Noting(f, notes)) \in Nat /\ Cardinality(Noting(f, more)) \in Nat
  BY <1>3, <1>5, FS_CardinalityType
<1> QED
  BY <1>5, <1>6

(* A session notes facts on one day. *)
OneDay(notes) ==
  \A d, e \in DOMAIN notes : d[1] = e[1] /\ notes[d] # {} /\ notes[e] # {} => d = e

(* What recurs in the entries that were read was noted by as many sessions. *)
LEMMA RecurringNoted ==
  ASSUME NEW d, NEW us, NEW notes, Kenned(d, us, notes), OneDay(notes), IsFiniteSet(DOMAIN notes),
         NEW ks \in SUBSET Episodic(us), \A k \in ks : us[k].content # Unread,
         NEW f, Recurs(us, ks, f, 3)
  PROVE  Cardinality(Noting(f, notes)) >= 3
<1> DEFINE S == {k \in ks : f \in FactsIn(us, k)}
           T == Noting(f, notes)
           whose == [k \in S |-> k.who]
<1>1. ASSUME NEW k \in S PROVE NoteOf(k) \in DOMAIN notes /\ f \in notes[NoteOf(k)] /\ IsKey(k) /\ IsEntry(k)
  <2>1. k \in Episodic(us) /\ us[k].content # Unread /\ us[k].content # Unreadable /\ f \in us[k].content
    BY DEF FactsIn
  <2>2. IsKey(k) /\ IsEntry(k)
    BY <2>1 DEF Episodic, Kenned, IsEntry
  <2>3. NoteOf(k) \in DOMAIN notes /\ us[k].content \subseteq notes[NoteOf(k)]
    BY <2>1 DEF Kenned
  <2> QED
    BY <2>1, <2>2, <2>3
<1>2. ASSUME NEW j \in S, NEW k \in S, j.who = k.who PROVE j = k
  <2>1. NoteOf(j) = NoteOf(k)
    <3>1. /\ NoteOf(j) \in DOMAIN notes /\ notes[NoteOf(j)] # {} /\ NoteOf(j)[1] = j.who
          /\ NoteOf(k) \in DOMAIN notes /\ notes[NoteOf(k)] # {} /\ NoteOf(k)[1] = k.who
      BY <1>1 DEF NoteOf
    <3> QED
      BY <3>1, <1>2 DEF OneDay
  <2>2. j.day = k.day /\ j.who = k.who
    BY <2>1 DEF NoteOf
  <2>3. j.folder = k.folder
    <3>1. j \in Episodic(us) /\ k \in Episodic(us) /\ j \in DOMAIN us /\ k \in DOMAIN us
      BY DEF Episodic
    <3>2. CASE j.folder = "archive" /\ k.folder = "recent"
      BY <3>1, <3>2, <2>2, <1>1 DEF Kenned, IsKey
    <3>3. CASE k.folder = "archive" /\ j.folder = "recent"
      BY <3>1, <3>3, <2>2, <1>1 DEF Kenned, IsKey
    <3> QED
      BY <3>2, <3>3, <1>1 DEF IsEntry
  <2>4. j = Key(j.folder, j.day, j.who) /\ k = Key(k.folder, k.day, k.who)
    BY <1>1 DEF IsKey
  <2> QED
    BY <2>2, <2>3, <2>4
<1>3. ASSUME NEW k \in S PROVE k.who \in T
  <2>1. NoteOf(k) \in {x \in DOMAIN notes : f \in notes[x]} /\ NoteOf(k)[1] = k.who
    BY <1>1 DEF NoteOf
  <2> QED
    BY <2>1 DEF Noting
<1>4. Cardinality(S) >= 3
  BY DEF Recurs
<1>5. IsFiniteSet(T)
  <2> DEFINE new == {x \in DOMAIN notes : f \in notes[x]}
             first == [x \in new |-> x[1]]
  <2>1. IsFiniteSet(new)
    BY FS_Subset
  <2>2. first \in Surjection(new, T)
    BY DEF Surjection, Noting
  <2> HIDE DEF new, first, T
  <2> QED
    BY <2>1, <2>2, FS_Surjection
<1> HIDE DEF S, T
<1>6. whose \in Injection(S, T)
  BY <1>2, <1>3 DEF Injection, IsInjective
<1>7. Cardinality(S) <= Cardinality(T) /\ IsFiniteSet(S)
  BY <1>5, <1>6, FS_Injection
<1>8. Cardinality(S) \in Nat /\ Cardinality(T) \in Nat
  BY <1>5, <1>7, FS_CardinalityType
<1> QED
  BY <1>4, <1>7, <1>8 DEF T

-----------------------------------------------------------------------------
(* The states of the memory.                                               *)
Phases == {"new", "running", "extracting", "consolidating", "organizing", "resetting", "over"}

SessionsTyped ==
  /\ phase \in [Agendas -> Phases] /\ asked \in [Agendas -> SUBSET Facts]
  /\ DOMAIN units = Loaders /\ DOMAIN loaded = Loaders

(* A session notes its log when it ends, and then facts.                    *)
NotesInOrder ==
  /\ \A e \in DOMAIN noted : /\ phase[e[1]] \notin {"new", "running"}
                             /\ phase[e[1]] = "extracting" => noted[e] = {}
  /\ OneDay(noted)

PromotedInv ==
  /\ \A k \in Topics(disk) : Cardinality(Noting(k.who, noted)) >= 3
  /\ \A s \in Agendas : \A f \in asked[s] : Cardinality(Noting(f, noted)) >= 3

RecallOf(us, ks) ==
  /\ \A k \in DOMAIN us : IsUnit(us[k])
  /\ ks \subseteq DOMAIN us
  /\ \A t \in 0..2 : CostOf(us, {k \in ks : us[k].tier = t}) <= Budgets[t]
  /\ \A k \in ks : us[k].content # Unread

RecallInv == \A s \in Agendas : phase[s] = "running" => RecallOf(units[s], loaded[s])

MemoryInv ==
  /\ SessionsTyped /\ NotesInOrder /\ PromotedInv /\ RecallInv
  /\ Filed(day, disk, noted) /\ Kenned(day, units["extractor"], noted)

LEMMA MemoryInitially == MemoryInit => MemoryInv
<1> SUFFICES ASSUME MemoryInit PROVE MemoryInv
  OBVIOUS
<1>1. SessionsTyped
  BY DEF MemoryInit, SessionsTyped, Phases
<1>2. DOMAIN noted = {}
  BY DEF MemoryInit, Empty
<1>3. NotesInOrder
  BY <1>2 DEF NotesInOrder, OneDay
<1>4. DOMAIN disk = Notes /\ \A n \in Notes : disk[n] = NoteFile[n]
  BY DEF MemoryInit
<1>5. \A n \in Notes : IsKey(n) /\ ~IsEntry(n) /\ n.folder \notin {"archive", "semantic"} /\ NoteFile[n].facts \in SUBSET Facts
  BY MemoryAssumption DEF IsKey, IsEntry, Key
<1>6. PromotedInv
  BY <1>4, <1>5 DEF PromotedInv, Topics, MemoryInit
<1>7. RecallInv
  BY DEF RecallInv, MemoryInit
<1>8. Filed(day, disk, noted)
  BY <1>2, <1>4, <1>5, FS_EmptySet DEF Filed, MemoryInit
<1>9. Kenned(day, units["extractor"], noted)
  <2>1. units["extractor"] = [k \in Notes |-> Unit(k, disk[k])]
    BY <1>4 DEF MemoryInit, Loaders, Scanned
  <2> DEFINE us == units["extractor"]
  <2>2. DOMAIN us = Notes /\ \A k \in Notes : us[k] = Unit(k, disk[k])
    BY <2>1
  <2> HIDE DEF us
  <2>3. \A k \in Notes : IsUnit(us[k])
    BY <2>2 DEF Unit, IsUnit
  <2>4. Episodic(us) = {}
    BY <2>2, <1>5 DEF Episodic, IsEntry
  <2>5. Kenned(day, us, noted)
    BY <2>2, <2>3, <2>4, <1>5, MemoryAssumption DEF Kenned
  <2> QED
    BY <2>5 DEF us
<1> QED
  BY <1>1, <1>3, <1>6, <1>7, <1>8, <1>9 DEF MemoryInv

(* What persistEpisodic does, for a session that has noted no facts so far. *)
LEMMA PersistStep ==
  ASSUME MemoryInv, NEW s \in Agendas, NEW l \in {s, "extractor"}, NEW f, f.facts \in SUBSET Facts,
         \A e \in DOMAIN noted : e[1] = s => noted[e] = {},
         PersistsEpisodic(l, s, f)
  PROVE  /\ Filed(day, disk', noted') /\ Kenned(day, units["extractor"]', noted')
         /\ Grow(noted, noted') /\ Topics(disk') \subseteq Topics(disk)
         /\ \A e \in DOMAIN noted' : \/ e \in DOMAIN noted /\ noted'[e] = noted[e]
                                     \/ e = <<s, day>> /\ noted'[e] = f.facts
         /\ DOMAIN units' = Loaders /\ DOMAIN loaded' = Loaders
         /\ \A a \in Agendas \ {s} : units'[a] = units[a] /\ loaded'[a] = loaded[a]
<1> DEFINE k == Key("recent", day, s)
           file2 == Overlaid(Only(k, f), disk)
           note2 == Overlaid(Only(<<s, day>>, f.facts), noted)
           us2 == Overlaid(Only(k, [Unit(k, f) EXCEPT !.content = f.facts]), units[l])
<1>1. PICK written \in BOOLEAN :
        \E ks \in SUBSET {x \in DOMAIN (IF written THEN file2 ELSE disk) : Compactable(x)} :
          /\ disk' = Moved(IF written THEN file2 ELSE disk, ks)
          /\ \/ l = s /\ Discarded(s)
             \/ /\ l # s /\ UNCHANGED loaded
                /\ units' = [units EXCEPT ![l] =
                     MovedUnits(IF written THEN us2 ELSE units[l], IF written THEN file2 ELSE disk, ks)]
          /\ noted' = IF written THEN note2 ELSE noted
  BY DEF PersistsEpisodic
<1> DEFINE files == IF written THEN file2 ELSE disk
           us == IF written THEN us2 ELSE units[l]
           more == IF written THEN note2 ELSE noted
<1>2. PICK ks \in SUBSET {x \in DOMAIN files : Compactable(x)} :
        /\ disk' = Moved(files, ks)
        /\ \/ l = s /\ Discarded(s)
           \/ l # s /\ UNCHANGED loaded /\ units' = [units EXCEPT ![l] = MovedUnits(us, files, ks)]
        /\ noted' = more
  BY <1>1
<1>3. ks \in SUBSET {x \in DOMAIN files : x.folder = "recent" /\ x.day <= day - RecentDays}
  BY DEF Compactable, Old
<1>4. DOMAIN note2 = DOMAIN noted \cup {<<s, day>>} /\ note2[<<s, day>>] = f.facts
      /\ \A e \in DOMAIN noted \ {<<s, day>>} : note2[e] = noted[e]
  BY DEF Overlaid, Only
<1> HIDE DEF note2, file2, us2
<1>5. Filed(day, files, more) /\ Topics(files) \subseteq Topics(disk)
  <2>1. Filed(day, file2, note2) /\ Topics(file2) \subseteq Topics(disk)
    BY WriteFiled DEF MemoryInv, file2, note2, k
  <2> QED
    BY <2>1 DEF MemoryInv
<1>6. Grow(noted, more)
  BY <1>4 DEF Grow
<1>7. \A e \in DOMAIN more : \/ e \in DOMAIN noted /\ more[e] = noted[e]
                             \/ e = <<s, day>> /\ more[e] = f.facts
  BY <1>4
<1>8. Kenned(day, units["extractor"], more)
  BY <1>6, KennedGrows DEF MemoryInv
<1>9. l = "extractor" => Kenned(day, us, more)
  <2>1. SUFFICES ASSUME l = "extractor", written PROVE Kenned(day, us2, more)
    BY <1>8
  <2>2. <<s, day>> \in DOMAIN more /\ f.facts \subseteq more[<<s, day>>]
    BY <1>4, <2>1
  <2>3. Kenned(day, units[l], more)
    BY <1>8, <2>1
  <2> HIDE DEF files, more
  <2> QED
    BY <2>2, <2>3, <1>5, WriteKenned DEF us2, k
<1> HIDE DEF files, more, us
<1>10. Filed(day, disk', noted') /\ Topics(disk') \subseteq Topics(disk)
  BY <1>2, <1>3, <1>5, MoveFiled
<1>11. s # "extractor" /\ s \in Loaders /\ "extractor" \in Loaders
  BY MemoryAssumption DEF Loaders
<1>12. DOMAIN units = Loaders /\ DOMAIN loaded = Loaders
  BY DEF MemoryInv, SessionsTyped
<1>13. CASE l = s
  <2>1. units' = [units EXCEPT ![s] = Empty] /\ loaded' = [loaded EXCEPT ![s] = {}]
    BY <1>2, <1>13 DEF Discarded
  <2>2. units'["extractor"] = units["extractor"] /\ DOMAIN units' = Loaders /\ DOMAIN loaded' = Loaders
        /\ \A a \in Agendas \ {s} : units'[a] = units[a] /\ loaded'[a] = loaded[a]
    BY <2>1, <1>11, <1>12 DEF Loaders
  <2> QED
    BY <2>2, <1>2, <1>6, <1>7, <1>8, <1>10
<1>14. CASE l # s
  <2>1. l = "extractor" /\ UNCHANGED loaded /\ units' = [units EXCEPT !["extractor"] = MovedUnits(us, files, ks)]
    BY <1>2, <1>14
  <2>2. Kenned(day, MovedUnits(us, files, ks), more)
    BY <1>3, <1>5, <1>9, <2>1, MoveKenned
  <2>3. units'["extractor"] = MovedUnits(us, files, ks) /\ DOMAIN units' = Loaders
        /\ \A a \in Agendas \ {s} : units'[a] = units[a]
    BY <2>1, <1>11, <1>12, MemoryAssumption DEF Loaders
  <2> QED
    BY <2>1, <2>2, <2>3, <1>2, <1>6, <1>7, <1>10, <1>12
<1> QED
  BY <1>13, <1>14

(* The same, as seen from the promises above. *)
LEMMA PersistKeeps ==
  ASSUME MemoryInv, NEW s \in Agendas, NEW l \in {s, "extractor"}, NEW f, f.facts \in SUBSET Facts,
         \A e \in DOMAIN noted : e[1] = s => noted[e] = {},
         PersistsEpisodic(l, s, f), UNCHANGED <<day, asked>>,
         NEW to \in Phases \ {"new", "running"}, phase' = [phase EXCEPT ![s] = to],
         to = "extracting" => f.facts = {}
  PROVE  MemoryInv'
<1>1. /\ Filed(day, disk', noted') /\ Kenned(day, units["extractor"]', noted')
      /\ Grow(noted, noted') /\ Topics(disk') \subseteq Topics(disk)
      /\ \A e \in DOMAIN noted' : \/ e \in DOMAIN noted /\ noted'[e] = noted[e]
                                  \/ e = <<s, day>> /\ noted'[e] = f.facts
      /\ DOMAIN units' = Loaders /\ DOMAIN loaded' = Loaders
      /\ \A a \in Agendas \ {s} : units'[a] = units[a] /\ loaded'[a] = loaded[a]
  BY PersistStep
<1>2. phase \in [Agendas -> Phases] /\ asked \in [Agendas -> SUBSET Facts]
  BY DEF MemoryInv, SessionsTyped
<1>3. SessionsTyped'
  BY <1>1, <1>2 DEF SessionsTyped
<1>4. phase'[s] = to /\ \A a \in Agendas \ {s} : phase'[a] = phase[a]
  BY <1>2
<1>5. IsFiniteSet(DOMAIN noted') /\ \A e \in DOMAIN noted' : e[1] \in Agendas
  BY <1>1 DEF Filed
<1>6. ASSUME NEW e \in DOMAIN noted'
      PROVE  /\ phase'[e[1]] \notin {"new", "running"}
             /\ phase'[e[1]] = "extracting" => noted'[e] = {}
  <2>1. CASE e[1] = s
    <3>1. to = "extracting" => noted'[e] = {}
      BY <1>1, <2>1
    <3> QED
      BY <3>1, <2>1, <1>4
  <2>2. CASE e[1] # s
    <3>1. e \in DOMAIN noted /\ noted'[e] = noted[e]
      BY <1>1, <2>2
    <3> QED
      BY <3>1, <2>2, <1>4, <1>5 DEF MemoryInv, NotesInOrder
  <2> QED
    BY <2>1, <2>2
<1>7. ASSUME NEW d \in DOMAIN noted', NEW e \in DOMAIN noted', d[1] = e[1], noted'[d] # {}, noted'[e] # {}
      PROVE  d = e
  <2>1. CASE d[1] = s
    <3>1. d = <<s, day>> /\ e = <<s, day>>
      BY <1>1, <1>7, <2>1
    <3> QED
      BY <3>1
  <2>2. CASE d[1] # s
    <3>1. /\ d \in DOMAIN noted /\ noted[d] # {}
          /\ e \in DOMAIN noted /\ noted[e] # {}
      BY <1>1, <1>7, <2>2
    <3> QED
      BY <3>1, <1>7 DEF MemoryInv, NotesInOrder, OneDay
  <2> QED
    BY <2>1, <2>2
<1>8. NotesInOrder'
  BY <1>6, <1>7 DEF NotesInOrder, OneDay
<1>9. PromotedInv'
  <2>1. \A f2 : Cardinality(Noting(f2, noted)) >= 3 => Cardinality(Noting(f2, noted')) >= 3
    BY <1>1, <1>5, NotingGrows
  <2>2. \A k \in Topics(disk') : Cardinality(Noting(k.who, noted')) >= 3
    BY <1>1, <2>1 DEF MemoryInv, PromotedInv
  <2>3. \A a \in Agendas : \A f2 \in asked'[a] : Cardinality(Noting(f2, noted')) >= 3
    BY <2>1 DEF MemoryInv, PromotedInv
  <2> QED
    BY <2>2, <2>3 DEF PromotedInv
<1>10. RecallInv'
  <2>1. ASSUME NEW a \in Agendas, phase'[a] = "running" PROVE RecallOf(units'[a], loaded'[a])
    <3>1. a # s /\ phase[a] = "running"
      BY <1>4, <2>1
    <3> QED
      BY <3>1, <1>1 DEF MemoryInv, RecallInv
  <2> QED
    BY <2>1 DEF RecallInv
<1>11. day' = day
  OBVIOUS
<1> QED
  BY <1>1, <1>3, <1>8, <1>9, <1>10, <1>11 DEF MemoryInv

(* A session goes on with its own loader. *)
LEMMA LoaderStep ==
  ASSUME MemoryInv, NEW s \in Agendas, phase[s] \in {"new", "running"},
         phase' = [phase EXCEPT ![s] = "running"], UNCHANGED <<day, disk, asked, noted>>,
         DOMAIN units' = Loaders, DOMAIN loaded' = Loaders,
         \A l \in Loaders \ {s} : units'[l] = units[l] /\ loaded'[l] = loaded[l],
         RecallOf(units'[s], loaded'[s])
  PROVE  MemoryInv'
<1>1. phase \in [Agendas -> Phases] /\ asked \in [Agendas -> SUBSET Facts]
  BY DEF MemoryInv, SessionsTyped
<1>2. phase'[s] = "running" /\ \A a \in Agendas \ {s} : phase'[a] = phase[a]
  BY <1>1
<1>3. SessionsTyped'
  BY <1>1 DEF SessionsTyped, Phases
<1>4. NotesInOrder'
  <2>1. \A e \in DOMAIN noted : e[1] \in Agendas /\ e[1] # s
    BY DEF MemoryInv, Filed, NotesInOrder
  <2> QED
    BY <2>1, <1>2 DEF MemoryInv, NotesInOrder, OneDay
<1>5. PromotedInv'
  BY DEF MemoryInv, PromotedInv, Topics, Noting
<1>6. RecallInv'
  <2>1. ASSUME NEW a \in Agendas, phase'[a] = "running" PROVE RecallOf(units'[a], loaded'[a])
    <3>1. CASE a # s
      <4>1. phase[a] = "running" /\ units'[a] = units[a] /\ loaded'[a] = loaded[a]
        BY <1>2, <2>1, <3>1 DEF Loaders
      <4> QED
        BY <4>1 DEF MemoryInv, RecallInv
    <3> QED
      BY <3>1
  <2> QED
    BY <2>1 DEF RecallInv
<1>7. units'["extractor"] = units["extractor"]
  BY MemoryAssumption DEF Loaders
<1>8. Filed(day, disk, noted)' /\ Kenned(day, units["extractor"], noted)'
  BY <1>7 DEF MemoryInv, Filed, Kenned, Episodic
<1> QED
  BY <1>3, <1>4, <1>5, <1>6, <1>8 DEF MemoryInv

(* Nothing costs nothing. *)
LEMMA TotalOfNone == \A costs : Tokens(costs, {}) = 0
<1> SUFFICES ASSUME NEW costs PROVE Tokens(costs, {}) = 0
  OBVIOUS
<1>1. Total(costs, {}) = 0
  BY TotalPicks, FS_EmptySet
<1>2. Tokens(costs, {}) = Total(costs, {})
  BY DEF Tokens, Total
<1> QED
  BY <1>1, <1>2

(* What is loaded first fits the tiers' budgets. *)
LEMMA BeginStep == ASSUME MemoryInv, NEW s \in Agendas, Begins(s) PROVE MemoryInv'
<1> DEFINE us == Scanned(disk)
<1>1. /\ phase[s] = "new" /\ phase' = [phase EXCEPT ![s] = "running"]
      /\ UNCHANGED <<day, disk, asked, queries, noted>>
  BY DEF Begins, Moves
<1>2. PICK ks0 \in Selections(us, OfTier(us, 0), Budgets[0]), ks1 \in Selections(us, OfTier(us, 1), Budgets[1]),
           ks2 \in Relevant(us, OfTier(us, 2), Budgets[2]) :
        \E ks \in {{}, ks0 \cup ks1 \cup ks2} :
          /\ units' = [units EXCEPT ![s] = Hydrated(us, ks)]
          /\ loaded' = [loaded EXCEPT ![s] = ks]
  BY DEF Begins
<1>3. PICK ks \in {{}, ks0 \cup ks1 \cup ks2} :
        /\ units' = [units EXCEPT ![s] = Hydrated(us, ks)]
        /\ loaded' = [loaded EXCEPT ![s] = ks]
  BY <1>2
<1>4. \A k \in DOMAIN us : IsUnit(us[k])
  BY DEF Scanned, Unit, IsUnit
<1>5. /\ ks0 \subseteq OfTier(us, 0) /\ ks1 \subseteq OfTier(us, 1) /\ ks2 \subseteq OfTier(us, 2)
      /\ CostOf(us, ks0) <= Budgets[0] /\ CostOf(us, ks1) <= Budgets[1] /\ CostOf(us, ks2) <= Budgets[2]
  BY DEF Selections, Relevant
<1> DEFINE h == Hydrated(us, ks)
<1> HIDE DEF us
<1>6. DOMAIN h = DOMAIN us /\ \A k \in DOMAIN us : IsUnit(h[k]) /\ h[k].tier = us[k].tier
  BY <1>4, HydratedIs
<1>7. \A k \in DOMAIN us \cap ks : h[k].content # Unread
  BY <1>4, HydratedRead DEF MemoryInv, Filed
<1>8. \A ts : CostOf(h, ts) = CostOf(us, ts)
  BY <1>4, HydratedCosts DEF CostOf
<1> HIDE DEF h
<1>9. ks \subseteq DOMAIN us
  BY <1>5 DEF OfTier
<1>10. ASSUME NEW t \in 0..2 PROVE CostOf(h, {k \in ks : h[k].tier = t}) <= Budgets[t]
  <2>1. CASE ks = {}
    <3>1. {k \in ks : h[k].tier = t} = {}
      BY <2>1
    <3>2. CostOf(h, {}) = 0
      BY TotalOfNone DEF CostOf
    <3>3. CostOf(h, {k \in ks : h[k].tier = t}) = 0
      BY <3>1, <3>2
    <3>4. Budgets[t] \in Nat
      BY MemoryAssumption
    <3> QED
      BY <3>3, <3>4
  <2>2. CASE ks = ks0 \cup ks1 \cup ks2
    <3>1. {k \in ks : h[k].tier = 0} = ks0
      BY <2>2, <1>5, <1>6 DEF OfTier
    <3>2. {k \in ks : h[k].tier = 1} = ks1
      BY <2>2, <1>5, <1>6 DEF OfTier
    <3>3. {k \in ks : h[k].tier = 2} = ks2
      BY <2>2, <1>5, <1>6 DEF OfTier
    <3>4. CASE t = 0
      BY <3>1, <3>4, <1>5, <1>8
    <3>5. CASE t = 1
      BY <3>2, <3>5, <1>5, <1>8
    <3>6. CASE t = 2
      BY <3>3, <3>6, <1>5, <1>8
    <3> QED
      BY <3>4, <3>5, <3>6
  <2> QED
    BY <2>1, <2>2
<1>11. RecallOf(h, ks)
  BY <1>6, <1>7, <1>9, <1>10 DEF RecallOf
<1>12. s \in Loaders /\ s # "extractor" /\ DOMAIN units = Loaders /\ DOMAIN loaded = Loaders
  BY MemoryAssumption DEF Loaders, MemoryInv, SessionsTyped
<1>13. /\ units'[s] = h /\ loaded'[s] = ks /\ DOMAIN units' = Loaders /\ DOMAIN loaded' = Loaders
       /\ \A l \in Loaders \ {s} : units'[l] = units[l] /\ loaded'[l] = loaded[l]
  BY <1>3, <1>12 DEF h
<1> QED
  BY <1>1, <1>11, <1>12, <1>13, LoaderStep

LEMMA QueryStep == ASSUME MemoryInv, NEW s \in Agendas, Queries(s) PROVE MemoryInv'
<1> DEFINE us == units[s]
<1>1. phase[s] = "running" /\ UNCHANGED <<day, disk, phase, asked, noted>>
  BY DEF Queries
<1>2. PICK ks \in Relevant(us, OfTier(us, 3) \ loaded[s], Budgets[3]) :
        /\ units' = [units EXCEPT ![s] = Hydrated(us, ks)]
        /\ loaded' = [loaded EXCEPT ![s] = loaded[s] \cup ks]
  BY DEF Queries
<1>3. RecallOf(us, loaded[s])
  BY <1>1 DEF MemoryInv, RecallInv
<1>4. \A k \in DOMAIN us : IsUnit(us[k])
  BY <1>3 DEF RecallOf
<1>5. ks \subseteq OfTier(us, 3)
  BY DEF Relevant
<1> DEFINE h == Hydrated(us, ks)
           more == loaded[s] \cup ks
<1> HIDE DEF us
<1>6. DOMAIN h = DOMAIN us
      /\ \A k \in DOMAIN us : IsUnit(h[k]) /\ h[k].tier = us[k].tier /\ (k \notin ks => h[k] = us[k])
  BY <1>4, HydratedIs
<1>7. \A k \in DOMAIN us \cap ks : h[k].content # Unread
  BY <1>4, HydratedRead DEF MemoryInv, Filed
<1>8. \A ts : CostOf(h, ts) = CostOf(us, ts)
  BY <1>4, HydratedCosts DEF CostOf
<1> HIDE DEF h
<1>9. more \subseteq DOMAIN us
  BY <1>3, <1>5 DEF OfTier, RecallOf
<1>10. ASSUME NEW t \in 0..2 PROVE CostOf(h, {k \in more : h[k].tier = t}) <= Budgets[t]
  <2>1. \A k \in ks : us[k].tier = 3
    BY <1>5 DEF OfTier
  <2>2. {k \in more : h[k].tier = t} = {k \in loaded[s] : us[k].tier = t}
    BY <2>1, <1>6, <1>9
  <2> QED
    BY <2>2, <1>3, <1>8 DEF RecallOf
<1>11. ASSUME NEW k \in more PROVE h[k].content # Unread
  <2>1. CASE k \in ks
    BY <2>1, <1>7, <1>9
  <2>2. CASE k \notin ks
    BY <2>2, <1>3, <1>6, <1>9 DEF RecallOf
  <2> QED
    BY <2>1, <2>2
<1>12. RecallOf(h, more)
  BY <1>6, <1>9, <1>10, <1>11 DEF RecallOf
<1>13. s \in Loaders /\ DOMAIN units = Loaders /\ DOMAIN loaded = Loaders
  BY DEF Loaders, MemoryInv, SessionsTyped
<1>14. /\ units'[s] = h /\ loaded'[s] = more /\ DOMAIN units' = Loaders /\ DOMAIN loaded' = Loaders
       /\ \A l \in Loaders \ {s} : units'[l] = units[l] /\ loaded'[l] = loaded[l]
  BY <1>2, <1>13 DEF h
<1>15. phase' = [phase EXCEPT ![s] = "running"]
  BY <1>1 DEF MemoryInv, SessionsTyped
<1> QED
  BY <1>1, <1>12, <1>14, <1>15, LoaderStep

(* Steps that write no notes and leave the loaders of sessions alone. *)
LEMMA ExtractorStep ==
  ASSUME MemoryInv, NEW s \in Agendas, phase[s] \notin {"new", "running"},
         NEW to \in Phases \ {"new", "running", "extracting"}, phase' = [phase EXCEPT ![s] = to],
         UNCHANGED <<day, loaded, noted>>,
         asked' \in [Agendas -> SUBSET Facts], \A a \in Agendas \ {s} : asked'[a] = asked[a],
         \A f \in asked'[s] : Cardinality(Noting(f, noted)) >= 3,
         DOMAIN units' = Loaders, \A a \in Agendas : units'[a] = units[a],
         Filed(day, disk', noted), Kenned(day, units'["extractor"], noted),
         \A k \in Topics(disk') : Cardinality(Noting(k.who, noted)) >= 3
  PROVE  MemoryInv'
<1>1. phase \in [Agendas -> Phases] /\ DOMAIN loaded = Loaders
  BY DEF MemoryInv, SessionsTyped
<1>2. phase'[s] = to /\ \A a \in Agendas \ {s} : phase'[a] = phase[a]
  BY <1>1
<1>3. SessionsTyped'
  BY <1>1 DEF SessionsTyped
<1>4. NotesInOrder'
  <2>1. ASSUME NEW e \in DOMAIN noted
        PROVE  /\ phase'[e[1]] \notin {"new", "running"}
               /\ phase'[e[1]] = "extracting" => noted[e] = {}
    <3>1. e[1] \in Agendas
      BY DEF MemoryInv, Filed
    <3> QED
      BY <3>1, <1>2 DEF MemoryInv, NotesInOrder
  <2> QED
    BY <2>1 DEF MemoryInv, NotesInOrder, OneDay
<1>5. PromotedInv'
  <2>1. ASSUME NEW a \in Agendas, NEW f \in asked'[a] PROVE Cardinality(Noting(f, noted)) >= 3
    BY <2>1 DEF MemoryInv, PromotedInv
  <2>2. \A k \in Topics(disk') : Cardinality(Noting(k.who, noted)) >= 3
    OBVIOUS
  <2>3. \A f : Noting(f, noted') = Noting(f, noted)
    BY DEF Noting
  <2> QED
    BY <2>1, <2>2, <2>3 DEF PromotedInv
<1>6. RecallInv'
  <2>1. ASSUME NEW a \in Agendas, phase'[a] = "running" PROVE RecallOf(units'[a], loaded'[a])
    <3>1. phase[a] = "running"
      BY <1>2, <2>1
    <3> QED
      BY <3>1 DEF MemoryInv, RecallInv
  <2> QED
    BY <2>1 DEF RecallInv
<1>7. day' = day /\ noted' = noted
  OBVIOUS
<1> QED
  BY <1>3, <1>4, <1>5, <1>6, <1>7 DEF MemoryInv

LEMMA ConsolidateStep == ASSUME MemoryInv, NEW s \in Agendas, Consolidates(s) PROVE MemoryInv'
<1> DEFINE us == units["extractor"]
<1>1. phase[s] = "consolidating" /\ UNCHANGED <<day, disk, loaded, queries, noted>>
  BY DEF Consolidates
<1>2. PICK ks \in Selections(us, Episodic(us), AllOfType) :
        LET read == Hydrated(us, ks)
            recurring == IF Cardinality(ks) < 3 THEN {} ELSE Promotable(read, ks) IN
        /\ units' = [units EXCEPT !["extractor"] = read]
        /\ asked' = [asked EXCEPT ![s] = recurring]
        /\ phase' = [phase EXCEPT ![s] = IF recurring = {} THEN "resetting" ELSE "organizing"]
  BY DEF Consolidates
<1> DEFINE read == Hydrated(us, ks)
           recurring == IF Cardinality(ks) < 3 THEN {} ELSE Promotable(read, ks)
<1>3. /\ units' = [units EXCEPT !["extractor"] = read]
      /\ asked' = [asked EXCEPT ![s] = recurring]
      /\ phase' = [phase EXCEPT ![s] = IF recurring = {} THEN "resetting" ELSE "organizing"]
  BY <1>2
<1>4. Kenned(day, us, noted) /\ Filed(day, disk, noted) /\ OneDay(noted)
  BY DEF MemoryInv, NotesInOrder
<1> HIDE DEF us
<1>5. ks \subseteq Episodic(us)
  BY DEF Selections
<1>6. \A k \in DOMAIN us : IsUnit(us[k])
  BY <1>4 DEF Kenned
<1>7. DOMAIN read = DOMAIN us
      /\ \A k \in DOMAIN us : /\ IsUnit(read[k])
                              /\ k \notin ks => read[k] = us[k]
                              /\ k \in ks => read[k].content = Content(us[k], k)
  BY <1>6, HydratedIs
<1>8. \A k \in DOMAIN us \cap ks : read[k].content # Unread
  BY <1>4, <1>6, HydratedRead DEF Filed
<1> HIDE DEF read, recurring
<1>9. Episodic(read) = Episodic(us)
  BY <1>7 DEF Episodic
<1>10. ASSUME NEW k \in Episodic(us)
       PROVE  \/ read[k].content \in {Unread, Unreadable}
              \/ read[k].content \subseteq noted[NoteOf(k)]
  <2>1. k \in DOMAIN us /\ IsEntry(k)
    BY DEF Episodic, IsEntry
  <2>2. \/ us[k].content \in {Unread, Unreadable}
        \/ us[k].content \subseteq noted[NoteOf(k)]
    BY <1>4 DEF Kenned
  <2>3. CASE k \notin ks
    BY <2>1, <2>2, <2>3, <1>7
  <2>4. CASE k \in ks
    <3>1. read[k].content = Content(us[k], k)
      BY <2>1, <2>4, <1>7
    <3>2. k \in DOMAIN disk => disk[k].facts = noted[NoteOf(k)]
      BY <2>1, <1>4 DEF Filed
    <3> QED
      BY <3>1, <3>2, <2>2 DEF Content
  <2> QED
    BY <2>3, <2>4
<1>11. Kenned(day, read, noted)
  BY <1>4, <1>7, <1>9, <1>10 DEF Kenned
<1>12. \A f \in recurring : f \in Facts /\ Cardinality(Noting(f, noted)) >= 3
  <2>1. ks \in SUBSET Episodic(read) /\ \A k \in ks : read[k].content # Unread
    BY <1>5, <1>8, <1>9 DEF Episodic
  <2>2. \A f \in recurring : f \in Facts /\ Recurs(read, ks, f, 3)
    BY DEF recurring, Promotable, RecurringIn
  <2>3. IsFiniteSet(DOMAIN noted)
    BY <1>4 DEF Filed
  <2> QED
    BY <2>1, <2>2, <2>3, <1>4, <1>11, RecurringNoted
<1>13. DOMAIN units = Loaders /\ "extractor" \in Loaders /\ Agendas \subseteq Loaders /\ "extractor" \notin Agendas
  BY MemoryAssumption DEF MemoryInv, SessionsTyped, Loaders
<1>14. units'["extractor"] = read /\ DOMAIN units' = Loaders /\ \A a \in Agendas : units'[a] = units[a]
  BY <1>3, <1>13
<1>15. asked \in [Agendas -> SUBSET Facts]
  BY DEF MemoryInv, SessionsTyped
<1>16. /\ asked' \in [Agendas -> SUBSET Facts] /\ asked'[s] = recurring
       /\ \A a \in Agendas \ {s} : asked'[a] = asked[a]
  BY <1>3, <1>12, <1>15
<1>17. PICK to \in {"resetting", "organizing"} : phase' = [phase EXCEPT ![s] = to]
  BY <1>3
<1>18. to \in Phases \ {"new", "running", "extracting"}
  BY DEF Phases
<1>19. \A k \in Topics(disk) : Cardinality(Noting(k.who, noted)) >= 3
  BY DEF MemoryInv, PromotedInv
<1>20. disk' = disk
  BY <1>1
<1> QED
  BY <1>1, <1>4, <1>11, <1>12, <1>14, <1>16, <1>17, <1>18, <1>19, <1>20, ExtractorStep

(* Topics are written under names of their own. *)
LEMMA OrganizeStep == ASSUME MemoryInv, NEW s \in Agendas, Organizes(s) PROVE MemoryInv'
<1>1. /\ phase[s] = "organizing" /\ phase' = [phase EXCEPT ![s] = "resetting"]
      /\ UNCHANGED <<day, loaded, asked, queries, noted>>
  BY DEF Organizes, Moves
<1>2. PICK answered \in SUBSET asked[s] :
        LET new == [k \in {Key("semantic", 0, f) : f \in answered} |-> File(ByPath, 1, {k.who})] IN
        /\ disk' = Overlaid(new, disk)
        /\ units' = [units EXCEPT !["extractor"] =
             Overlaid([k \in DOMAIN new |-> [Unit(k, new[k]) EXCEPT !.content = new[k].facts]], units["extractor"])]
  BY DEF Organizes
<1> DEFINE topics == {Key("semantic", 0, f) : f \in answered}
           new == [k \in topics |-> File(ByPath, 1, {k.who})]
           units2 == [k \in topics |-> [Unit(k, new[k]) EXCEPT !.content = new[k].facts]]
           us == units["extractor"]
           read == Overlaid(units2, us)
           g == Overlaid(new, disk)
<1>3. disk' = g /\ units' = [units EXCEPT !["extractor"] = read]
  BY <1>2
<1>4. ASSUME NEW k \in topics
      PROVE  /\ k.folder = "semantic" /\ IsKey(k) /\ k.who \in asked[s] /\ k.who \in Facts
             /\ new[k].facts \in SUBSET Facts /\ IsUnit(units2[k])
  <2>1. PICK f \in answered : k = Key("semantic", 0, f)
    OBVIOUS
  <2>2. f \in asked[s] /\ f \in Facts /\ k.who = f /\ k.folder = "semantic" /\ IsKey(k)
    BY <2>1 DEF Key, IsKey, MemoryInv, SessionsTyped
  <2>3. new[k].facts = {f}
    BY <2>2 DEF File
  <2>4. IsUnit(units2[k])
    <3>1. Unit(k, new[k]) = [tier |-> TierOf(k, new[k]), cost |-> new[k].cost, content |-> Unread]
      BY DEF Unit
    <3>2. units2[k] = [Unit(k, new[k]) EXCEPT !.content = new[k].facts]
      OBVIOUS
    <3>3. units2[k] = [tier |-> TierOf(k, new[k]), cost |-> new[k].cost, content |-> new[k].facts]
      <4> DEFINE was == Unit(k, new[k])
                 tier == TierOf(k, new[k])
                 price == new[k].cost
                 facts == new[k].facts
                 is == units2[k]
      <4>1. was = [tier |-> tier, cost |-> price, content |-> Unread] /\ is = [was EXCEPT !.content = facts]
        BY <3>1, <3>2
      <4> HIDE DEF was, tier, price, facts, is
      <4>2. is = [tier |-> tier, cost |-> price, content |-> facts]
        BY <4>1
      <4> QED
        BY <4>2 DEF tier, price, facts, is
    <3> HIDE DEF units2, new
    <3> QED
      BY <3>3 DEF IsUnit
  <2> QED
    BY <2>2, <2>3, <2>4
<1>5. DOMAIN new = topics /\ DOMAIN units2 = topics
  OBVIOUS
<1> HIDE DEF topics, new, units2, us
<1>6. /\ DOMAIN g = topics \cup DOMAIN disk /\ \A k \in topics : g[k] = new[k]
      /\ \A k \in DOMAIN disk \ topics : g[k] = disk[k]
  BY <1>5 DEF Overlaid
<1>7. /\ DOMAIN read = topics \cup DOMAIN us /\ \A k \in topics : read[k] = units2[k]
      /\ \A k \in DOMAIN us \ topics : read[k] = us[k]
  BY <1>5 DEF Overlaid
<1> HIDE DEF g, read
<1>8. Filed(day, disk, noted) /\ Kenned(day, us, noted)
  BY DEF MemoryInv, us
<1>9. Filed(day, g, noted)
  <2>1. \A k \in DOMAIN g : IsKey(k) /\ g[k].facts \in SUBSET Facts
    BY <1>4, <1>6, <1>8 DEF Filed
  <2>2. \A k \in DOMAIN g : IsEntry(k) => k \in DOMAIN disk /\ g[k] = disk[k]
    BY <1>4, <1>6 DEF IsEntry
  <2>3. ASSUME NEW k \in DOMAIN g, k.folder = "archive"
        PROVE  k.day <= day - RecentDays /\ Key("recent", k.day, k.who) \notin DOMAIN g
    <3>1. k \in DOMAIN disk /\ Key("recent", k.day, k.who) \notin topics
      BY <2>2, <2>3, <1>4 DEF IsEntry, Key
    <3> QED
      BY <3>1, <2>3, <1>6, <1>8 DEF Filed
  <2>4. ASSUME NEW e \in DOMAIN noted
        PROVE  e \in Agendas \X Nat /\ noted[e] \in SUBSET Facts /\ \E k \in DOMAIN g : IsEntry(k) /\ NoteOf(k) = e
    BY <1>6, <1>8 DEF Filed
  <2>5. \A k \in DOMAIN g : IsEntry(k) => NoteOf(k) \in DOMAIN noted /\ g[k].facts = noted[NoteOf(k)]
    BY <2>2, <1>8 DEF Filed
  <2> QED
    BY <2>1, <2>3, <2>4, <2>5, <1>8 DEF Filed
<1>10. Kenned(day, read, noted)
  <2>2. \A k \in DOMAIN read : IsKey(k) /\ IsUnit(read[k])
    BY <1>4, <1>7, <1>8 DEF Kenned
  <2>3. \A k \in DOMAIN read : k.folder \in {"recent", "archive"} => k \in DOMAIN us /\ read[k] = us[k]
    BY <1>4, <1>7
  <2>4. \A k \in Episodic(read) : k \in Episodic(us) /\ read[k] = us[k]
    BY <2>3 DEF Episodic
  <2>5. ASSUME NEW k \in DOMAIN read, k.folder = "archive"
        PROVE  k.day <= day - RecentDays /\ Key("recent", k.day, k.who) \notin DOMAIN read
    <3>1. k \in DOMAIN us /\ Key("recent", k.day, k.who) \notin topics
      BY <2>3, <2>5, <1>4 DEF Key
    <3> QED
      BY <3>1, <2>5, <1>7, <1>8 DEF Kenned
  <2> QED
    BY <2>2, <2>4, <2>5, <1>8 DEF Kenned
<1>11. \A k \in Topics(g) : Cardinality(Noting(k.who, noted)) >= 3
  BY <1>4, <1>6 DEF Topics, MemoryInv, PromotedInv
<1>12. DOMAIN units = Loaders /\ "extractor" \in Loaders /\ Agendas \subseteq Loaders /\ "extractor" \notin Agendas
  BY MemoryAssumption DEF MemoryInv, SessionsTyped, Loaders
<1>13. units'["extractor"] = read /\ DOMAIN units' = Loaders /\ \A a \in Agendas : units'[a] = units[a]
  BY <1>3, <1>12
<1>14. asked' = asked /\ asked \in [Agendas -> SUBSET Facts] /\ \A f \in asked[s] : Cardinality(Noting(f, noted)) >= 3
  BY <1>1 DEF MemoryInv, SessionsTyped, PromotedInv
<1>15. "resetting" \in Phases \ {"new", "running", "extracting"}
  BY DEF Phases
<1> QED
  BY <1>1, <1>3, <1>9, <1>10, <1>11, <1>13, <1>14, <1>15, ExtractorStep

LEMMA MemoryStep == MemoryInv /\ [MemoryNext]_memoryVars => MemoryInv'
<1> SUFFICES ASSUME MemoryInv, [MemoryNext]_memoryVars PROVE MemoryInv'
  OBVIOUS
<1>1. /\ phase \in [Agendas -> Phases] /\ asked \in [Agendas -> SUBSET Facts]
      /\ DOMAIN units = Loaders /\ DOMAIN loaded = Loaders
      /\ Filed(day, disk, noted) /\ Kenned(day, units["extractor"], noted)
      /\ \A k \in Topics(disk) : Cardinality(Noting(k.who, noted)) >= 3
  BY DEF MemoryInv, SessionsTyped, PromotedInv
<1>2. CASE UNCHANGED memoryVars
  BY <1>2 DEF memoryVars, MemoryInv, SessionsTyped, NotesInOrder, OneDay, PromotedInv, Topics, Noting,
              RecallInv, Filed, Kenned, Episodic
<1>3. ASSUME NEW s \in Agendas, PersistsLog(s) PROVE MemoryInv'
  <2> DEFINE f == File(ByPath, 1, {})
  <2>1. phase[s] = "running" /\ phase' = [phase EXCEPT ![s] = "extracting"] /\ PersistsEpisodic(s, s, f)
        /\ UNCHANGED <<day, asked>>
    BY <1>3 DEF PersistsLog, Moves
  <2>2. f.facts = {}
    BY DEF File
  <2>3. \A e \in DOMAIN noted : e[1] = s => noted[e] = {}
    BY <2>1 DEF MemoryInv, NotesInOrder
  <2>4. "extracting" \in Phases \ {"new", "running"}
    BY DEF Phases
  <2> HIDE DEF f
  <2> QED
    BY <2>1, <2>2, <2>3, <2>4, PersistKeeps
<1>4. ASSUME NEW s \in Agendas, Extracts(s) PROVE MemoryInv'
  <2>1. PICK facts \in SUBSET Facts : PersistsEpisodic("extractor", s, File(2, 1, facts))
    BY <1>4 DEF Extracts
  <2> DEFINE f == File(2, 1, facts)
  <2>2. phase[s] = "extracting" /\ phase' = [phase EXCEPT ![s] = "consolidating"] /\ UNCHANGED <<day, asked>>
    BY <1>4 DEF Extracts, Moves
  <2>3. f.facts \in SUBSET Facts
    BY DEF File
  <2>4. \A e \in DOMAIN noted : e[1] = s => noted[e] = {}
    BY <2>2 DEF MemoryInv, NotesInOrder
  <2>5. "consolidating" \in Phases \ {"new", "running"} /\ "consolidating" # "extracting"
    BY DEF Phases
  <2> HIDE DEF f
  <2>6. PersistsEpisodic("extractor", s, f)
    BY <2>1 DEF f
  <2> QED
    BY <2>2, <2>3, <2>4, <2>5, <2>6, PersistKeeps
<1>5. ASSUME NEW s \in Agendas, ExtractionFails(s) PROVE MemoryInv'
  <2>1. /\ phase[s] = "extracting" /\ phase' = [phase EXCEPT ![s] = "consolidating"]
        /\ UNCHANGED <<day, disk, units, loaded, asked, queries, noted>>
    BY <1>5 DEF ExtractionFails, Moves
  <2>2. "consolidating" \in Phases \ {"new", "running", "extracting"}
    BY DEF Phases
  <2>3. \A f \in asked[s] : Cardinality(Noting(f, noted)) >= 3
    BY DEF MemoryInv, PromotedInv
  <2>4. disk' = disk /\ units' = units /\ asked' = asked
    BY <2>1
  <2> QED
    BY <1>1, <2>1, <2>2, <2>3, <2>4, ExtractorStep
<1>6. ASSUME NEW s \in Agendas, Finishes(s) PROVE MemoryInv'
  <2>1. /\ phase[s] \notin {"new", "running"} /\ phase' = [phase EXCEPT ![s] = "over"]
        /\ asked' = [asked EXCEPT ![s] = {}]
        /\ UNCHANGED <<day, disk, units, loaded, queries, noted>>
    BY <1>6 DEF Finishes
  <2>2. "over" \in Phases \ {"new", "running", "extracting"}
    BY DEF Phases
  <2>3. asked' \in [Agendas -> SUBSET Facts] /\ asked'[s] = {} /\ \A a \in Agendas \ {s} : asked'[a] = asked[a]
    BY <1>1, <2>1
  <2>4. disk' = disk /\ units' = units
    BY <2>1
  <2> QED
    BY <1>1, <2>1, <2>2, <2>3, <2>4, ExtractorStep
<1>7. CASE DayPasses
  <2>1. day' = day + 1 /\ UNCHANGED <<disk, units, loaded, phase, asked, queries, noted>>
    BY <1>7 DEF DayPasses
  <2>2. Filed(day + 1, disk, noted) /\ Kenned(day + 1, units["extractor"], noted)
    BY <1>1, FiledLater, KennedLater
  <2>3. Filed(day, disk, noted)' /\ Kenned(day, units["extractor"], noted)'
    BY <2>1, <2>2
  <2>4. SessionsTyped' /\ NotesInOrder' /\ PromotedInv' /\ RecallInv'
    BY <2>1 DEF MemoryInv, SessionsTyped, NotesInOrder, OneDay, PromotedInv, Topics, Noting, RecallInv
  <2> QED
    BY <2>3, <2>4 DEF MemoryInv
<1>8. CASE MemoryNext
  BY <1>3, <1>4, <1>5, <1>6, <1>7, <1>8, BeginStep, QueryStep, ConsolidateStep, OrganizeStep DEF MemoryNext
<1> QED
  BY <1>2, <1>8

LEMMA MemoryHolds == MemoryInv => MemorySound
<1> SUFFICES ASSUME MemoryInv PROVE MemorySound
  OBVIOUS
<1>1. Filed(day, disk, noted)
  BY DEF MemoryInv
<1>2. ASSUME NEW e \in DOMAIN noted
      PROVE  LET recent == Key("recent", e[2], e[1])
                 there == {recent, Archived(recent)} \cap DOMAIN disk IN
             /\ \E k \in there : there = {k} /\ disk[k].facts = noted[e]
             /\ Archived(recent) \in there => e[2] <= day - RecentDays
  <2> DEFINE recent == Key("recent", e[2], e[1])
             old == Archived(recent)
             there == {recent, old} \cap DOMAIN disk
  <2>1. /\ recent.folder = "recent" /\ recent.day = e[2] /\ recent.who = e[1]
        /\ old.folder = "archive" /\ old.day = e[2] /\ old.who = e[1]
        /\ Key("recent", old.day, old.who) = recent
    BY DEF Key, Archived
  <2>2. PICK k \in DOMAIN disk : IsEntry(k) /\ NoteOf(k) = e
    BY <1>1 DEF Filed
  <2>3. k.who = e[1] /\ k.day = e[2] /\ k = Key(k.folder, k.day, k.who)
    BY <2>2, <1>1 DEF Filed, IsKey, NoteOf
  <2>4. k = recent \/ k = old
    BY <2>2, <2>3 DEF IsEntry, Archived, Key
  <2>5. disk[k].facts = noted[e]
    BY <2>2, <1>1 DEF Filed
  <2>6. old \in DOMAIN disk => old.day <= day - RecentDays /\ recent \notin DOMAIN disk
    BY <2>1, <1>1 DEF Filed
  <2> HIDE DEF recent, old
  <2>7. there = {k}
    BY <2>4, <2>6
  <2>8. old \in there => e[2] <= day - RecentDays
    BY <2>1, <2>6
  <2> QED
    BY <2>5, <2>7, <2>8 DEF recent, old
<1>3. MemoryIsKept
  BY <1>2 DEF MemoryIsKept, MemoryInv, PromotedInv, Topics, Noting
<1>4. RecallFits
  BY DEF MemoryInv, RecallInv, RecallOf, RecallFits
<1> QED
  BY <1>3, <1>4 DEF MemorySound

-----------------------------------------------------------------------------
(***************************************************************************)
(* All of them, one in focus.                                              *)
(***************************************************************************)
WorkInv == HandoverInv /\ HistoryInv /\ ImprovementInv

LEMMA OneInFocus ==
  ASSUME [HarnessNext]_harnessVars
  PROVE  /\ [GateNext]_gateVars /\ [AgentsNext]_agentVars /\ [FilesNext]_filesVars /\ [HistoryNext]_historyVars
         /\ [HandoverNext]_handoverVars /\ [MemoryNext]_memoryVars /\ [ImprovementNext]_improvementVars
<1>1. CASE UNCHANGED harnessVars
  <2>1. UNCHANGED <<gateVars, agentVars, filesVars, historyVars, handoverVars, memoryVars, improvementVars>>
    BY <1>1 DEF harnessVars, diskVars
  <2> QED
    BY <2>1
<1>2. CASE HarnessNext
  BY <1>2 DEF HarnessNext, diskVars
<1> QED
  BY <1>1, <1>2

(* For any number of processes, crashes, features, proposals and tries:     *)
(* every result written to a shared file is there, as long as no living     *)
(* process has lost its lock file; and one can lose it only after a crash   *)
(* that leaves two others, so never among two processes (harness/utils.ts,  *)
(* FeatureRegistry.ts, NegotiatedHandoff.ts).                               *)
THEOREM ChangesStayKept == HarnessSpec => []ChangesAreKept
<1>1. HarnessInit => SharedInv
  BY FilesInitially DEF HarnessInit, SharedInv
<1>2. SharedInv /\ [HarnessNext]_harnessVars => SharedInv'
  BY OneInFocus, SharedStep
<1>3. SharedInv => ChangesAreKept
  BY FilesHold
<1> QED
  BY <1>1, <1>2, <1>3, PTL DEF HarnessSpec

(* For any agents, features, steps, contents and experiments: a session     *)
(* goes on from the one that ended last; a rollback of a workspace that has *)
(* ended leaves all rows up to its target and none after it, and if the     *)
(* target was put once the content it had; and a rejected experiment leaves *)
(* the checkpoint from before it and nothing of its own but what operations *)
(* whose clock had run out wrote late.  Nothing is said of a rollback that  *)
(* crashed between its puts, of an experiment's rollback in which the store *)
(* failed, and of one on a thread without an earlier checkpoint             *)
(* (SessionBridge.ts, WorkspaceCheckpointer.ts, experimental-executor.ts,   *)
(* skill-evolver.ts).                                                       *)
THEOREM WorkAlwaysResumes == HarnessSpec => []WorkResumes
<1>1. HarnessInit => WorkInv
  BY HandoverInitially, HistoryInitially, ImprovementInitially DEF HarnessInit, WorkInv
<1>2. WorkInv /\ [HarnessNext]_harnessVars => WorkInv'
  BY OneInFocus, HandoverStep, HistoryStep, ImprovementStep DEF WorkInv
<1>3. WorkInv => WorkResumes
  BY HandoverHolds, HistoryHolds, ImprovementHolds DEF WorkInv, WorkResumes
<1> QED
  BY <1>1, <1>2, <1>3, PTL DEF HarnessSpec

(* For any tools, answers of the model, hooks, scopes and grants: no tool   *)
(* runs on a call that a hook refused, on arguments the safety model has    *)
(* not seen, without an argument the schema requires, on a path or with a   *)
(* command outside the scope, or with a command, a network or a tool that   *)
(* is not granted (loop/tools.ts, hooks-engine.ts, safety-gate.ts,          *)
(* platform/policy.ts).                                                     *)
THEOREM UncheckedCallsNeverRun == HarnessSpec => []OnlyCheckedCallsRun
<1>1. HarnessInit => GateInv
  BY GateInitially DEF HarnessInit, Quiet
<1>2. GateInv /\ [HarnessNext]_harnessVars => GateInv'
  BY OneInFocus, GateStep
<1>3. GateInv => OnlyCheckedCallsRun
  BY GateHolds
<1> QED
  BY <1>1, <1>2, <1>3, PTL DEF HarnessSpec

(* Over the budget an agent begins one more model call at most, the counts  *)
(* agree, no log is lost while the threads are few, every call in the       *)
(* messages of an agent has its one result, and no declared agent runs a    *)
(* tool that it may not use: for any agents, tools, prices, limits and      *)
(* answers (define-agent.ts:106-215, budget.ts:48-172, audit.ts:12-22).     *)
THEOREM AgentsStayGuarded == HarnessSpec => []AgentsGuarded
<1> DEFINE Inv == LogsInv /\ SpendInv /\ TalkInv
<1>1. HarnessInit => Inv
  BY AgentsInitially, TalkInitially DEF HarnessInit, Resting
<1>2. Inv /\ [HarnessNext]_harnessVars => Inv'
  BY OneInFocus, SpendStep, TalkStep
<1>3. Inv => AgentsGuarded
  BY SpendHolds, TalkHolds DEF AgentsGuarded
<1> QED
  BY <1>1, <1>2, <1>3, PTL DEF HarnessSpec

(* Whatever sessions write and archive at once and whichever of their moves *)
(* fail, each entry is in one place with what was written last, topics were *)
(* noted by three sessions at least, and what is recalled fits the tiers'   *)
(* budgets and has been read: for any sessions, facts, notes, budgets and   *)
(* days (harness/memory/index.ts, extractor.ts, loop/memory.ts).            *)
THEOREM MemoryStaysSound == HarnessSpec => []MemorySound
<1>1. HarnessInit => MemoryInv
  BY MemoryInitially DEF HarnessInit
<1>2. MemoryInv /\ [HarnessNext]_harnessVars => MemoryInv'
  BY OneInFocus, MemoryStep
<1>3. MemoryInv => MemorySound
  BY MemoryHolds
<1> QED
  BY <1>1, <1>2, <1>3, PTL DEF HarnessSpec
=============================================================================
