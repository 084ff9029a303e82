---------------------------- MODULE RepliesProofs ----------------------------
(***************************************************************************)
(* Proof that requests and replies stay sound, for any number of messages, *)
(* calls, payloads and chunks: THEOREM RepliesStaySound, at the end.       *)
(*                                                                         *)
(* Folds.  What an adapter makes of a conversation, of an answer, of lines *)
(* and of the halves that arrive is a fold over a sequence.  FoldRuns says *)
(* of any fold that it runs: there is a value after every element, each    *)
(* got from the one before by the step.  What every step keeps holds at    *)
(* the end (Inducts), by the least number where it would not.              *)
(*                                                                         *)
(* Requests (RequestInv).  The request is the one made of the conversation *)
(* and the parameters.  GoogleFollows and AnthropicKeeps carry, message by *)
(* message, that a turn with calls is followed by their results, or that   *)
(* the results told so far wait for the next turn; and that what the turns *)
(* say, one after the other, is what the messages mean.                    *)
(*                                                                         *)
(* Streams (StreamInv).  Three facts are needed about a body that arrives  *)
(* in chunks cut anywhere.  SentFine: how a provider sends its calls.      *)
(* Tale(a, o, m): the open calls a and the chunks o are what the first m   *)
(* payloads tell.  Waiting: what was read ends at a place (n lines, and of *)
(* the next one h parts) up to which the tale is told but for the lines    *)
(* the event keeps, and what is on the wire leads from that place to the   *)
(* last line sent.  So reading one more half or line break moves the place *)
(* (SymbolReads), a chunk of them does (ChunkReads), and at the end of the *)
(* body the place is the end of what was sent, unless the rest was lost.   *)
(***************************************************************************)
EXTENDS MCServices, FiniteSetTheorems, SequenceTheorems, WellFoundedInduction, TLAPS

-----------------------------------------------------------------------------
(* Sets of natural numbers, and folds.  A set of numbers up to n has a     *)
(* greatest one: of the intervals from its numbers to n a least one.       *)
LEMMA MaxExists ==
  ASSUME NEW n \in Nat, NEW T, T \subseteq 0..n, T # {}
  PROVE  \E k \in T : \A j \in T : j <= k
<1> DEFINE Family == {k..n : k \in T}
<1>1. Family \subseteq SUBSET (0..n) /\ Family # {}
  <2>1. ASSUME NEW k \in T PROVE k..n \subseteq 0..n
    OBVIOUS
  <2> QED BY <2>1
<1>2. IsWellFoundedOn(StrictSubsetOrdering(0..n), SUBSET (0..n))
  <2>1. IsFiniteSet(0..n)
    BY FS_Interval
  <2>2. FiniteSubsetsOf(0..n) = SUBSET (0..n)
    BY <2>1, FS_FiniteSubsetsOfFinite
  <2>3. IsWellFoundedOn(StrictSubsetOrdering(0..n), FiniteSubsetsOf(0..n))
    BY FS_StrictSubsetOrderingWellFounded
  <2> QED BY <2>2, <2>3
<1>3. PICK F \in Family : \A E \in Family : ~(<<E, F>> \in StrictSubsetOrdering(0..n))
  <2> HIDE DEF Family
  <2> QED BY <1>1, <1>2, WFMin
<1>4. PICK k \in T : F = k..n
  BY <1>3
<1>5. ASSUME NEW j \in T PROVE j <= k
  <2>1. j..n \in Family
    OBVIOUS
  <2>2. SUFFICES ASSUME k < j PROVE FALSE
    OBVIOUS
  <2>3. j..n \subseteq k..n /\ k \in k..n /\ k \notin j..n
    BY <2>2
  <2>4. <<j..n, k..n>> \in StrictSubsetOrdering(0..n)
    BY <2>1, <2>3, <1>1, <1>4 DEF StrictSubsetOrdering
  <2> QED BY <2>1, <2>4, <1>3, <1>4
<1> QED BY <1>5

(* And a non-empty set of natural numbers has a least one. *)
LEMMA LeastExists ==
  ASSUME NEW S, S \subseteq Nat, S # {}
  PROVE  \E k \in S : \A j \in S : k <= j
<1>1. PICK n \in S : TRUE
  OBVIOUS
<1> DEFINE T == {i \in 0..n : n - i \in S}
<1>2. n \in Nat /\ T \subseteq 0..n /\ 0 \in T
  OBVIOUS
<1>3. PICK i \in T : \A j \in T : j <= i
  <2> HIDE DEF T
  <2> QED BY <1>2, MaxExists
<1>4. n - i \in S /\ i \in 0..n
  BY <1>3
<1>5. ASSUME NEW j \in S PROVE n - i <= j
  <2>1. CASE j > n
    BY <1>2, <1>4, <2>1
  <2>2. CASE ~(j > n)
    <3>1. n - j \in 0..n /\ n - (n - j) = j
      BY <1>2, <2>2
    <3>2. n - j \in T
      BY <3>1
    <3>3. n - j <= i
      BY <1>3, <3>2
    <3> QED BY <1>2, <1>4, <3>3
  <2> QED BY <2>1, <2>2
<1> QED BY <1>4, <1>5

(* What holds at 0 and from each number to the next holds up to n. *)
LEMMA Inducts ==
  ASSUME NEW n \in Nat, NEW S, 0 \in S, \A k \in 0..(n - 1) : k \in S => k + 1 \in S
  PROVE  0..n \subseteq S
<1> DEFINE Bad == {k \in 0..n : k \notin S}
<1>1. SUFFICES ASSUME Bad # {} PROVE FALSE
  OBVIOUS
<1>2. PICK k \in Bad : \A j \in Bad : k <= j
  <2>1. Bad \subseteq Nat
    OBVIOUS
  <2> HIDE DEF Bad
  <2> QED BY <1>1, <2>1, LeastExists
<1>3. k # 0 /\ k \in 0..n
  BY <1>2
<1>4. k - 1 \in 0..n /\ k - 1 \in 0..(n - 1) /\ k - 1 \notin Bad
  BY <1>2, <1>3
<1>5. k - 1 \in S /\ (k - 1) + 1 = k
  BY <1>3, <1>4
<1> QED
  BY <1>2, <1>4, <1>5

(* FoldLeft takes the elements away from the last one on: it is a function *)
(* g on sets of positions of a sequence of n elements, that starts with b  *)
(* and takes the steps h.                                                   *)

Subsets(n) == SUBSET (1..n)
UpTo(n) == 1..n
Rest(s) == s \ {Max(s)}
Take(h, a, i) == h[<<a, i>>]

(* The values g of a fold of n elements, on every set of positions.        *)
FoldsOn(g, h, b, n) ==
  g = [s \in Subsets(n) |-> IF s = {} THEN b ELSE Take(h, g[Rest(s)], Max(s))]

(* The position taken away is the greatest, and those left are before it.  *)
LEMMA MaxIn ==
  ASSUME NEW n \in Nat, NEW s \in Subsets(n), s # {}
  PROVE  /\ Max(s) \in s /\ Max(s) \in 1..n /\ \A y \in s : y <= Max(s)
         /\ Rest(s) \in Subsets(Max(s) - 1) /\ Rest(s) \in Subsets(n)
<1>1. \E k \in s : \A j \in s : k >= j
  <2>1. s \subseteq 0..n
    BY DEF Subsets
  <2>2. \E k \in s : \A j \in s : j <= k
    BY <2>1, MaxExists
  <2> QED BY <2>1, <2>2
<1>2. Max(s) \in s /\ \A y \in s : Max(s) >= y
  BY <1>1 DEF Max
<1> HIDE DEF Max
<1>3. Max(s) \in 1..n /\ \A y \in s : y \in 1..n
  BY <1>2 DEF Subsets
<1>4. \A y \in s : y # Max(s) => y \in 1..(Max(s) - 1)
  BY <1>2, <1>3
<1> QED
  BY <1>2, <1>3, <1>4 DEF Rest, Subsets

LEMMA MaxOfPrefix ==
  ASSUME NEW k \in Nat
  PROVE  /\ Max(UpTo(k + 1)) = k + 1 /\ Rest(UpTo(k + 1)) = UpTo(k)
         /\ UpTo(k + 1) # {} /\ UpTo(k + 1) \in Subsets(k + 1) /\ UpTo(k) \in Subsets(k)
         /\ UpTo(0) = {}
<1> DEFINE s == UpTo(k + 1)
<1>1. PICK n \in Nat : n = k + 1
  OBVIOUS
<1>2. s \in Subsets(n) /\ s # {} /\ k + 1 \in s /\ UpTo(k) \in Subsets(k) /\ UpTo(0) = {}
  BY <1>1 DEF Subsets, UpTo
<1>3. Max(s) \in s /\ Max(s) \in 1..n /\ k + 1 <= Max(s)
  <2> HIDE DEF s
  <2> QED BY <1>1, <1>2, MaxIn
<1>4. Max(s) = k + 1
  BY <1>1, <1>3
<1>5. Rest(s) = s \ {k + 1}
  BY <1>4 DEF Rest
<1>6. s \ {k + 1} = UpTo(k)
  BY DEF UpTo
<1> QED
  BY <1>1, <1>2, <1>4, <1>5, <1>6

LEMMA FoldAt ==
  ASSUME NEW g, NEW h, NEW b, NEW n, FoldsOn(g, h, b, n)
  PROVE  /\ DOMAIN g = Subsets(n)
         /\ g[{}] = b
         /\ \A s \in Subsets(n) : s # {} => g[s] = Take(h, g[Rest(s)], Max(s))
<1> DEFINE taken(u) == IF u = {} THEN b ELSE Take(h, g[Rest(u)], Max(u))
<1> HIDE DEF taken
<1>1. g = [u \in Subsets(n) |-> taken(u)]
  BY DEF FoldsOn, taken
<1>2. DOMAIN g = Subsets(n) /\ \A s \in Subsets(n) : g[s] = taken(s)
  BY <1>1
<1>3. {} \in Subsets(n)
  BY DEF Subsets
<1> QED
  BY <1>2, <1>3 DEF taken

LEMMA FoldExists ==
  ASSUME NEW A, NEW n \in Nat, NEW b \in A, NEW h, \A a \in A : \A i \in 1..n : Take(h, a, i) \in A
  PROVE  \E g \in [Subsets(n) -> A] : FoldsOn(g, h, b, n)
<1> DEFINE Fold(g, m) == \A s \in Subsets(m) : g[s] = IF s = {} THEN b ELSE Take(h, g[Rest(s)], Max(s))
           Good == {m \in 0..n : \E g \in [Subsets(m) -> A] : Fold(g, m)}
<1>1. 0 \in Good
  <2> DEFINE g == [s \in Subsets(0) |-> b]
  <2>1. g \in [Subsets(0) -> A] /\ \A s \in Subsets(0) : g[s] = b /\ s = {}
    BY DEF Subsets
  <2> HIDE DEF g
  <2>2. Fold(g, 0)
    BY <2>1
  <2> HIDE DEF Fold
  <2> QED BY <2>1, <2>2
<1>2. ASSUME NEW m \in 0..(n - 1), m \in Good PROVE m + 1 \in Good
  <2>1. PICK g \in [Subsets(m) -> A] : Fold(g, m)
    BY <1>2
  <2>r. PICK r \in 1..n : r = m + 1
    OBVIOUS
  <2> DEFINE f == [s \in Subsets(r) |-> IF r \in s THEN Take(h, g[Rest(s)], Max(s)) ELSE g[s]]
  <2>2. ASSUME NEW s \in Subsets(r), r \in s
        PROVE  /\ Max(s) = r /\ Rest(s) \in Subsets(m) /\ Rest(s) \in Subsets(r) /\ r \notin Rest(s)
               /\ f[s] = Take(h, g[Rest(s)], Max(s)) /\ f[Rest(s)] = g[Rest(s)] /\ f[s] \in A
    <3>1. Max(s) \in 1..r /\ r <= Max(s) /\ Rest(s) \in Subsets(Max(s) - 1) /\ Rest(s) \in Subsets(r)
      BY <2>2, MaxIn
    <3>2. Max(s) = r
      BY <3>1
    <3>3. Rest(s) \in Subsets(m) /\ r \notin Rest(s)
      BY <3>1, <3>2, <2>r DEF Subsets
    <3>4. f[s] = Take(h, g[Rest(s)], Max(s)) /\ f[Rest(s)] = g[Rest(s)]
      BY <2>2, <3>1, <3>3
    <3>5. g[Rest(s)] \in A
      BY <3>3
    <3>6. Take(h, g[Rest(s)], Max(s)) \in A
      BY <3>2, <3>5
    <3> HIDE DEF f
    <3> QED BY <3>1, <3>2, <3>3, <3>4, <3>6
  <2>3. ASSUME NEW s \in Subsets(r), r \notin s
        PROVE  /\ s \in Subsets(m) /\ f[s] = g[s] /\ f[s] \in A
               /\ f[Rest(s)] = g[Rest(s)]
    <3>1. s \in Subsets(m) /\ Rest(s) \in Subsets(r) /\ r \notin Rest(s)
      <4>1. Rest(s) \subseteq s
        BY DEF Rest
      <4>2. \A x \in s : x \in 1..m
        BY <2>3, <2>r DEF Subsets
      <4> QED BY <2>3, <4>1, <4>2 DEF Subsets
    <3>2. f[s] = g[s] /\ f[Rest(s)] = g[Rest(s)]
      BY <2>3, <3>1
    <3>3. g[s] \in A
      BY <3>1
    <3> HIDE DEF f
    <3> QED BY <3>1, <3>2, <3>3
  <2>4. f \in [Subsets(r) -> A]
    <3>1. \A s \in Subsets(r) : f[s] \in A
      <4> HIDE DEF f
      <4> QED BY <2>2, <2>3
    <3> QED BY <3>1
  <2>5. Fold(f, r)
    <3> HIDE DEF f
    <3>1. ASSUME NEW s \in Subsets(r)
          PROVE  f[s] = IF s = {} THEN b ELSE Take(h, f[Rest(s)], Max(s))
      <4>1. CASE r \in s
        BY <2>2, <4>1
      <4>2. CASE r \notin s
        BY <2>1, <2>3, <4>2
      <4> QED BY <4>1, <4>2
    <3> QED BY <3>1
  <2>6. r \in 0..n
    OBVIOUS
  <2> HIDE DEF f, Fold
  <2>7. r \in Good
    BY <2>4, <2>5, <2>6
  <2> HIDE DEF Good
  <2> QED BY <2>r, <2>7
<1>3. n \in Good
  <2> HIDE DEF Good
  <2>1. 0..n \subseteq Good
    BY <1>1, <1>2, Inducts
  <2> QED BY <2>1
<1>4. PICK g \in [Subsets(n) -> A] : Fold(g, n)
  BY <1>3
<1>5. FoldsOn(g, h, b, n)
  <2> DEFINE taken(s) == IF s = {} THEN b ELSE Take(h, g[Rest(s)], Max(s))
  <2>1. \A s \in Subsets(n) : g[s] = taken(s)
    BY <1>4
  <2> HIDE DEF taken
  <2>2. g = [s \in Subsets(n) |-> taken(s)]
    BY <2>1
  <2> QED BY <2>2 DEF FoldsOn, taken
<1> QED
  BY <1>5

(* A fold stays where its steps do, *)
LEMMA FoldTyped ==
  ASSUME NEW A, NEW n \in Nat, NEW b \in A, NEW h, NEW g, FoldsOn(g, h, b, n),
         \A a \in A : \A i \in 1..n : Take(h, a, i) \in A
  PROVE  \A s \in Subsets(n) : g[s] \in A
<1>1. g[{}] = b /\ \A s \in Subsets(n) : s # {} => g[s] = Take(h, g[Rest(s)], Max(s))
  BY FoldAt
<1> DEFINE Good == {j \in 0..n : \A s \in Subsets(j) : g[s] \in A}
<1>2. 0 \in Good
  <2>1. \A s \in Subsets(0) : s = {}
    BY DEF Subsets
  <2>2. \A s \in Subsets(0) : g[s] \in A
    BY <1>1, <2>1
  <2> QED BY <2>2
<1>3. ASSUME NEW j \in 0..(n - 1), j \in Good PROVE j + 1 \in Good
  <2>r. PICK r \in 1..n : r = j + 1
    OBVIOUS
  <2>1. ASSUME NEW s \in Subsets(r), s # {} PROVE g[s] \in A
    <3>1. s \in Subsets(n)
      BY DEF Subsets
    <3>2. Max(s) \in 1..r /\ Rest(s) \in Subsets(Max(s) - 1)
      BY <2>1, MaxIn
    <3>3. Max(s) \in 1..n /\ Rest(s) \in Subsets(j)
      BY <2>r, <3>2 DEF Subsets
    <3>4. g[Rest(s)] \in A
      BY <1>3, <3>3
    <3> QED BY <1>1, <2>1, <3>1, <3>3, <3>4
  <2>2. \A s \in Subsets(r) : g[s] \in A
    BY <1>1, <2>1
  <2>3. r \in 0..n
    OBVIOUS
  <2>4. r \in Good
    BY <2>2, <2>3
  <2> HIDE DEF Good
  <2> QED BY <2>r, <2>4
<1>4. 0..n \subseteq Good
  <2> HIDE DEF Good
  <2> QED BY <1>2, <1>3, Inducts
<1>5. n \in Good
  <2> HIDE DEF Good
  <2> QED BY <1>4
<1> QED
  BY <1>5

(* and goes through the elements one by one. *)
Within(h, A, n) == \A a \in A : \A i \in 1..n : Take(h, a, i) \in A
Goes(r, h, n) == \A k \in 0..(n - 1) : r[k + 1] = Take(h, r[k], k + 1)
(* What a fold runs through: a value after each element, the last one its  *)
(* own.                                                                    *)
LEMMA FoldRuns ==
  ASSUME NEW A, NEW n \in Nat, NEW b \in A, NEW h, NEW g, FoldsOn(g, h, b, n), Within(h, A, n)
  PROVE  \E r \in [0..n -> A] : r[0] = b /\ r[n] = g[UpTo(n)] /\ Goes(r, h, n)
<1> DEFINE r == [k \in 0..n |-> g[UpTo(k)]]
<1>1. \A k \in 0..n : UpTo(k) \in Subsets(n)
  BY DEF UpTo, Subsets
<1>2. r \in [0..n -> A]
  BY <1>1, FoldTyped DEF Within
<1>3. r[0] = b /\ r[n] = g[UpTo(n)]
  <2>1. g[{}] = b
    BY FoldAt
  <2>2. UpTo(0) = {} /\ 0 \in 0..n /\ n \in 0..n
    BY DEF UpTo
  <2> QED BY <2>1, <2>2
<1>4. ASSUME NEW k \in 0..(n - 1) PROVE r[k + 1] = Take(h, r[k], k + 1)
  <2>1. k + 1 \in 0..n /\ k \in 0..n /\ k \in Nat
    OBVIOUS
  <2>2. UpTo(k + 1) # {} /\ Rest(UpTo(k + 1)) = UpTo(k) /\ Max(UpTo(k + 1)) = k + 1
    BY <2>1, MaxOfPrefix
  <2>3. g[UpTo(k + 1)] = Take(h, g[Rest(UpTo(k + 1))], Max(UpTo(k + 1)))
    BY <1>1, <2>1, <2>2, FoldAt
  <2> QED BY <2>1, <2>2, <2>3
<1> HIDE DEF r
<1> QED
  BY <1>2, <1>3, <1>4 DEF Goes

-----------------------------------------------------------------------------
(* The calls that are left of an answer. *)
RealStep(real, c) == IF Synthetic(c) THEN real ELSE Append(real, c)
Names == {"tool", "format"}
RealCallLists == Seq(Names)
LEMMA RealKeeps == \A a \in RealCallLists, c \in Names : RealStep(a, c) \in RealCallLists
  BY DEF RealStep, RealCallLists

(* The fold that RealCalls is, as a function on sets of positions.         *)
RealOf(g, b, s) ==
  g = [p \in Subsets(Len(s)) |-> IF p = {} THEN b ELSE RealStep(g[Rest(p)], s[Max(p)])]

LEMMA RealRuns ==
  ASSUME NEW n \in Nat, NEW s \in Seq(Names), n = Len(s), NEW b \in RealCallLists
  PROVE  \E r \in [0..n -> RealCallLists] :
           /\ r[0] = b /\ r[n] = FoldLeft(LAMBDA real, c : IF Synthetic(c) THEN real ELSE Append(real, c), b, s)
           /\ \A k \in 0..(n - 1) : r[k + 1] = RealStep(r[k], s[k + 1])
<1> DEFINE h == [x \in RealCallLists \X (1..n) |-> RealStep(x[1], s[x[2]])]
<1>1. DOMAIN s = 1..n /\ \A i \in 1..n : s[i] \in Names
  OBVIOUS
<1>2. \A a \in RealCallLists : \A i \in 1..n : Take(h, a, i) = RealStep(a, s[i])
  BY DEF Take
<1>3. \A a \in RealCallLists : \A i \in 1..n : RealStep(a, s[i]) \in RealCallLists
  BY <1>1, RealKeeps
<1> HIDE DEF h
<1>t. \A a \in RealCallLists : \A i \in 1..n : Take(h, a, i) \in RealCallLists
  BY <1>2, <1>3
<1>4. PICK f \in [Subsets(n) -> RealCallLists] : FoldsOn(f, h, b, n)
  BY <1>t, FoldExists
<1> DEFINE taken(g, p) == IF p = {} THEN b ELSE RealStep(g[Rest(p)], s[Max(p)])
<1>5. RealOf(f, b, s)
  <2>1. \A p \in Subsets(n) : f[p] = taken(f, p)
    <3> TAKE p \in Subsets(n)
    <3>1. f[{}] = b /\ (p # {} => f[p] = Take(h, f[Rest(p)], Max(p)))
      BY <1>4, FoldAt
    <3>2. p # {} => Max(p) \in 1..n /\ Rest(p) \in Subsets(n)
      BY MaxIn
    <3>3. p # {} => Take(h, f[Rest(p)], Max(p)) = RealStep(f[Rest(p)], s[Max(p)])
      BY <1>2, <1>4, <3>2
    <3> QED BY <3>1, <3>3
  <2> HIDE DEF taken
  <2>2. f = [p \in Subsets(n) |-> taken(f, p)]
    BY <1>4, <2>1
  <2> QED BY <2>2 DEF taken, RealOf
<1> DEFINE g == CHOOSE g : RealOf(g, b, s)
<1>6. RealOf(g, b, s) /\ FoldLeft(LAMBDA real, c : IF Synthetic(c) THEN real ELSE Append(real, c), b, s) = g[UpTo(n)]
  <2>1. RealOf(g, b, s)
    BY <1>5
  <2>2. FoldLeft(LAMBDA real, c : IF Synthetic(c) THEN real ELSE Append(real, c), b, s) = g[DOMAIN s]
    BY <1>1 DEF RealStep, FoldLeft, MapThenFoldSet, RealOf, Subsets, Rest
  <2> QED BY <1>1, <2>1, <2>2 DEF UpTo
<1> HIDE DEF g
<1> DEFINE V == RealCallLists \cup {g[p] : p \in Subsets(n)}
           k == [x \in V \X (1..n) |-> RealStep(x[1], s[x[2]])]
<1>7. \A a \in V : \A i \in 1..n : Take(k, a, i) = RealStep(a, s[i])
  <2> HIDE DEF V
  <2> QED BY DEF Take
<1>8. FoldsOn(g, k, b, n)
  <2> DEFINE stepped(p) == IF p = {} THEN b ELSE Take(k, g[Rest(p)], Max(p))
  <2>1. g = [p \in Subsets(n) |-> taken(g, p)]
    BY <1>6 DEF RealOf
  <2>2. \A p \in Subsets(n) : taken(g, p) = stepped(p)
    <3> TAKE p \in Subsets(n)
    <3>1. p # {} => Max(p) \in 1..n /\ Rest(p) \in Subsets(n)
      BY MaxIn
    <3>2. p # {} => g[Rest(p)] \in V
      BY <3>1
    <3>3. p # {} => Take(k, g[Rest(p)], Max(p)) = RealStep(g[Rest(p)], s[Max(p)])
      <4> HIDE DEF V, k
      <4> QED BY <1>7, <3>1, <3>2
    <3> HIDE DEF V, k
    <3> QED BY <3>3
  <2> HIDE DEF taken, stepped
  <2>3. g = [p \in Subsets(n) |-> stepped(p)]
    BY <2>1, <2>2
  <2> HIDE DEF k
  <2> QED BY <2>3 DEF stepped, FoldsOn
<1>9. \A a \in RealCallLists : \A i \in 1..n : Take(k, a, i) = RealStep(a, s[i]) /\ Take(k, a, i) \in RealCallLists
  <2>1. \A a \in RealCallLists : a \in V
    OBVIOUS
  <2> HIDE DEF V, k
  <2> QED BY <1>3, <1>7, <2>1
<1> HIDE DEF k
<1>w. Within(k, RealCallLists, n)
  BY <1>9 DEF Within
<1>10. PICK r \in [0..n -> RealCallLists] : r[0] = b /\ r[n] = g[UpTo(n)] /\ Goes(r, k, n)
  BY <1>8, <1>w, FoldRuns
<1>11. ASSUME NEW i \in 0..(n - 1) PROVE r[i + 1] = RealStep(r[i], s[i + 1])
  <2>1. r[i] \in RealCallLists /\ i + 1 \in 1..n
    BY <1>10
  <2> QED BY <1>9, <1>10, <2>1 DEF Goes
<1> QED
  BY <1>6, <1>10, <1>11

-----------------------------------------------------------------------------
(* What is said one after the other. *)
Blocks == [type : {"text", "image", "call", "result"}, id : CallIds \cup {NoId}]
Talk == Seq(Blocks)
Joined(a, b) == a \o b

LEMMA JoinedFacts ==
  /\ <<>> \in Talk
  /\ \A a \in Talk, b \in Talk : Joined(a, b) \in Talk
  /\ \A a \in Talk : Joined(<<>>, a) = a /\ Joined(a, <<>>) = a
  /\ \A a \in Talk, b \in Talk, c \in Talk : Joined(Joined(a, b), c) = Joined(a, Joined(b, c))
<1>1. \A a \in Talk, b \in Talk : Joined(a, b) \in Talk
  BY DEF Talk, Joined
<1>2. \A a \in Talk : Joined(<<>>, a) = a /\ Joined(a, <<>>) = a
  BY ConcatEmptySeq DEF Talk, Joined
<1>3. \A a \in Talk, b \in Talk, c \in Talk : Joined(Joined(a, b), c) = Joined(a, Joined(b, c))
  BY ConcatAssociative DEF Talk, Joined
<1> QED
  BY <1>1, <1>2, <1>3 DEF Talk

FlatOf(f, s) == f = [i \in 1..Len(s) |-> IF i = 1 THEN s[i] ELSE f[i - 1] \o s[i]]

LEMMA FlatExists ==
  ASSUME NEW n \in Nat, NEW s \in Seq(Talk), n = Len(s)
  PROVE  \E f \in [1..n -> Talk] : FlatOf(f, s)
<1> DEFINE Okay(f, m) == \A i \in 1..m : f[i] = IF i = 1 THEN s[i] ELSE Joined(f[i - 1], s[i])
           Good == {m \in 0..n : \E f \in [1..m -> Talk] : Okay(f, m)}
<1>s. \A i \in 1..n : s[i] \in Talk
  OBVIOUS
<1>1. 0 \in Good
  <2> DEFINE f == [i \in 1..0 |-> <<>>]
  <2>1. f \in [1..0 -> Talk] /\ Okay(f, 0)
    OBVIOUS
  <2> HIDE DEF f, Okay
  <2>2. 0 \in 0..n
    OBVIOUS
  <2> QED BY <2>1, <2>2
<1>2. ASSUME NEW m \in 0..(n - 1), m \in Good PROVE m + 1 \in Good
  <2>r. PICK r \in 1..n : r = m + 1
    OBVIOUS
  <2>1. PICK f \in [1..m -> Talk] : Okay(f, m)
    BY <1>2
  <2> DEFINE g == [i \in 1..r |-> IF i = r THEN IF i = 1 THEN s[i] ELSE Joined(f[i - 1], s[i]) ELSE f[i]]
  <2>2. \A i \in 1..r : g[i] \in Talk
    <3> SUFFICES ASSUME NEW i \in 1..r PROVE g[i] \in Talk
      OBVIOUS
    <3>1. i # r => i \in 1..m
      BY <2>r
    <3>2. i = r /\ i # 1 => i - 1 \in 1..m
      BY <2>r
    <3> QED BY <1>s, <3>1, <3>2, JoinedFacts
  <2>3. Okay(g, r)
    <3> SUFFICES ASSUME NEW i \in 1..r
                 PROVE  g[i] = IF i = 1 THEN s[i] ELSE Joined(g[i - 1], s[i])
      OBVIOUS
    <3>1. i # r => i \in 1..m
      BY <2>r
    <3>2. i # 1 => i - 1 \in 1..r /\ i - 1 # r /\ i - 1 \in 1..m
      BY <2>r
    <3>3. i # 1 => g[i - 1] = f[i - 1]
      BY <3>2
    <3>4. i # r => g[i] = f[i] /\ f[i] = IF i = 1 THEN s[i] ELSE Joined(f[i - 1], s[i])
      BY <2>1, <3>1
    <3>5. i = r => g[i] = IF i = 1 THEN s[i] ELSE Joined(f[i - 1], s[i])
      OBVIOUS
    <3> HIDE DEF g
    <3> QED BY <3>3, <3>4, <3>5
  <2>4. g \in [1..r -> Talk] /\ r \in 0..n
    BY <2>2
  <2> HIDE DEF g, Okay
  <2>5. r \in Good
    BY <2>3, <2>4
  <2> HIDE DEF Good
  <2> QED BY <2>r, <2>5
<1>3. 0..n \subseteq Good
  <2> HIDE DEF Good
  <2> QED BY <1>1, <1>2, Inducts
<1>4. PICK f \in [1..n -> Talk] : Okay(f, n)
  <2>1. n \in Good
    <3> HIDE DEF Good
    <3> QED BY <1>3
  <2> HIDE DEF Okay
  <2> QED BY <2>1
<1>5. f = [i \in 1..n |-> IF i = 1 THEN s[i] ELSE f[i - 1] \o s[i]]
  <2> DEFINE taken(i) == IF i = 1 THEN s[i] ELSE f[i - 1] \o s[i]
  <2>1. \A i \in 1..n : f[i] = taken(i)
    BY <1>4 DEF Joined
  <2> HIDE DEF taken
  <2>2. f = [i \in 1..n |-> taken(i)]
    BY <2>1
  <2> QED BY <2>2 DEF taken
<1> QED
  BY <1>5 DEF FlatOf

(* FlattenSeq runs through what its elements say, one more at a time.      *)
LEMMA FlattenRuns ==
  ASSUME NEW n \in Nat, NEW s \in Seq(Talk), n = Len(s)
  PROVE  \E r \in [0..n -> Talk] :
           /\ r[0] = <<>> /\ r[n] = FlattenSeq(s)
           /\ \A k \in 0..(n - 1) : r[k + 1] = Joined(r[k], s[k + 1])
<1> DEFINE g == CHOOSE f : FlatOf(f, s)
<1>1. FlatOf(g, s)
  BY FlatExists
<1>2. FlattenSeq(s) = IF n = 0 THEN s ELSE g[n]
  BY DEF FlattenSeq, FlatOf
<1> HIDE DEF g
<1>3. \A i \in 1..n : g[i] = IF i = 1 THEN s[i] ELSE Joined(g[i - 1], s[i])
  BY <1>1 DEF FlatOf, Joined
<1>s. \A i \in 1..n : s[i] \in Talk
  OBVIOUS
<1> DEFINE Good == {m \in 0..n : m # 0 => g[m] \in Talk}
<1>4. 0 \in Good
  OBVIOUS
<1>5. ASSUME NEW m \in 0..(n - 1), m \in Good PROVE m + 1 \in Good
  <2>1. m + 1 \in 1..n /\ m + 1 \in 0..n /\ (m + 1 = 1 <=> m = 0) /\ (m + 1) - 1 = m
    OBVIOUS
  <2>2. g[m + 1] = IF m = 0 THEN s[m + 1] ELSE Joined(g[m], s[m + 1])
    BY <1>3, <2>1
  <2>3. g[m + 1] \in Talk
    <3>1. m # 0 => g[m] \in Talk
      BY <1>5
    <3>2. s[m + 1] \in Talk
      BY <1>s, <2>1
    <3> HIDE DEF Good
    <3> QED BY <2>2, <3>1, <3>2, JoinedFacts
  <2> QED BY <2>1, <2>3
<1>6. 0..n \subseteq Good
  <2> HIDE DEF Good
  <2> QED BY <1>4, <1>5, Inducts
<1> DEFINE r == [k \in 0..n |-> IF k = 0 THEN <<>> ELSE g[k]]
<1>7. r \in [0..n -> Talk]
  BY <1>6, JoinedFacts
<1>8. r[0] = <<>> /\ r[n] = FlattenSeq(s)
  <2>1. n = 0 => s = <<>>
    BY EmptySeq
  <2>2. n \in 0..n /\ 0 \in 0..n
    OBVIOUS
  <2> QED BY <1>2, <2>1, <2>2
<1>9. ASSUME NEW k \in 0..(n - 1) PROVE r[k + 1] = Joined(r[k], s[k + 1])
  <2>1. k + 1 \in 1..n /\ k + 1 \in 0..n /\ k \in 0..n /\ (k + 1) - 1 = k /\ k + 1 # 0 /\ (k + 1 = 1 <=> k = 0)
    OBVIOUS
  <2>2. r[k + 1] = IF k = 0 THEN s[k + 1] ELSE Joined(g[k], s[k + 1])
    BY <1>3, <2>1
  <2>3. k = 0 => r[k] = <<>> /\ Joined(<<>>, s[k + 1]) = s[k + 1]
    BY <1>s, <2>1, JoinedFacts
  <2>4. k # 0 => r[k] = g[k]
    OBVIOUS
  <2> HIDE DEF r
  <2> QED BY <2>2, <2>3, <2>4
<1> HIDE DEF r
<1> QED
  BY <1>7, <1>8, <1>9

-----------------------------------------------------------------------------
(* Messages, and what they become. *)
SaidOf(turns) == [i \in DOMAIN turns |-> Said(turns[i])]
MeantBy(messages) == [i \in DOMAIN messages |-> Meant(messages[i])]
TurnRecords == [role : {"user", "assistant", "system", "tool", "function", "model"}, blocks : Talk]
Ids == CallIds \cup {NoId}

LEMMA MessageFacts ==
  ASSUME NEW m \in Messages
  PROVE  /\ m.role \in {"user", "system", "assistant", "tool"}
         /\ m.text \in BOOLEAN /\ m.image \in BOOLEAN /\ m.calls \in Seq(CallIds) /\ m.id \in Ids
         /\ m.calls # <<>> => m.role = "assistant"
<1>1. <<>> \in Seq(CallIds) /\ NoId \in Ids /\ CallLists \subseteq Seq(CallIds)
  BY RequestAssumption DEF Ids
<1> DEFINE Okay(x) == /\ x.role \in {"user", "system", "assistant", "tool"}
                      /\ x.text \in BOOLEAN /\ x.image \in BOOLEAN /\ x.calls \in Seq(CallIds) /\ x.id \in Ids
                      /\ x.calls # <<>> => x.role = "assistant"
<1>2. ASSUME NEW role \in {"user", "system", "assistant", "tool"}, NEW t \in BOOLEAN, NEW i \in BOOLEAN,
             NEW c \in Seq(CallIds), NEW id \in Ids, c # <<>> => role = "assistant"
      PROVE  Okay(Message(role, t, i, c, id))
  BY <1>2 DEF Message
<1> HIDE DEF Okay
<1> DEFINE users == {Message("user", TRUE, i, <<>>, NoId) : i \in BOOLEAN}
           systems == {Message("system", TRUE, FALSE, <<>>, NoId)}
           talkers == {Message("assistant", TRUE, FALSE, c, NoId) : c \in CallLists \cup {<<>>}}
           callers == {Message("assistant", FALSE, FALSE, c, NoId) : c \in CallLists}
           tools == {Message("tool", TRUE, FALSE, <<>>, i) : i \in Ids}
<1>3. Messages = users \cup systems \cup talkers \cup callers \cup tools
  BY DEF Messages, Ids
<1>4. \A x \in users : Okay(x)
  BY <1>1, <1>2
<1>5. \A x \in systems : Okay(x)
  BY <1>1, <1>2
<1>6. (\A x \in talkers : Okay(x)) /\ \A x \in callers : Okay(x)
  BY <1>1, <1>2
<1>7. \A x \in tools : Okay(x)
  BY <1>1, <1>2
<1>8. Okay(m)
  <2> HIDE DEF users, systems, talkers, callers, tools
  <2> QED BY <1>3, <1>4, <1>5, <1>6, <1>7
<1> QED
  BY <1>8 DEF Okay

LEMMA BlockFacts ==
  ASSUME NEW m \in Messages
  PROVE  /\ TextBlocks(m) = IF m.text THEN <<Block("text", NoId)>> ELSE <<>>
         /\ TextBlocks(m) \in Talk /\ Multimodal(m) \in Talk /\ Spoken(m) \in Talk /\ Meant(m) \in Talk
         /\ \A i \in Ids : <<Block("result", i)>> \in Talk
         /\ SystemTurn \in TurnRecords
<1>1. \A type \in {"text", "image", "call", "result"}, i \in Ids : Block(type, i) \in Blocks
  BY DEF Block, Blocks, Ids
<1>2. NoId \in Ids /\ \A i \in CallIds : i \in Ids
  BY DEF Ids
<1>3. TextBlocks(m) \in Talk
  BY <1>1, <1>2 DEF TextBlocks, Talk
<1>4. Multimodal(m) \in Talk
  <2>1. <<Block("image", NoId)>> \in Talk /\ <<>> \in Talk
    BY <1>1, <1>2 DEF Talk
  <2>2. Multimodal(m) = Joined(TextBlocks(m), IF m.image THEN <<Block("image", NoId)>> ELSE <<>>)
    BY DEF Multimodal, Joined
  <2> QED BY <1>3, <2>1, <2>2, JoinedFacts
<1>5. CallBlocks(m) \in Talk
  <2>1. m.calls \in Seq(CallIds)
    BY MessageFacts
  <2>2. DOMAIN m.calls = 1..Len(m.calls) /\ \A i \in 1..Len(m.calls) : m.calls[i] \in CallIds
    BY <2>1
  <2> QED BY <1>1, <1>2, <2>1, <2>2 DEF CallBlocks, Talk
<1>6. Spoken(m) \in Talk
  <2>1. Joined(TextBlocks(m), CallBlocks(m)) \in Talk
    BY <1>3, <1>5, JoinedFacts
  <2> QED BY <1>4, <2>1 DEF Spoken, Joined
<1>7. \A i \in Ids : <<Block("result", i)>> \in Talk
  BY <1>1 DEF Talk
<1>8. Meant(m) \in Talk
  BY <1>6, <1>7, MessageFacts, JoinedFacts DEF Meant
<1>9. SystemTurn \in TurnRecords
  <2>1. <<Block("text", NoId)>> \in Talk
    BY <1>1, <1>2 DEF Talk
  <2> QED BY <2>1 DEF SystemTurn, Turn, TurnRecords
<1> QED
  BY <1>3, <1>4, <1>6, <1>7, <1>8, <1>9 DEF TextBlocks

(* Only a turn that speaks a message with calls has calls, and ends with   *)
(* them.                                                                    *)
LEMMA CallsSpoken ==
  ASSUME NEW m \in Messages, m.calls # <<>>
  PROVE  /\ DOMAIN CallsIn(Spoken(m)) = DOMAIN m.calls
         /\ \A k \in DOMAIN m.calls : CallsIn(Spoken(m))[k].id = m.calls[k]
<1> DEFINE texts == TextBlocks(m)
           asked == CallBlocks(m)
<1>1. PICK n \in Nat : n = Len(m.calls) /\ DOMAIN m.calls = 1..n /\ n # 0
  BY MessageFacts, EmptySeq
<1>2. /\ asked \in Seq(Blocks) /\ Len(asked) = n
      /\ \A k \in 1..n : asked[k].type = "call" /\ asked[k].id = m.calls[k]
  <2>1. m.calls \in Seq(CallIds) /\ \A k \in 1..n : m.calls[k] \in CallIds
    BY <1>1, MessageFacts
  <2>2. \A k \in 1..n : asked[k] = Block("call", m.calls[k]) /\ asked[k] \in Blocks
    BY <1>1, <2>1 DEF CallBlocks, Block, Blocks
  <2>3. asked = [k \in 1..n |-> asked[k]]
    BY <1>1 DEF CallBlocks
  <2>4. asked \in Seq(Blocks) /\ Len(asked) = n
    <3> HIDE DEF asked
    <3> QED BY <2>2, <2>3
  <2> HIDE DEF asked
  <2> QED BY <2>2, <2>4 DEF Block
<1>3. PICK t \in {0, 1} : t = Len(texts) /\ texts \in Seq(Blocks) /\ \A i \in 1..t : texts[i].type = "text"
  <2>1. texts \in Seq(Blocks)
    BY BlockFacts DEF Talk
  <2>2. m.text => Len(texts) = 1 /\ texts[1].type = "text"
    BY DEF TextBlocks, Block
  <2>3. ~m.text => Len(texts) = 0
    BY DEF TextBlocks
  <2> HIDE DEF texts
  <2> QED BY <2>1, <2>2, <2>3
<1> DEFINE blocks == texts \o asked
<1>4. Spoken(m) = blocks
  BY DEF Spoken
<1> HIDE DEF texts, asked
<1>5. /\ blocks \in Seq(Blocks) /\ Len(blocks) = t + n
      /\ \A i \in 1..t : blocks[i].type = "text"
      /\ \A k \in 1..n : blocks[t + k] = asked[k]
  BY <1>1, <1>2, <1>3
<1> HIDE DEF blocks
<1> DEFINE first == CHOOSE i \in DOMAIN blocks :
                      blocks[i].type = "call" /\ \A j \in 1..(i - 1) : blocks[j].type # "call"
<1>6. first = t + 1
  <2>1. /\ t + 1 \in DOMAIN blocks /\ blocks[t + 1].type = "call"
        /\ \A j \in 1..((t + 1) - 1) : blocks[j].type # "call"
    <3>1. 1 \in 1..n /\ t + 1 \in 1..(t + n) /\ 1..((t + 1) - 1) = 1..t
      BY <1>1
    <3> QED BY <1>2, <1>5, <3>1
  <2>2. /\ first \in DOMAIN blocks /\ blocks[first].type = "call"
        /\ \A j \in 1..(first - 1) : blocks[j].type # "call"
    BY <2>1
  <2> HIDE DEF first
  <2>3. first \in 1..(t + n) /\ t + 1 \in Nat
    BY <1>1, <1>5, <2>2
  <2>4. ~(first < t + 1)
    <3>1. first < t + 1 => first \in 1..t
      BY <2>3
    <3> QED BY <1>5, <2>2, <3>1
  <2>5. ~(t + 1 < first)
    <3>1. t + 1 < first => t + 1 \in 1..(first - 1)
      BY <2>3
    <3> QED BY <2>1, <2>2, <3>1
  <2> QED BY <2>3, <2>4, <2>5
<1>7. CallsIn(blocks) = SubSeq(blocks, t + 1, t + n)
  BY <1>5, <1>6 DEF CallsIn
<1> HIDE DEF first
<1>8. /\ DOMAIN SubSeq(blocks, t + 1, t + n) = 1..n
      /\ \A k \in 1..n : SubSeq(blocks, t + 1, t + n)[k] = blocks[t + k]
  <2>1. t + 1 \in 1..(t + n) /\ t + n \in 1..(t + n) /\ (t + n) - (t + 1) + 1 = n
    BY <1>1
  <2> QED BY <1>1, <1>5, <2>1
<1>9. DOMAIN CallsIn(Spoken(m)) = 1..n /\ \A k \in 1..n : CallsIn(Spoken(m))[k] = asked[k]
  BY <1>4, <1>5, <1>7, <1>8
<1> QED
  BY <1>1, <1>2, <1>9

LEMMA NoCallsSpoken ==
  ASSUME NEW m \in Messages
  PROVE  /\ m.calls = <<>> => ~HasCalls(Spoken(m))
         /\ ~HasCalls(Multimodal(m)) /\ ~HasCalls(TextBlocks(m))
         /\ \A i \in Ids : ~HasCalls(<<Block("result", i)>>)
         /\ ~HasCalls(SystemTurn.blocks)
<1>1. ~HasCalls(TextBlocks(m))
  BY DEF HasCalls, TextBlocks, Block
<1>2. ~HasCalls(Multimodal(m))
  <2> DEFINE texts == TextBlocks(m)
             images == IF m.image THEN <<Block("image", NoId)>> ELSE <<>>
  <2>1. texts \in Seq(Blocks) /\ \A i \in 1..Len(texts) : texts[i].type # "call"
    BY <1>1, BlockFacts DEF Talk, HasCalls
  <2>2. images \in Seq(Blocks) /\ \A i \in 1..Len(images) : images[i].type # "call"
    <3>1. CASE m.image
      <4>1. Block("image", NoId) \in Blocks /\ Block("image", NoId).type = "image"
        BY DEF Block, Blocks
      <4> QED BY <3>1, <4>1
    <3>2. CASE ~m.image
      BY <3>2
    <3> QED BY <3>1, <3>2
  <2>3. Multimodal(m) = texts \o images
    BY DEF Multimodal
  <2> HIDE DEF texts, images
  <2>4. /\ texts \o images \in Seq(Blocks) /\ Len(texts \o images) = Len(texts) + Len(images)
        /\ \A i \in 1..(Len(texts) + Len(images)) :
             (texts \o images)[i] = IF i <= Len(texts) THEN texts[i] ELSE images[i - Len(texts)]
    BY <2>1, <2>2
  <2>5. ASSUME NEW i \in 1..(Len(texts) + Len(images)) PROVE (texts \o images)[i].type # "call"
    <3>1. i <= Len(texts) => i \in 1..Len(texts)
      OBVIOUS
    <3>2. ~(i <= Len(texts)) => i - Len(texts) \in 1..Len(images)
      BY <2>1, <2>2
    <3> QED BY <2>1, <2>2, <2>4, <3>1, <3>2
  <2> QED BY <2>3, <2>4, <2>5 DEF HasCalls
<1>3. m.calls = <<>> => Spoken(m) = Multimodal(m)
  BY DEF Spoken
<1>4. \A i \in Ids : ~HasCalls(<<Block("result", i)>>)
  BY DEF HasCalls, Block
<1>5. ~HasCalls(SystemTurn.blocks)
  BY DEF HasCalls, Block, SystemTurn, Turn
<1> QED
  BY <1>1, <1>2, <1>3, <1>4, <1>5

(* One element more says what it says after all the others.                *)
LEMMA FlattenGrows ==
  ASSUME NEW s \in Seq(Talk), NEW t \in Seq(Talk), Len(t) = Len(s) + 1,
         \A i \in 1..Len(s) : t[i] = s[i]
  PROVE  FlattenSeq(s) \in Talk /\ FlattenSeq(t) = Joined(FlattenSeq(s), t[Len(t)])
<1>1. PICK n \in Nat : n = Len(s)
  OBVIOUS
<1>2. PICK m \in Nat : m = Len(t)
  OBVIOUS
<1>3. PICK f \in [0..n -> Talk] : /\ f[0] = <<>> /\ f[n] = FlattenSeq(s)
                               /\ \A k \in 0..(n - 1) : f[k + 1] = Joined(f[k], s[k + 1])
  BY <1>1, FlattenRuns
<1>4. PICK g \in [0..m -> Talk] : /\ g[0] = <<>> /\ g[m] = FlattenSeq(t)
                               /\ \A k \in 0..(m - 1) : g[k + 1] = Joined(g[k], t[k + 1])
  BY <1>2, FlattenRuns
<1>5. m = n + 1
  BY <1>1, <1>2
<1> DEFINE Good == {k \in 0..n : g[k] = f[k]}
<1>6. 0 \in Good
  BY <1>3, <1>4
<1>7. ASSUME NEW k \in 0..(n - 1), k \in Good PROVE k + 1 \in Good
  <2>1. k \in 0..(m - 1) /\ k + 1 \in 1..n /\ k + 1 \in 0..n /\ t[k + 1] = s[k + 1]
    BY <1>1, <1>5
  <2>2. g[k + 1] = Joined(g[k], t[k + 1]) /\ f[k + 1] = Joined(f[k], s[k + 1])
    BY <1>3, <1>4, <2>1
  <2> QED BY <1>7, <2>1, <2>2
<1>8. 0..n \subseteq Good
  <2> HIDE DEF Good
  <2> QED BY <1>6, <1>7, Inducts
<1>9. g[n] = f[n] /\ n \in 0..(m - 1) /\ n \in 0..n
  BY <1>5, <1>8
<1> QED
  BY <1>2, <1>3, <1>4, <1>5, <1>9

(* An instruction that says nothing of its own may stand before. *)
LEMMA FlattenSkips ==
  ASSUME NEW s \in Seq(Talk), NEW t \in Seq(Talk), NEW p \in {0, 1}, Len(t) = Len(s) + p,
         \A i \in 1..Len(s) : t[i + p] = s[i], p = 1 => t[1] = <<>>
  PROVE  FlattenSeq(t) = FlattenSeq(s)
<1>1. PICK n \in Nat : n = Len(s)
  OBVIOUS
<1>2. PICK m \in Nat : m = Len(t)
  OBVIOUS
<1>3. PICK f \in [0..n -> Talk] : /\ f[0] = <<>> /\ f[n] = FlattenSeq(s)
                               /\ \A k \in 0..(n - 1) : f[k + 1] = Joined(f[k], s[k + 1])
  BY <1>1, FlattenRuns
<1>4. PICK g \in [0..m -> Talk] : /\ g[0] = <<>> /\ g[m] = FlattenSeq(t)
                               /\ \A k \in 0..(m - 1) : g[k + 1] = Joined(g[k], t[k + 1])
  BY <1>2, FlattenRuns
<1>5. m = n + p
  BY <1>1, <1>2
<1> DEFINE Good == {k \in 0..n : g[k + p] = f[k]}
<1>6. 0 \in Good
  <2>1. CASE p = 0
    BY <1>3, <1>4, <2>1
  <2>2. CASE p = 1
    <3>1. 0 \in 0..(m - 1) /\ t[0 + 1] = <<>>
      BY <1>5, <2>2
    <3>2. g[0 + 1] = Joined(g[0], t[0 + 1])
      BY <1>4, <3>1
    <3>3. g[1] = <<>>
      BY <1>4, <3>1, <3>2, JoinedFacts
    <3> QED BY <1>3, <2>2, <3>3
  <2> QED BY <2>1, <2>2
<1>7. ASSUME NEW k \in 0..(n - 1), k \in Good PROVE k + 1 \in Good
  <2>1. k + p \in 0..(m - 1) /\ k + 1 \in 1..n /\ k + 1 \in 0..n /\ t[(k + p) + 1] = s[k + 1]
    <3>1. (k + p) + 1 = (k + 1) + p
      OBVIOUS
    <3>2. k + 1 \in 1..n
      OBVIOUS
    <3> QED BY <1>1, <1>5, <3>1, <3>2
  <2>2. g[(k + p) + 1] = Joined(g[k + p], t[(k + p) + 1]) /\ f[k + 1] = Joined(f[k], s[k + 1])
    BY <1>3, <1>4, <2>1
  <2>3. (k + p) + 1 = (k + 1) + p
    OBVIOUS
  <2> QED BY <1>7, <2>1, <2>2, <2>3
<1>8. 0..n \subseteq Good
  <2> HIDE DEF Good
  <2> QED BY <1>6, <1>7, Inducts
<1>9. g[n + p] = f[n]
  BY <1>8
<1> QED
  BY <1>3, <1>4, <1>5, <1>9

TurnLists == Seq(TurnRecords)
More(turns, t) == Append(turns, t)
FlatSaid(turns) == FlattenSeq(SaidOf(turns))

LEMMA SaidFacts ==
  /\ <<>> \in TurnLists /\ FlatSaid(<<>>) = <<>>
  /\ \A turns \in TurnLists, t \in TurnRecords :
       /\ More(turns, t) \in TurnLists /\ Len(More(turns, t)) = Len(turns) + 1
       /\ \A i \in 1..Len(turns) : More(turns, t)[i] = turns[i]
       /\ More(turns, t)[Len(turns) + 1] = t
       /\ FlatSaid(turns) \in Talk
       /\ FlatSaid(More(turns, t)) = Joined(FlatSaid(turns), Said(t))
<1>1. <<>> \in TurnLists /\ FlatSaid(<<>>) = <<>>
  <2>1. SaidOf(<<>>) = <<>>
    BY DEF SaidOf
  <2>2. <<>> \in Seq(Talk) /\ Len(<<>>) = 0
    OBVIOUS
  <2>3. FlattenSeq(SaidOf(<<>>)) = <<>>
    BY <2>1, <2>2 DEF FlattenSeq
  <2> QED BY <2>3 DEF TurnLists, FlatSaid
<1>t. \A t \in TurnRecords : Said(t) \in Talk
  BY JoinedFacts DEF Said, TurnRecords
<1>s. ASSUME NEW turns \in TurnLists
      PROVE  /\ SaidOf(turns) \in Seq(Talk) /\ Len(SaidOf(turns)) = Len(turns)
             /\ \A i \in 1..Len(turns) : SaidOf(turns)[i] = Said(turns[i])
  <2>1. PICK n \in Nat : n = Len(turns) /\ DOMAIN turns = 1..n /\ \A i \in 1..n : turns[i] \in TurnRecords
    BY DEF TurnLists
  <2>2. SaidOf(turns) = [i \in 1..n |-> Said(turns[i])]
    BY <2>1 DEF SaidOf
  <2> QED BY <1>t, <2>1, <2>2
<1>2. ASSUME NEW turns \in TurnLists, NEW t \in TurnRecords
      PROVE  /\ More(turns, t) \in TurnLists /\ Len(More(turns, t)) = Len(turns) + 1
             /\ \A i \in 1..Len(turns) : More(turns, t)[i] = turns[i]
             /\ More(turns, t)[Len(turns) + 1] = t
  BY DEF More, TurnLists
<1>3. ASSUME NEW turns \in TurnLists, NEW t \in TurnRecords
      PROVE  /\ FlatSaid(turns) \in Talk
             /\ FlatSaid(More(turns, t)) = Joined(FlatSaid(turns), Said(t))
  <2>0. PICK n \in Nat : n = Len(turns)
    BY DEF TurnLists
  <2>1. PICK u \in TurnLists : u = More(turns, t)
    BY <1>2
  <2>2. Len(u) = n + 1 /\ (\A i \in 1..n : u[i] = turns[i]) /\ u[n + 1] = t
    BY <1>2, <2>0, <2>1
  <2>3. PICK a \in Seq(Talk) : a = SaidOf(turns)
    BY <1>s
  <2>4. PICK b \in Seq(Talk) : b = SaidOf(u)
    BY <1>s
  <2>5. Len(a) = n /\ Len(b) = n + 1 /\ (\A i \in 1..n : b[i] = a[i]) /\ b[n + 1] = Said(t)
    <3>1. n + 1 \in 1..(n + 1) /\ \A i \in 1..n : i \in 1..(n + 1)
      OBVIOUS
    <3> QED BY <1>s, <2>0, <2>2, <2>3, <2>4, <3>1
  <2>6. FlattenSeq(a) \in Talk /\ FlattenSeq(b) = Joined(FlattenSeq(a), b[Len(b)])
    BY <2>5, FlattenGrows
  <2> QED BY <2>1, <2>3, <2>4, <2>5, <2>6 DEF FlatSaid
<1> QED
  BY <1>1, <1>2, <1>3

-----------------------------------------------------------------------------
(* What a conversation says when its calls are answered. *)
LEMMA ResultsFacts ==
  ASSUME NEW n \in Nat, NEW c \in Seq(Messages), n = Len(c), NEW q \in 1..n
  PROVE  \E l \in 0..(n - q) :
           /\ DOMAIN ResultsAfter(c, q) = 1..l
           /\ \A x \in 1..l : c[q + x].role = "tool" /\ ResultsAfter(c, q)[x] = c[q + x].id
           /\ q + l < n => c[q + l + 1].role # "tool"
<1> DEFINE Okay(j) == /\ \A k \in (q + 1)..j : c[k].role = "tool"
                      /\ j < Len(c) => c[j + 1].role # "tool"
           tools == {j \in q..n : \A k \in (q + 1)..j : c[k].role = "tool"}
           last == CHOOSE j \in q..Len(c) : Okay(j)
<1>1. \E j \in q..n : Okay(j)
  <2>1. q \in tools /\ tools \subseteq 0..n
    OBVIOUS
  <2> HIDE DEF tools
  <2>2. PICK j \in tools : \A x \in tools : x <= j
    BY <2>1, MaxExists
  <2>3. j \in q..n /\ \A k \in (q + 1)..j : c[k].role = "tool"
    BY <2>2 DEF tools
  <2>4. j < n => c[j + 1].role # "tool"
    <3> SUFFICES ASSUME j < n, c[j + 1].role = "tool" PROVE FALSE
      OBVIOUS
    <3>1. j + 1 \in tools
      <4>1. \A k \in (q + 1)..(j + 1) : k = j + 1 \/ k \in (q + 1)..j
        BY <2>3
      <4> QED BY <2>3, <4>1 DEF tools
    <3> QED BY <2>2, <2>3, <3>1
  <2> QED BY <2>3, <2>4
<1>2. last \in q..n /\ Okay(last)
  <2> HIDE DEF Okay
  <2> QED BY <1>1
<1>3. ResultsAfter(c, q) = [k \in 1..(last - q) |-> c[q + k].id]
  BY DEF ResultsAfter
<1> HIDE DEF last
<1>4. PICK l \in 0..(n - q) : last = q + l
  <2>1. last - q \in 0..(n - q) /\ last = q + (last - q)
    BY <1>2
  <2> QED BY <2>1
<1>5. last - q = l
  BY <1>4
<1>6. \A x \in 1..l : q + x \in (q + 1)..(q + l)
  OBVIOUS
<1> QED
  BY <1>2, <1>3, <1>4, <1>5, <1>6

(* In an answered conversation the results of calls come right after them. *)
LEMMA AnsweredFacts ==
  ASSUME NEW n \in Nat, NEW c \in Seq(Messages), n = Len(c), Answered(c)
  PROVE  /\ \A q \in 1..n : c[q].calls # <<>> =>
              \E l \in 1..(n - q) :
                /\ DOMAIN c[q].calls = 1..l
                /\ \A x \in 1..l : c[q + x].role = "tool" /\ c[q + x].id = c[q].calls[x]
                /\ q + l < n => c[q + l + 1].role # "tool"
         /\ \A i \in 1..n : c[i].role = "tool" =>
              \E j \in 1..(i - 1) : c[j].calls # <<>> /\ \A k \in (j + 1)..i : c[k].role = "tool"
<1>0. DOMAIN c = 1..n /\ \A i \in 1..n : c[i] \in Messages
  OBVIOUS
<1>1. ASSUME NEW q \in 1..n, c[q].calls # <<>>
      PROVE  \E l \in 1..(n - q) :
               /\ DOMAIN c[q].calls = 1..l
               /\ \A x \in 1..l : c[q + x].role = "tool" /\ c[q + x].id = c[q].calls[x]
               /\ q + l < n => c[q + l + 1].role # "tool"
  <2>1. ResultsAfter(c, q) = c[q].calls
    BY <1>0, <1>1 DEF Answered
  <2>2. PICK l \in 0..(n - q) :
          /\ DOMAIN ResultsAfter(c, q) = 1..l
          /\ \A x \in 1..l : c[q + x].role = "tool" /\ ResultsAfter(c, q)[x] = c[q + x].id
          /\ q + l < n => c[q + l + 1].role # "tool"
    BY ResultsFacts
  <2>3. l # 0
    <3>1. c[q].calls \in Seq(CallIds)
      BY <1>0, MessageFacts
    <3>2. Len(c[q].calls) # 0
      BY <1>1, <3>1, EmptySeq
    <3> QED BY <2>1, <2>2, <3>1, <3>2
  <2>4. l \in 1..(n - q)
    BY <2>3
  <2> QED BY <2>1, <2>2, <2>4
<1> QED
  BY <1>0, <1>1 DEF Answered
(* What the messages mean grows by what the next one means.                *)
LEMMA MeantRuns ==
  ASSUME NEW n \in Nat, NEW c \in Seq(Messages), n = Len(c)
  PROVE  \E f \in [0..n -> Talk] :
           /\ f[0] = <<>> /\ f[n] = FlattenSeq(MeantBy(c))
           /\ \A k \in 0..(n - 1) : f[k + 1] = Joined(f[k], Meant(c[k + 1]))
<1>1. DOMAIN c = 1..n /\ \A i \in 1..n : c[i] \in Messages
  OBVIOUS
<1>2. \A i \in 1..n : Meant(c[i]) \in Talk
  BY <1>1, BlockFacts
<1>3. PICK s \in Seq(Talk) : s = MeantBy(c) /\ Len(s) = n /\ \A i \in 1..n : s[i] = Meant(c[i])
  <2>1. MeantBy(c) = [i \in 1..n |-> Meant(c[i])]
    BY <1>1 DEF MeantBy
  <2> QED BY <1>2, <2>1
<1>4. PICK f \in [0..n -> Talk] : /\ f[0] = <<>> /\ f[n] = FlattenSeq(s)
                               /\ \A k \in 0..(n - 1) : f[k + 1] = Joined(f[k], s[k + 1])
  BY <1>3, FlattenRuns
<1>5. \A k \in 0..(n - 1) : k + 1 \in 1..n
  OBVIOUS
<1> QED
  BY <1>3, <1>4, <1>5

-----------------------------------------------------------------------------
(* Gemini: a turn for every message but the instructions. *)
LEMMA GoogleTurnFacts ==
  ASSUME NEW m \in Messages, m.role # "system"
  PROVE  /\ GoogleTurn(m) \in TurnRecords
         /\ Said(GoogleTurn(m)) = Meant(m)
         /\ HasCalls(GoogleTurn(m).blocks) => m.calls # <<>> /\ GoogleTurn(m).blocks = Spoken(m)
         /\ m.role = "tool" => GoogleTurn(m).blocks = <<Block("result", m.id)>>
<1>1. m.role \in {"user", "assistant", "tool"} /\ m.id \in Ids /\ (m.calls # <<>> => m.role = "assistant")
  BY MessageFacts
<1>2. CASE m.role = "tool"
  <2>1. GoogleTurn(m) = Turn("function", <<Block("result", m.id)>>)
    BY <1>2 DEF GoogleTurn
  <2>2. Meant(m) = <<Block("result", m.id)>>
    BY <1>2 DEF Meant
  <2>3. <<Block("result", m.id)>> \in Talk /\ ~HasCalls(<<Block("result", m.id)>>)
    BY <1>1, BlockFacts, NoCallsSpoken
  <2> QED BY <2>1, <2>2, <2>3 DEF Turn, TurnRecords, Said
<1>3. CASE m.role = "assistant"
  <2>1. GoogleTurn(m) = Turn("model", Spoken(m)) /\ Meant(m) = Spoken(m)
    BY <1>3 DEF GoogleTurn, Meant
  <2>2. Spoken(m) \in Talk /\ (m.calls = <<>> => ~HasCalls(Spoken(m)))
    BY BlockFacts, NoCallsSpoken
  <2> QED BY <1>3, <2>1, <2>2 DEF Turn, TurnRecords, Said
<1>4. CASE m.role = "user"
  <2>1. GoogleTurn(m) = Turn("user", Multimodal(m)) /\ Meant(m) = Spoken(m)
    BY <1>4 DEF GoogleTurn, Meant
  <2>2. Multimodal(m) \in Talk /\ ~HasCalls(Multimodal(m)) /\ Spoken(m) = Multimodal(m)
    BY <1>1, <1>4, BlockFacts, NoCallsSpoken DEF Spoken
  <2> QED BY <1>4, <2>1, <2>2 DEF Turn, TurnRecords, Said
<1> QED
  BY <1>1, <1>2, <1>3, <1>4

LEMMA GoogleKeeps == \A a \in TurnLists, m \in Messages : GoogleStep(a, m) \in TurnLists
<1> SUFFICES ASSUME NEW a \in TurnLists, NEW m \in Messages PROVE GoogleStep(a, m) \in TurnLists
  OBVIOUS
<1>1. m.role # "system" => GoogleStep(a, m) = More(a, GoogleTurn(m)) /\ More(a, GoogleTurn(m)) \in TurnLists
  BY GoogleTurnFacts, SaidFacts DEF GoogleStep, More
<1> QED BY <1>1 DEF GoogleStep

(* The calls of a turn and their results, as far as the conversation is    *)
(* told: the message at q speaks in the turn at i.                         *)
AnsweredIn(turns, i, c, q, k) ==
  /\ c[q].calls # <<>> /\ turns[i].blocks = Spoken(c[q])
  /\ \A x \in DOMAIN c[q].calls : q + x <= k =>
       i + x <= Len(turns) /\ turns[i + x].blocks = <<Block("result", c[q].calls[x])>>
  /\ \A x \in {0} \cup DOMAIN c[q].calls : k = q + x => Len(turns) = i + x
CallsFollowed(turns, c, k) ==
  \A i \in 1..Len(turns) : HasCalls(turns[i].blocks) => \E q \in 1..k : AnsweredIn(turns, i, c, q, k)

(* Message by message, the turns keep the results after their calls.       *)
LEMMA GoogleFollows ==
  ASSUME NEW n \in Nat, NEW c \in Seq(Messages), n = Len(c), Answered(c),
         NEW k \in 0..(n - 1), NEW turns \in TurnLists, CallsFollowed(turns, c, k),
         NEW t \in TurnLists, t = GoogleStep(turns, c[k + 1])
  PROVE  CallsFollowed(t, c, k + 1)
<1> DEFINE m == c[k + 1]
<1>0. k + 1 \in 1..n /\ m \in Messages /\ \A i \in 1..n : c[i] \in Messages
  OBVIOUS
<1>l. PICK s \in Nat : s = Len(turns)
  BY DEF TurnLists
<1>r. PICK z \in 1..n : z = k + 1
  BY <1>0
<1>1. ASSUME NEW q \in 1..k, c[q].calls # <<>>
      PROVE  \E l \in 1..(n - q) :
               /\ DOMAIN c[q].calls = 1..l
               /\ \A x \in 1..l : z = q + x => m.role = "tool" /\ m.id = c[q].calls[x]
  <2>1. q \in 1..n
    OBVIOUS
  <2>2. PICK l \in 1..(n - q) :
          /\ DOMAIN c[q].calls = 1..l
          /\ \A x \in 1..l : c[q + x].role = "tool" /\ c[q + x].id = c[q].calls[x]
          /\ q + l < n => c[q + l + 1].role # "tool"
    <3> HIDE DEF m
    <3> QED BY <1>1, <2>1, AnsweredFacts, ZenonT(30)
  <2> QED BY <1>r, <2>2
<1>2. CASE m.role = "system"
  <2>1. t = turns
    BY <1>2 DEF GoogleStep
  <2>2. ASSUME NEW i \in 1..s, HasCalls(turns[i].blocks) PROVE \E q \in 1..z : AnsweredIn(turns, i, c, q, z)
    <3>1. PICK q \in 1..k : AnsweredIn(turns, i, c, q, k)
      BY <1>l, <2>2 DEF CallsFollowed
    <3>0. c[q].calls # <<>>
      BY <3>1 DEF AnsweredIn
    <3>a. PICK l \in Nat : /\ DOMAIN c[q].calls = 1..l
                           /\ \A x \in 1..l : z = q + x => m.role = "tool" /\ m.id = c[q].calls[x]
      <4>1. PICK l \in 1..(n - q) : /\ DOMAIN c[q].calls = 1..l
                                    /\ \A x \in 1..l : z = q + x => m.role = "tool" /\ m.id = c[q].calls[x]
        BY <1>1, <3>0
      <4>2. l \in Nat
        OBVIOUS
      <4> HIDE DEF m
      <4> QED BY <4>1, <4>2
    <3>2. DOMAIN c[q].calls = 1..l /\ \A x \in 1..l : z # q + x
      <4> HIDE DEF m
      <4> QED BY <1>2, <3>a
    <3>3. AnsweredIn(turns, i, c, q, z)
      <4>1. \A x \in 1..l : q + x <= z => q + x <= k
        <5>1. \A x \in 1..l : z # q + x
          BY <3>2
        <5>2. ASSUME NEW x \in 1..l, q + x <= z PROVE q + x <= k
          <6>1. z # q + x /\ x \in Nat /\ q \in Nat /\ k \in Nat
            BY <5>1
          <6> HIDE DEF m
          <6> QED BY <1>r, <5>2, <6>1
        <5> QED BY <5>2
      <4>2. \A x \in {0} \cup 1..l : z # q + x
        BY <1>r, <3>2
      <4> QED BY <3>1, <3>2, <4>1, <4>2 DEF AnsweredIn
    <3> QED BY <1>r, <3>3
  <2> QED BY <1>l, <1>r, <2>1, <2>2 DEF CallsFollowed
<1>3. CASE m.role # "system"
  <2>1. t = More(turns, GoogleTurn(m)) /\ GoogleTurn(m) \in TurnRecords
    BY <1>0, <1>3, GoogleTurnFacts DEF GoogleStep, More
  <2>2. Len(t) = s + 1 /\ (\A i \in 1..s : t[i] = turns[i]) /\ t[s + 1] = GoogleTurn(m)
    BY <1>l, <2>1, SaidFacts
  <2>3. ASSUME NEW i \in 1..s, HasCalls(t[i].blocks) PROVE \E q \in 1..z : AnsweredIn(t, i, c, q, z)
    <3>0. t[i] = turns[i]
      BY <2>2
    <3>1. PICK q \in 1..k : AnsweredIn(turns, i, c, q, k)
      BY <1>l, <2>3, <3>0 DEF CallsFollowed
    <3>2. PICK l \in Nat : /\ DOMAIN c[q].calls = 1..l
                           /\ \A x \in 1..l : z = q + x => m.role = "tool" /\ m.id = c[q].calls[x]
      BY <1>1, <3>1 DEF AnsweredIn
    <3>3. ASSUME NEW x \in 1..l, q + x <= z
          PROVE  i + x <= Len(t) /\ t[i + x].blocks = <<Block("result", c[q].calls[x])>>
      <4>1. CASE q + x <= k
        <5>1. i + x <= s /\ turns[i + x].blocks = <<Block("result", c[q].calls[x])>>
          BY <1>l, <3>1, <3>2, <4>1 DEF AnsweredIn
        <5>2. i + x \in 1..s
          BY <5>1
        <5> QED BY <2>2, <5>1, <5>2
      <4>2. CASE ~(q + x <= k)
        <5>1. z = q + x /\ k = q + (x - 1) /\ x - 1 \in {0} \cup 1..l
          BY <1>r, <3>3, <4>2
        <5>2. s = i + (x - 1)
          BY <1>l, <3>1, <3>2, <5>1 DEF AnsweredIn
        <5>3. i + x = s + 1
          BY <5>2
        <5>4. m.role = "tool" /\ m.id = c[q].calls[x]
          BY <3>2, <5>1
        <5>5. GoogleTurn(m).blocks = <<Block("result", m.id)>>
          BY <1>0, <5>4, GoogleTurnFacts
        <5> HIDE DEF m
        <5> QED BY <2>2, <5>3, <5>4, <5>5
      <4> QED BY <4>1, <4>2
    <3>4. ASSUME NEW x \in {0} \cup 1..l, z = q + x PROVE Len(t) = i + x
      <4>1. x # 0 /\ k = q + (x - 1) /\ x - 1 \in {0} \cup 1..l
        BY <1>r, <3>4
      <4>2. s = i + (x - 1)
        BY <1>l, <3>1, <3>2, <4>1 DEF AnsweredIn
      <4> QED BY <2>2, <4>2
    <3>5. AnsweredIn(t, i, c, q, z)
      BY <3>0, <3>1, <3>2, <3>3, <3>4 DEF AnsweredIn
    <3> QED BY <1>r, <3>5
  <2>4. ASSUME HasCalls(t[s + 1].blocks) PROVE AnsweredIn(t, s + 1, c, z, z)
    <3>1. m.calls # <<>> /\ t[s + 1].blocks = Spoken(m)
      BY <1>0, <1>3, <2>2, <2>4, GoogleTurnFacts
    <3>2. PICK l \in Nat : DOMAIN m.calls = 1..l
      BY <1>0, MessageFacts
    <3>3. m = c[z]
      BY <1>r
    <3>4. \A x \in 1..l : ~(z + x <= z)
      OBVIOUS
    <3>5. \A x \in {0} \cup 1..l : z = z + x => x = 0
      OBVIOUS
    <3>6. (s + 1) + 0 = s + 1
      OBVIOUS
    <3> HIDE DEF m
    <3> QED BY <2>2, <3>1, <3>2, <3>3, <3>4, <3>5, <3>6 DEF AnsweredIn
  <2>5. ASSUME NEW i \in 1..(s + 1), HasCalls(t[i].blocks) PROVE \E q \in 1..z : AnsweredIn(t, i, c, q, z)
    <3>1. i = s + 1 \/ i \in 1..s
      OBVIOUS
    <3>2. z \in 1..z
      OBVIOUS
    <3> QED BY <2>3, <2>4, <2>5, <3>1, <3>2
  <2> QED BY <1>r, <2>2, <2>5 DEF CallsFollowed
<1> QED
  BY <1>2, <1>3
(* The fold that GoogleTurns is.                                           *)
GoogleOf(g, b, s) ==
  g = [p \in Subsets(Len(s)) |-> IF p = {} THEN b ELSE GoogleStep(g[Rest(p)], s[Max(p)])]

LEMMA GoogleRuns ==
  ASSUME NEW n \in Nat, NEW s \in Seq(Messages), n = Len(s), NEW b \in TurnLists
  PROVE  \E r \in [0..n -> TurnLists] :
           /\ r[0] = b /\ r[n] = FoldLeft(GoogleStep, b, s)
           /\ \A k \in 0..(n - 1) : r[k + 1] = GoogleStep(r[k], s[k + 1])
<1> DEFINE h == [x \in TurnLists \X (1..n) |-> GoogleStep(x[1], s[x[2]])]
<1>1. DOMAIN s = 1..n /\ \A i \in 1..n : s[i] \in Messages
  OBVIOUS
<1>2. \A a \in TurnLists : \A i \in 1..n : Take(h, a, i) = GoogleStep(a, s[i])
  BY DEF Take
<1>3. \A a \in TurnLists : \A i \in 1..n : GoogleStep(a, s[i]) \in TurnLists
  BY <1>1, GoogleKeeps
<1> HIDE DEF h
<1>t. \A a \in TurnLists : \A i \in 1..n : Take(h, a, i) \in TurnLists
  BY <1>2, <1>3
<1>4. PICK f \in [Subsets(n) -> TurnLists] : FoldsOn(f, h, b, n)
  BY <1>t, FoldExists
<1> DEFINE taken(g, p) == IF p = {} THEN b ELSE GoogleStep(g[Rest(p)], s[Max(p)])
<1>5. GoogleOf(f, b, s)
  <2>1. \A p \in Subsets(n) : f[p] = taken(f, p)
    <3> TAKE p \in Subsets(n)
    <3>1. f[{}] = b /\ (p # {} => f[p] = Take(h, f[Rest(p)], Max(p)))
      BY <1>4, FoldAt
    <3>2. p # {} => Max(p) \in 1..n /\ Rest(p) \in Subsets(n)
      BY MaxIn
    <3>3. p # {} => Take(h, f[Rest(p)], Max(p)) = GoogleStep(f[Rest(p)], s[Max(p)])
      BY <1>2, <1>4, <3>2
    <3> QED BY <3>1, <3>3
  <2> HIDE DEF taken
  <2>2. f = [p \in Subsets(n) |-> taken(f, p)]
    BY <1>4, <2>1
  <2> QED BY <2>2 DEF taken, GoogleOf
<1> DEFINE g == CHOOSE g : GoogleOf(g, b, s)
<1>6. GoogleOf(g, b, s) /\ FoldLeft(GoogleStep, b, s) = g[UpTo(n)]
  <2>1. GoogleOf(g, b, s)
    BY <1>5
  <2>2. FoldLeft(GoogleStep, b, s) = g[DOMAIN s]
    BY <1>1 DEF FoldLeft, MapThenFoldSet, GoogleOf, Subsets, Rest
  <2> QED BY <1>1, <2>1, <2>2 DEF UpTo
<1> HIDE DEF g
<1> DEFINE V == TurnLists \cup {g[p] : p \in Subsets(n)}
           k == [x \in V \X (1..n) |-> GoogleStep(x[1], s[x[2]])]
<1>7. \A a \in V : \A i \in 1..n : Take(k, a, i) = GoogleStep(a, s[i])
  <2> HIDE DEF V
  <2> QED BY DEF Take
<1>8. FoldsOn(g, k, b, n)
  <2> DEFINE stepped(p) == IF p = {} THEN b ELSE Take(k, g[Rest(p)], Max(p))
  <2>1. g = [p \in Subsets(n) |-> taken(g, p)]
    BY <1>6 DEF GoogleOf
  <2>2. \A p \in Subsets(n) : taken(g, p) = stepped(p)
    <3> TAKE p \in Subsets(n)
    <3>1. p # {} => Max(p) \in 1..n /\ Rest(p) \in Subsets(n)
      BY MaxIn
    <3>2. p # {} => g[Rest(p)] \in V
      BY <3>1
    <3>3. p # {} => Take(k, g[Rest(p)], Max(p)) = GoogleStep(g[Rest(p)], s[Max(p)])
      <4> HIDE DEF V, k
      <4> QED BY <1>7, <3>1, <3>2
    <3> HIDE DEF V, k
    <3> QED BY <3>3
  <2> HIDE DEF taken, stepped
  <2>3. g = [p \in Subsets(n) |-> stepped(p)]
    BY <2>1, <2>2
  <2> HIDE DEF k
  <2> QED BY <2>3 DEF stepped, FoldsOn
<1>9. \A a \in TurnLists : \A i \in 1..n : Take(k, a, i) = GoogleStep(a, s[i]) /\ Take(k, a, i) \in TurnLists
  <2>1. \A a \in TurnLists : a \in V
    OBVIOUS
  <2> HIDE DEF V, k
  <2> QED BY <1>3, <1>7, <2>1
<1> HIDE DEF k
<1>w. Within(k, TurnLists, n)
  BY <1>9 DEF Within
<1>10. PICK r \in [0..n -> TurnLists] : r[0] = b /\ r[n] = g[UpTo(n)] /\ Goes(r, k, n)
  BY <1>8, <1>w, FoldRuns
<1>11. ASSUME NEW i \in 0..(n - 1) PROVE r[i + 1] = GoogleStep(r[i], s[i + 1])
  <2>1. r[i] \in TurnLists /\ i + 1 \in 1..n
    BY <1>10
  <2> QED BY <1>9, <1>10, <2>1 DEF Goes
<1> QED
  BY <1>6, <1>10, <1>11

(* The turns keep the answers with their calls: *)
AnswersKept(turns, c) ==
  /\ FlatSaid(turns) = FlattenSeq(MeantBy(c))
  /\ \A i \in 1..Len(turns) : HasCalls(turns[i].blocks) =>
       \A k \in DOMAIN CallsIn(turns[i].blocks) :
         /\ i + k \in 1..Len(turns)
         /\ turns[i + k].blocks = <<Block("result", CallsIn(turns[i].blocks)[k].id)>>

LEMMA GoogleAnswers ==
  ASSUME NEW n \in Nat, NEW c \in Seq(Messages), n = Len(c), Answered(c)
  PROVE  GoogleTurns(c) \in TurnLists /\ AnswersKept(GoogleTurns(c), c)
<1>1. PICK r \in [0..n -> TurnLists] : /\ r[0] = <<>> /\ r[n] = GoogleTurns(c)
                                       /\ \A k \in 0..(n - 1) : r[k + 1] = GoogleStep(r[k], c[k + 1])
  BY SaidFacts, GoogleRuns DEF GoogleTurns
<1>2. PICK f \in [0..n -> Talk] : /\ f[0] = <<>> /\ f[n] = FlattenSeq(MeantBy(c))
                               /\ \A k \in 0..(n - 1) : f[k + 1] = Joined(f[k], Meant(c[k + 1]))
  BY MeantRuns
<1> DEFINE Good == {k \in 0..n : FlatSaid(r[k]) = f[k] /\ CallsFollowed(r[k], c, k)}
<1>3. 0 \in Good
  <2>1. CallsFollowed(<<>>, c, 0)
    BY DEF CallsFollowed
  <2> QED BY <1>1, <1>2, <2>1, SaidFacts
<1>4. ASSUME NEW k \in 0..(n - 1), k \in Good PROVE k + 1 \in Good
  <2>1. k + 1 \in 0..n /\ k + 1 \in 1..n /\ k \in 0..n
    OBVIOUS
  <2>2. r[k] \in TurnLists /\ r[k + 1] \in TurnLists /\ c[k + 1] \in Messages /\ f[k] \in Talk
    BY <1>1, <1>2, <2>1
  <2>3. r[k + 1] = GoogleStep(r[k], c[k + 1])
    BY <1>1
  <2>4. CallsFollowed(r[k + 1], c, k + 1)
    BY <1>4, <2>2, <2>3, GoogleFollows
  <2>5. FlatSaid(r[k + 1]) = f[k + 1]
    <3>1. f[k + 1] = Joined(f[k], Meant(c[k + 1])) /\ FlatSaid(r[k]) = f[k]
      BY <1>2, <1>4
    <3>2. CASE c[k + 1].role = "system"
      <4>1. r[k + 1] = r[k] /\ Meant(c[k + 1]) = <<>>
        BY <2>3, <3>2 DEF GoogleStep, Meant
      <4> QED BY <2>2, <3>1, <4>1, JoinedFacts
    <3>3. CASE c[k + 1].role # "system"
      <4>1. r[k + 1] = More(r[k], GoogleTurn(c[k + 1]))
        BY <2>3, <3>3 DEF GoogleStep, More
      <4>2. GoogleTurn(c[k + 1]) \in TurnRecords /\ Said(GoogleTurn(c[k + 1])) = Meant(c[k + 1])
        BY <2>2, <3>3, GoogleTurnFacts
      <4> QED BY <2>2, <3>1, <4>1, <4>2, SaidFacts
    <3> QED BY <3>2, <3>3
  <2> QED BY <2>1, <2>4, <2>5
<1>5. 0..n \subseteq Good
  <2> HIDE DEF Good
  <2> QED BY <1>3, <1>4, Inducts
<1>6. PICK turns \in TurnLists : turns = GoogleTurns(c) /\ turns = r[n]
  BY <1>1
<1>7. FlatSaid(turns) = FlattenSeq(MeantBy(c)) /\ CallsFollowed(turns, c, n)
  BY <1>2, <1>5, <1>6
<1>8. ASSUME NEW i \in 1..Len(turns), HasCalls(turns[i].blocks), NEW k \in DOMAIN CallsIn(turns[i].blocks)
      PROVE  /\ i + k \in 1..Len(turns)
             /\ turns[i + k].blocks = <<Block("result", CallsIn(turns[i].blocks)[k].id)>>
  <2>1. PICK q \in 1..n : AnsweredIn(turns, i, c, q, n)
    BY <1>7, <1>8 DEF CallsFollowed
  <2>2. c[q] \in Messages /\ c[q].calls # <<>> /\ turns[i].blocks = Spoken(c[q])
    BY <2>1 DEF AnsweredIn
  <2>3. PICK l \in 1..(n - q) : DOMAIN c[q].calls = 1..l
    BY <2>2, AnsweredFacts
  <2>4. k \in 1..l /\ CallsIn(turns[i].blocks)[k].id = c[q].calls[k]
    BY <1>8, <2>2, <2>3, CallsSpoken
  <2>5. q + k <= n
    BY <2>3, <2>4
  <2>6. i + k <= Len(turns) /\ turns[i + k].blocks = <<Block("result", c[q].calls[k])>>
    BY <2>1, <2>3, <2>4, <2>5 DEF AnsweredIn
  <2>7. i + k \in 1..Len(turns)
    BY <2>4, <2>6
  <2> QED BY <2>4, <2>6, <2>7
<1> QED
  BY <1>6, <1>7, <1>8 DEF AnswersKept
-----------------------------------------------------------------------------
(* OpenAI and OpenRouter: a turn for every message, after the prompt. *)
LEMMA OpenAITurnFacts ==
  ASSUME NEW m \in Messages
  PROVE  /\ OpenAITurn(m) \in TurnRecords
         /\ Said(OpenAITurn(m)) = Meant(m)
         /\ HasCalls(OpenAITurn(m).blocks) => m.calls # <<>> /\ OpenAITurn(m).blocks = Spoken(m)
         /\ m.role = "tool" => OpenAITurn(m).blocks = <<Block("result", m.id)>>
<1>1. m.role \in {"user", "assistant", "tool", "system"} /\ m.id \in Ids
  BY MessageFacts
<1>2. CASE m.role = "tool"
  <2>1. OpenAITurn(m) = Turn("tool", <<Block("result", m.id)>>)
    BY <1>2 DEF OpenAITurn
  <2>2. Meant(m) = <<Block("result", m.id)>>
    BY <1>2 DEF Meant
  <2>3. <<Block("result", m.id)>> \in Talk /\ ~HasCalls(<<Block("result", m.id)>>)
    BY <1>1, BlockFacts, NoCallsSpoken
  <2> QED BY <2>1, <2>2, <2>3 DEF Turn, TurnRecords, Said
<1>3. CASE m.role \in {"user", "assistant"}
  <2>1. OpenAITurn(m) = Turn(m.role, Spoken(m)) /\ Meant(m) = Spoken(m)
    BY <1>3 DEF OpenAITurn, Meant
  <2>2. Spoken(m) \in Talk /\ (m.calls = <<>> => ~HasCalls(Spoken(m)))
    BY BlockFacts, NoCallsSpoken
  <2> QED BY <1>3, <2>1, <2>2 DEF Turn, TurnRecords, Said
<1>4. CASE m.role = "system"
  <2>1. OpenAITurn(m) = SystemTurn /\ Meant(m) = <<>>
    BY <1>4 DEF OpenAITurn, Meant
  <2>2. SystemTurn \in TurnRecords /\ ~HasCalls(SystemTurn.blocks) /\ SystemTurn.role = "system"
    BY BlockFacts, NoCallsSpoken DEF SystemTurn, Turn
  <2> QED BY <1>4, <2>1, <2>2 DEF Said
<1> QED
  BY <1>1, <1>2, <1>3, <1>4

LEMMA OpenAIAnswers ==
  ASSUME NEW n \in Nat, NEW c \in Seq(Messages), n = Len(c), Answered(c), NEW prompt \in BOOLEAN
  PROVE  OpenAITurns(c, prompt) \in TurnLists /\ AnswersKept(OpenAITurns(c, prompt), c)
<1>0. DOMAIN c = 1..n /\ \A i \in 1..n : c[i] \in Messages
  OBVIOUS
<1>1. PICK u \in TurnLists : /\ u = [i \in DOMAIN c |-> OpenAITurn(c[i])] /\ Len(u) = n
                             /\ \A i \in 1..n : u[i] = OpenAITurn(c[i])
  <2> DEFINE v == [i \in 1..n |-> OpenAITurn(c[i])]
  <2>1. \A i \in 1..n : OpenAITurn(c[i]) \in TurnRecords
    BY <1>0, OpenAITurnFacts
  <2>2. v \in Seq(TurnRecords) /\ Len(v) = n
    BY <2>1
  <2>3. v = [i \in DOMAIN c |-> OpenAITurn(c[i])]
    BY <1>0
  <2> QED BY <2>2, <2>3 DEF TurnLists
<1>2. PICK p \in {0, 1} : p = IF prompt THEN 1 ELSE 0
  OBVIOUS
<1>s. SystemTurn \in TurnRecords /\ Said(SystemTurn) = <<>> /\ ~HasCalls(SystemTurn.blocks)
  <2>1. CASE n = 0
    <3>1. [role |-> "user", text |-> TRUE, image |-> TRUE, calls |-> <<>>, id |-> NoId] \in Messages
      BY DEF Messages, Message
    <3> QED BY <3>1, BlockFacts, NoCallsSpoken DEF Said, SystemTurn, Turn
  <2>2. CASE n # 0
    <3>1. 1 \in 1..n
      BY <2>2
    <3> QED BY <1>0, <3>1, BlockFacts, NoCallsSpoken DEF Said, SystemTurn, Turn
  <2> QED BY <2>1, <2>2
<1>3. PICK t \in TurnLists : /\ t = OpenAITurns(c, prompt) /\ Len(t) = n + p
                             /\ \A i \in 1..n : t[i + p] = OpenAITurn(c[i])
                             /\ p = 1 => t[1] = SystemTurn
  <2>1. CASE prompt
    <3> DEFINE v == <<SystemTurn>> \o u
    <3>1. v = OpenAITurns(c, prompt)
      BY <1>1, <2>1 DEF OpenAITurns, Prompted
    <3>2. u \in Seq(TurnRecords) /\ <<SystemTurn>> \in Seq(TurnRecords) /\ Len(<<SystemTurn>>) = 1
      BY <1>s DEF TurnLists
    <3>3. /\ v \in Seq(TurnRecords) /\ Len(v) = 1 + n /\ v[1] = SystemTurn
          /\ \A i \in 1..n : v[i + 1] = u[i]
      BY <1>1, <3>2
    <3> HIDE DEF v
    <3>4. p = 1
      BY <1>2, <2>1
    <3>5. \A i \in 1..n : v[i + p] = OpenAITurn(c[i])
      BY <1>1, <3>3, <3>4
    <3>6. v \in TurnLists /\ Len(v) = n + p
      BY <3>3, <3>4 DEF TurnLists
    <3> QED BY <3>1, <3>3, <3>5, <3>6
  <2>2. CASE ~prompt
    BY <1>1, <1>2, <2>2 DEF OpenAITurns, Prompted
  <2> QED BY <2>1, <2>2
<1>4. FlatSaid(t) = FlattenSeq(MeantBy(c))
  <2>1. PICK a \in Seq(Talk) : a = MeantBy(c) /\ Len(a) = n /\ \A i \in 1..n : a[i] = Meant(c[i])
    <3>1. MeantBy(c) = [i \in 1..n |-> Meant(c[i])] /\ \A i \in 1..n : Meant(c[i]) \in Talk
      BY <1>0, BlockFacts DEF MeantBy
    <3> QED BY <3>1
  <2>2. PICK m \in Nat : m = n + p
    OBVIOUS
  <2>3. PICK b \in Seq(Talk) : b = SaidOf(t) /\ Len(b) = m /\ \A i \in 1..m : b[i] = Said(t[i])
    <3>1. DOMAIN t = 1..m /\ \A i \in 1..m : t[i] \in TurnRecords
      BY <1>3, <2>2 DEF TurnLists
    <3>2. \A i \in 1..m : Said(t[i]) \in Talk
      BY <3>1, JoinedFacts DEF Said, TurnRecords
    <3>3. SaidOf(t) = [i \in 1..m |-> Said(t[i])]
      BY <3>1 DEF SaidOf
    <3> QED BY <3>2, <3>3
  <2>4. \A i \in 1..n : b[i + p] = a[i]
    <3>1. \A i \in 1..n : i + p \in 1..m /\ Said(OpenAITurn(c[i])) = Meant(c[i])
      BY <1>0, <2>2, OpenAITurnFacts
    <3> QED BY <1>3, <2>1, <2>3, <3>1
  <2>5. p = 1 => b[1] = <<>>
    <3>1. p = 1 => 1 \in 1..m
      BY <2>2
    <3> QED BY <1>3, <1>s, <2>3, <3>1
  <2>6. FlattenSeq(b) = FlattenSeq(a)
    BY <2>1, <2>2, <2>3, <2>4, <2>5, FlattenSkips
  <2> QED BY <2>1, <2>3, <2>6 DEF FlatSaid
<1>5. ASSUME NEW i \in 1..(n + p), HasCalls(t[i].blocks), NEW k \in DOMAIN CallsIn(t[i].blocks)
      PROVE  i + k \in 1..(n + p) /\ t[i + k].blocks = <<Block("result", CallsIn(t[i].blocks)[k].id)>>
  <2>1. PICK q \in 1..n : i = q + p
    <3>1. ~(i = 1 /\ p = 1)
      BY <1>3, <1>5, <1>s
    <3>2. i - p \in 1..n /\ i = (i - p) + p
      BY <3>1
    <3> QED BY <3>2
  <2>2. c[q] \in Messages /\ c[q].calls # <<>> /\ t[i].blocks = Spoken(c[q])
    BY <1>0, <1>3, <1>5, <2>1, OpenAITurnFacts
  <2>3. PICK l \in 1..(n - q) :
          /\ DOMAIN c[q].calls = 1..l
          /\ \A x \in 1..l : c[q + x].role = "tool" /\ c[q + x].id = c[q].calls[x]
          /\ q + l < n => c[q + l + 1].role # "tool"
    BY <2>2, AnsweredFacts, ZenonT(30)
  <2>4. k \in 1..l /\ CallsIn(t[i].blocks)[k].id = c[q].calls[k]
    BY <1>5, <2>2, <2>3, CallsSpoken
  <2>5. q + k \in 1..n /\ i + k = (q + k) + p
    <3>1. k \in 1..l
      BY <2>4
    <3>2. l \in 1..(n - q) /\ i = q + p
      BY <2>1
    <3> QED BY <3>1, <3>2
  <2>6. t[i + k] = OpenAITurn(c[q + k]) /\ c[q + k] \in Messages
    BY <1>0, <1>3, <2>5
  <2>7. OpenAITurn(c[q + k]).blocks = <<Block("result", c[q + k].id)>>
    BY <2>3, <2>4, <2>6, OpenAITurnFacts
  <2> QED BY <2>3, <2>4, <2>5, <2>6, <2>7
<1> QED
  BY <1>3, <1>4, <1>5 DEF AnswersKept
-----------------------------------------------------------------------------
(* Anthropic: results wait for the next message of another kind. *)
Held(results, block) == Append(results, block)
Convs == [turns : TurnLists, pending : Talk]
Answer(i) == Block("result", i)

LEMMA HeldFacts ==
  ASSUME NEW p \in Talk, NEW i \in Ids
  PROVE  /\ Held(p, Answer(i)) \in Talk
         /\ Held(p, Answer(i)) = Joined(p, <<Answer(i)>>)
         /\ Len(Held(p, Answer(i))) = Len(p) + 1
         /\ \A x \in 1..Len(p) : Held(p, Answer(i))[x] = p[x]
         /\ Held(p, Answer(i))[Len(p) + 1] = Answer(i)
         /\ HasCalls(Held(p, Answer(i))) => HasCalls(p)
<1>1. PICK b \in Blocks : b = Answer(i)
  BY DEF Answer, Block, Blocks, Ids
<1>2. p \in Seq(Blocks)
  BY DEF Talk
<1>3. Append(p, b) = p \o <<b>>
  BY <1>2, AppendIsConcat
<1>4. /\ Append(p, b) \in Seq(Blocks) /\ Len(Append(p, b)) = Len(p) + 1
      /\ \A x \in 1..Len(p) : Append(p, b)[x] = p[x]
      /\ Append(p, b)[Len(p) + 1] = b
  BY <1>2
<1>5. b.type # "call"
  BY <1>1 DEF Answer, Block
<1>6. HasCalls(Append(p, b)) => HasCalls(p)
  <2>1. PICK u \in Seq(Blocks) : u = Append(p, b)
    BY <1>4
  <2>2. PICK n \in Nat : n = Len(p) /\ DOMAIN p = 1..n /\ DOMAIN u = 1..(n + 1)
    BY <1>2, <1>4, <2>1
  <2>3. (\A x \in 1..n : u[x] = p[x]) /\ u[n + 1] = b
    BY <1>4, <2>1, <2>2
  <2>4. \A x \in 1..(n + 1) : x = n + 1 \/ x \in 1..n
    OBVIOUS
  <2> QED BY <1>5, <2>1, <2>2, <2>3, <2>4 DEF HasCalls
<1> QED
  BY <1>1, <1>3, <1>4, <1>6 DEF Held, Joined, Talk

LEMMA HeldShape ==
  ASSUME NEW p \in Talk, NEW i \in Ids, NEW h, h = Held(p, Answer(i))
  PROVE  /\ Len(h) = Len(p) + 1
         /\ \A x \in 1..Len(p) : h[x] = p[x]
         /\ h[Len(p) + 1] = Answer(i)
         /\ HasCalls(h) => HasCalls(p)
<1>1. Len(h) = Len(p) + 1 /\ h[Len(p) + 1] = Answer(i) /\ (HasCalls(h) => HasCalls(p))
  BY HeldFacts
<1>2. \A x \in 1..Len(p) : h[x] = p[x]
  BY HeldFacts
<1> QED
  BY <1>1, <1>2

LEMMA FlushFacts ==
  ASSUME NEW a \in Convs
  PROVE  /\ Flushed(a) \in Convs /\ Flushed(a).pending = <<>>
         /\ FlatSaid(Flushed(a).turns) = Joined(FlatSaid(a.turns), a.pending)
         /\ a.pending = <<>> => Flushed(a) = a
         /\ a.pending # <<>> => Flushed(a).turns = More(a.turns, Turn("user", a.pending))
         /\ Turn("user", a.pending) \in TurnRecords
<1>0. a.turns \in TurnLists /\ a.pending \in Talk
  BY DEF Convs
<1>1. Turn("user", a.pending) \in TurnRecords /\ Said(Turn("user", a.pending)) = a.pending
  BY <1>0 DEF Turn, TurnRecords, Said
<1>2. CASE a.pending = <<>>
  BY <1>0, <1>1, <1>2, SaidFacts, JoinedFacts DEF Flushed
<1>3. CASE a.pending # <<>>
  <2>1. Flushed(a) = [turns |-> More(a.turns, Turn("user", a.pending)), pending |-> <<>>]
    BY <1>3 DEF Flushed, More
  <2> QED BY <1>0, <1>1, <1>3, <2>1, SaidFacts, JoinedFacts DEF Convs
<1> QED
  BY <1>2, <1>3

LEMMA AnthropicStepFacts ==
  ASSUME NEW a \in Convs, NEW m \in Messages
  PROVE  /\ m.role = "system" => AnthropicStep(a, m) = a
         /\ m.role = "tool" => AnthropicStep(a, m) = [turns |-> a.turns, pending |-> Held(a.pending, Answer(m.id))]
         /\ m.role \in {"user", "assistant"} =>
              /\ AnthropicStep(a, m) = [turns |-> More(Flushed(a).turns, Turn(m.role, Spoken(m))), pending |-> <<>>]
              /\ Turn(m.role, Spoken(m)) \in TurnRecords
         /\ AnthropicStep(a, m) \in Convs
         /\ Joined(FlatSaid(AnthropicStep(a, m).turns), AnthropicStep(a, m).pending)
              = Joined(Joined(FlatSaid(a.turns), a.pending), Meant(m))
<1>0. a.turns \in TurnLists /\ a.pending \in Talk /\ FlatSaid(a.turns) \in Talk /\ SystemTurn \in TurnRecords
  BY SaidFacts, BlockFacts DEF Convs
<1>m. m.role \in {"user", "system", "assistant", "tool"} /\ m.id \in Ids
  BY MessageFacts
<1>1. CASE m.role = "system"
  <2>1. AnthropicStep(a, m) = a /\ Meant(m) = <<>>
    BY <1>1 DEF AnthropicStep, Meant
  <2> QED BY <1>0, <1>1, <2>1, JoinedFacts
<1>2. CASE m.role = "tool"
  <2>1. AnthropicStep(a, m) = [a EXCEPT !.pending = Held(a.pending, Answer(m.id))]
    BY <1>2 DEF AnthropicStep, Held, Answer
  <2>2. AnthropicStep(a, m) = [turns |-> a.turns, pending |-> Held(a.pending, Answer(m.id))]
    BY <2>1 DEF Convs
  <2>3. Meant(m) = <<Answer(m.id)>> /\ <<Answer(m.id)>> \in Talk
    BY <1>2, <1>m, BlockFacts DEF Meant, Answer
  <2>4. Held(a.pending, Answer(m.id)) \in Talk /\ Held(a.pending, Answer(m.id)) = Joined(a.pending, <<Answer(m.id)>>)
    BY <1>0, <1>m, HeldFacts
  <2> QED BY <1>0, <1>2, <2>2, <2>3, <2>4, JoinedFacts DEF Convs
<1>3. CASE m.role \in {"user", "assistant"}
  <2>1. Meant(m) = Spoken(m) /\ Spoken(m) \in Talk
    BY <1>3, BlockFacts DEF Meant
  <2>2. Turn(m.role, Spoken(m)) \in TurnRecords /\ Said(Turn(m.role, Spoken(m))) = Spoken(m)
    BY <1>3, <2>1 DEF Turn, TurnRecords, Said
  <2>3. PICK f \in Convs : /\ f = Flushed(a) /\ f.pending = <<>>
                           /\ FlatSaid(f.turns) = Joined(FlatSaid(a.turns), a.pending)
    BY FlushFacts
  <2>4. AnthropicStep(a, m) = [f EXCEPT !.turns = More(f.turns, Turn(m.role, Spoken(m)))]
    BY <1>3, <2>3 DEF AnthropicStep, BetweenTurns, More
  <2>5. AnthropicStep(a, m) = [turns |-> More(f.turns, Turn(m.role, Spoken(m))), pending |-> <<>>]
    BY <2>3, <2>4 DEF Convs
  <2>6. /\ More(f.turns, Turn(m.role, Spoken(m))) \in TurnLists
        /\ FlatSaid(More(f.turns, Turn(m.role, Spoken(m)))) = Joined(FlatSaid(f.turns), Spoken(m))
    BY <2>2, SaidFacts DEF Convs
  <2>7. Joined(FlatSaid(a.turns), a.pending) \in Talk
    BY <1>0, JoinedFacts
  <2>8. PICK u \in TurnLists : u = More(f.turns, Turn(m.role, Spoken(m)))
    BY <2>6
  <2>9. PICK z \in Convs : z = AnthropicStep(a, m) /\ z.turns = u /\ z.pending = <<>>
    <3>1. <<>> \in Talk
      BY JoinedFacts
    <3>2. [turns |-> u, pending |-> <<>>] \in Convs
      BY <3>1 DEF Convs
    <3> QED BY <2>5, <2>8, <3>2
  <2>10. FlatSaid(u) = Joined(Joined(FlatSaid(a.turns), a.pending), Meant(m))
    BY <2>1, <2>3, <2>6, <2>8
  <2>11. FlatSaid(u) \in Talk
    BY <2>1, <2>7, <2>10, JoinedFacts
  <2>12. Joined(FlatSaid(z.turns), z.pending) = Joined(Joined(FlatSaid(a.turns), a.pending), Meant(m))
    BY <2>9, <2>10, <2>11, JoinedFacts
  <2> QED BY <1>3, <2>2, <2>3, <2>5, <2>9, <2>12
<1> QED
  BY <1>m, <1>1, <1>2, <1>3

(* Message by message, results wait for the turn of their calls to be      *)
(* followed.                                                               *)
LEMMA AnthropicKeeps == \A a \in Convs, m \in Messages : AnthropicStep(a, m) \in Convs
  BY AnthropicStepFacts

(* The fold that AnthropicTurns is.                                        *)
AnthropicOf(g, b, s) ==
  g = [p \in Subsets(Len(s)) |-> IF p = {} THEN b ELSE AnthropicStep(g[Rest(p)], s[Max(p)])]

LEMMA AnthropicRuns ==
  ASSUME NEW n \in Nat, NEW s \in Seq(Messages), n = Len(s), NEW b \in Convs
  PROVE  \E r \in [0..n -> Convs] :
           /\ r[0] = b /\ r[n] = FoldLeft(AnthropicStep, b, s)
           /\ \A k \in 0..(n - 1) : r[k + 1] = AnthropicStep(r[k], s[k + 1])
<1> DEFINE h == [x \in Convs \X (1..n) |-> AnthropicStep(x[1], s[x[2]])]
<1>1. DOMAIN s = 1..n /\ \A i \in 1..n : s[i] \in Messages
  OBVIOUS
<1>2. \A a \in Convs : \A i \in 1..n : Take(h, a, i) = AnthropicStep(a, s[i])
  BY DEF Take
<1>3. \A a \in Convs : \A i \in 1..n : AnthropicStep(a, s[i]) \in Convs
  BY <1>1, AnthropicKeeps
<1> HIDE DEF h
<1>t. \A a \in Convs : \A i \in 1..n : Take(h, a, i) \in Convs
  BY <1>2, <1>3
<1>4. PICK f \in [Subsets(n) -> Convs] : FoldsOn(f, h, b, n)
  BY <1>t, FoldExists
<1> DEFINE taken(g, p) == IF p = {} THEN b ELSE AnthropicStep(g[Rest(p)], s[Max(p)])
<1>5. AnthropicOf(f, b, s)
  <2>1. \A p \in Subsets(n) : f[p] = taken(f, p)
    <3> TAKE p \in Subsets(n)
    <3>1. f[{}] = b /\ (p # {} => f[p] = Take(h, f[Rest(p)], Max(p)))
      BY <1>4, FoldAt
    <3>2. p # {} => Max(p) \in 1..n /\ Rest(p) \in Subsets(n)
      BY MaxIn
    <3>3. p # {} => Take(h, f[Rest(p)], Max(p)) = AnthropicStep(f[Rest(p)], s[Max(p)])
      BY <1>2, <1>4, <3>2
    <3> QED BY <3>1, <3>3
  <2> HIDE DEF taken
  <2>2. f = [p \in Subsets(n) |-> taken(f, p)]
    BY <1>4, <2>1
  <2> QED BY <2>2 DEF taken, AnthropicOf
<1> DEFINE g == CHOOSE g : AnthropicOf(g, b, s)
<1>6. AnthropicOf(g, b, s) /\ FoldLeft(AnthropicStep, b, s) = g[UpTo(n)]
  <2>1. AnthropicOf(g, b, s)
    BY <1>5
  <2>2. FoldLeft(AnthropicStep, b, s) = g[DOMAIN s]
    BY <1>1 DEF FoldLeft, MapThenFoldSet, AnthropicOf, Subsets, Rest
  <2> QED BY <1>1, <2>1, <2>2 DEF UpTo
<1> HIDE DEF g
<1> DEFINE V == Convs \cup {g[p] : p \in Subsets(n)}
           k == [x \in V \X (1..n) |-> AnthropicStep(x[1], s[x[2]])]
<1>7. \A a \in V : \A i \in 1..n : Take(k, a, i) = AnthropicStep(a, s[i])
  <2> HIDE DEF V
  <2> QED BY DEF Take
<1>8. FoldsOn(g, k, b, n)
  <2> DEFINE stepped(p) == IF p = {} THEN b ELSE Take(k, g[Rest(p)], Max(p))
  <2>1. g = [p \in Subsets(n) |-> taken(g, p)]
    BY <1>6 DEF AnthropicOf
  <2>2. \A p \in Subsets(n) : taken(g, p) = stepped(p)
    <3> TAKE p \in Subsets(n)
    <3>1. p # {} => Max(p) \in 1..n /\ Rest(p) \in Subsets(n)
      BY MaxIn
    <3>2. p # {} => g[Rest(p)] \in V
      BY <3>1
    <3>3. p # {} => Take(k, g[Rest(p)], Max(p)) = AnthropicStep(g[Rest(p)], s[Max(p)])
      <4> HIDE DEF V, k
      <4> QED BY <1>7, <3>1, <3>2
    <3> HIDE DEF V, k
    <3> QED BY <3>3
  <2> HIDE DEF taken, stepped
  <2>3. g = [p \in Subsets(n) |-> stepped(p)]
    BY <2>1, <2>2
  <2> HIDE DEF k
  <2> QED BY <2>3 DEF stepped, FoldsOn
<1>9. \A a \in Convs : \A i \in 1..n : Take(k, a, i) = AnthropicStep(a, s[i]) /\ Take(k, a, i) \in Convs
  <2>1. \A a \in Convs : a \in V
    OBVIOUS
  <2> HIDE DEF V, k
  <2> QED BY <1>3, <1>7, <2>1
<1> HIDE DEF k
<1>w. Within(k, Convs, n)
  BY <1>9 DEF Within
<1>10. PICK r \in [0..n -> Convs] : r[0] = b /\ r[n] = g[UpTo(n)] /\ Goes(r, k, n)
  BY <1>8, <1>w, FoldRuns
<1>11. ASSUME NEW i \in 0..(n - 1) PROVE r[i + 1] = AnthropicStep(r[i], s[i + 1])
  <2>1. r[i] \in Convs /\ i + 1 \in 1..n
    BY <1>10
  <2> QED BY <1>9, <1>10, <2>1 DEF Goes
<1> QED
  BY <1>6, <1>10, <1>11

(* The calls of a turn are followed by all their results, or the turn is   *)
(* the last one and the results that were told wait.                       *)
ResultsOf(asked) == [k \in DOMAIN asked |-> Block("result", asked[k].id)]
ResultsNext(turns, i) ==
  turns[i + 1].role = "user" /\ turns[i + 1].blocks = ResultsOf(CallsIn(turns[i].blocks))
ResultsTold(a, i, c, k, q, l) ==
  /\ c[q].calls # <<>> /\ a.turns[i].blocks = Spoken(c[q]) /\ DOMAIN c[q].calls = 1..l
  /\ \A x \in 1..l : c[q + x].role = "tool" /\ c[q + x].id = c[q].calls[x]
  /\ q + l < Len(c) => c[q + l + 1].role # "tool"
  /\ \A j \in (q + 1)..k : c[j].role \in {"tool", "system"}
  /\ Len(a.pending) = IF k <= q + l THEN k - q ELSE l
  /\ \A x \in 1..Len(a.pending) : a.pending[x] = Answer(c[q].calls[x])
ResultsWait(a, c, k) ==
  \A i \in 1..Len(a.turns) : HasCalls(a.turns[i].blocks) =>
    \/ i < Len(a.turns) /\ ResultsNext(a.turns, i)
    \/ i = Len(a.turns) /\ \E q \in 1..k : \E l \in 1..(Len(c) - q) : ResultsTold(a, i, c, k, q, l)

(* A message of another kind, and the end, find all of them. *)
LEMMA ResultsSent ==
  ASSUME NEW n \in Nat, NEW c \in Seq(Messages), n = Len(c), NEW k \in 0..n,
         k < n => c[k + 1].role # "tool",
         NEW a \in Convs, ~HasCalls(a.pending), ResultsWait(a, c, k), NEW f \in Convs, f = Flushed(a)
  PROVE  \A i \in 1..Len(f.turns) : HasCalls(f.turns[i].blocks) =>
           i < Len(f.turns) /\ ResultsNext(f.turns, i)
<1>0. a.turns \in TurnLists /\ a.pending \in Talk
  BY DEF Convs
<1>s. PICK s \in Nat : s = Len(a.turns)
  BY <1>0 DEF TurnLists
<1>1. ASSUME HasCalls(a.turns[s].blocks), s # 0
      PROVE  a.pending # <<>> /\ a.pending = ResultsOf(CallsIn(a.turns[s].blocks))
  <2>1. PICK q \in 1..k : \E l \in 1..(n - q) : ResultsTold(a, s, c, k, q, l)
    <3>1. s \in 1..s /\ ~(s < s)
      BY <1>1
    <3> QED BY <1>1, <1>s, <3>1 DEF ResultsWait
  <2>a. PICK l \in 1..(n - q) : ResultsTold(a, s, c, k, q, l)
    BY <2>1
  <2>2. q + l <= k
    <3>1. ASSUME k < q + l PROVE FALSE
      <4>1. PICK x \in 1..l : x = k + 1 - q
        BY <3>1
      <4>2. k + 1 = q + x /\ k < n
        BY <3>1, <4>1
      <4> QED BY <2>a, <4>2 DEF ResultsTold
    <3> QED BY <3>1
  <2>3. Len(a.pending) = l /\ \A x \in 1..l : a.pending[x] = Answer(c[q].calls[x])
    <3>1. k <= q + l => k - q = l
      BY <2>2
    <3> QED BY <2>a, <3>1 DEF ResultsTold
  <2>4. a.pending \in Seq(Blocks)
    BY <1>0 DEF Talk
  <2>5. a.pending = [x \in 1..l |-> Answer(c[q].calls[x])]
    BY <2>3, <2>4
  <2>6. a.pending # <<>>
    BY <2>3, <2>4, EmptySeq
  <2>7. c[q] \in Messages /\ c[q].calls # <<>> /\ a.turns[s].blocks = Spoken(c[q]) /\ DOMAIN c[q].calls = 1..l
    BY <2>a DEF ResultsTold
  <2>8. DOMAIN CallsIn(Spoken(c[q])) = 1..l /\ \A x \in 1..l : CallsIn(Spoken(c[q]))[x].id = c[q].calls[x]
    BY <2>7, CallsSpoken
  <2>9. ResultsOf(CallsIn(Spoken(c[q]))) = [x \in 1..l |-> Answer(c[q].calls[x])]
    BY <2>8 DEF ResultsOf, Answer
  <2> QED BY <2>5, <2>6, <2>7, <2>9
<1>2. CASE a.pending = <<>>
  <2>1. f = a
    BY <1>2, FlushFacts
  <2>2. ASSUME NEW i \in 1..s, HasCalls(a.turns[i].blocks) PROVE i < s /\ ResultsNext(a.turns, i)
    <3>1. i # s
      BY <1>1, <1>2, <2>2
    <3> QED BY <1>s, <2>2, <3>1 DEF ResultsWait
  <2> QED BY <1>s, <2>1, <2>2
<1>3. CASE a.pending # <<>>
  <2>1. PICK t \in TurnRecords : t = Turn("user", a.pending) /\ t.role = "user" /\ t.blocks = a.pending
    BY FlushFacts DEF Turn
  <2>2. /\ Len(f.turns) = s + 1 /\ (\A i \in 1..s : f.turns[i] = a.turns[i])
        /\ f.turns[s + 1] = t
    <3>1. f.turns = More(a.turns, t)
      BY <1>3, <2>1, FlushFacts
    <3> QED BY <1>0, <1>s, <3>1, SaidFacts
  <2>3. ASSUME NEW i \in 1..(s + 1), HasCalls(f.turns[i].blocks) PROVE i < s + 1 /\ ResultsNext(f.turns, i)
    <3>1. i # s + 1
      BY <2>1, <2>2, <2>3
    <3>2. i \in 1..s /\ f.turns[i] = a.turns[i]
      BY <2>2, <3>1
    <3>3. CASE i = s
      <4>1. a.pending = ResultsOf(CallsIn(a.turns[i].blocks))
        BY <1>1, <2>3, <3>2, <3>3
      <4> QED BY <2>1, <2>2, <3>2, <3>3, <4>1 DEF ResultsNext
    <3>4. CASE i # s
      <4>1. ResultsNext(a.turns, i)
        BY <1>s, <2>3, <3>2, <3>4 DEF ResultsWait
      <4>2. i + 1 \in 1..s
        BY <3>2, <3>4
      <4>3. f.turns[i + 1] = a.turns[i + 1]
        BY <2>2, <4>2
      <4> QED BY <3>2, <4>1, <4>3 DEF ResultsNext
    <3> QED BY <3>2, <3>3, <3>4
  <2> QED BY <2>2, <2>3
<1> QED
  BY <1>2, <1>3

LEMMA ResultsFollow ==
  ASSUME NEW n \in Nat, NEW c \in Seq(Messages), n = Len(c), Answered(c), NEW k \in 0..(n - 1),
         NEW a \in Convs, ~HasCalls(a.pending), ResultsWait(a, c, k),
         NEW b \in Convs, b = AnthropicStep(a, c[k + 1])
  PROVE  ~HasCalls(b.pending) /\ ResultsWait(b, c, k + 1)
<1>z. PICK z \in 1..n : z = k + 1
  OBVIOUS
<1>m. PICK m \in Messages : m = c[z] /\ m.id \in Ids /\ m.role \in {"user", "system", "assistant", "tool"}
  BY <1>z, MessageFacts
<1>0. a.turns \in TurnLists /\ a.pending \in Talk
  BY DEF Convs
<1>s. PICK s \in Nat : s = Len(a.turns)
  BY <1>0 DEF TurnLists
<1>p. PICK p \in Nat : p = Len(a.pending)
  BY <1>0 DEF Talk
<1>1. CASE m.role = "system"
  <2>1. b = a
    BY <1>1, <1>m, <1>z, AnthropicStepFacts
  <2>2. ASSUME NEW q \in 1..k, NEW l \in 1..(n - q), ResultsTold(a, s, c, k, q, l) PROVE ResultsTold(a, s, c, z, q, l)
    <3>1. ~(k < q + l)
      <4>1. ASSUME k < q + l PROVE FALSE
        <5>1. PICK x \in 1..l : x = z - q
          BY <1>z, <4>1
        <5>2. z = q + x
          BY <1>z, <5>1
        <5> QED BY <1>1, <1>m, <2>2, <5>2 DEF ResultsTold
      <4> QED BY <4>1
    <3>2. k <= q + l => k - q = l
      BY <3>1
    <3>3. ~(z <= q + l)
      BY <1>z, <3>1
    <3>4. \A j \in (q + 1)..z : j = z \/ j \in (q + 1)..k
      BY <1>z
    <3> QED BY <1>1, <1>m, <2>2, <3>2, <3>3, <3>4 DEF ResultsTold
  <2>3. ASSUME NEW i \in 1..s, HasCalls(a.turns[i].blocks)
        PROVE  \/ i < s /\ ResultsNext(a.turns, i)
               \/ i = s /\ \E q \in 1..z : \E l \in 1..(n - q) : ResultsTold(a, i, c, z, q, l)
    <3>1. CASE i < s
      BY <1>s, <2>3, <3>1 DEF ResultsWait
    <3>2. CASE i = s
      <4>1. PICK q \in 1..k : \E l \in 1..(n - q) : ResultsTold(a, s, c, k, q, l)
        BY <1>s, <2>3, <3>2 DEF ResultsWait
      <4>2. q \in 1..z
        BY <1>z
      <4> QED BY <2>2, <3>2, <4>1, <4>2
    <3> QED BY <3>1, <3>2
  <2> QED BY <1>s, <1>z, <2>1, <2>3 DEF ResultsWait
<1>2. CASE m.role = "tool"
  <2>1. b.turns = a.turns /\ b.pending = Held(a.pending, Answer(m.id))
    <3>1. b = AnthropicStep(a, m)
      BY <1>m, <1>z
    <3>2. AnthropicStep(a, m) = [turns |-> a.turns, pending |-> Held(a.pending, Answer(m.id))]
      BY <1>2, AnthropicStepFacts
    <3> QED BY <3>1, <3>2
  <2>2. /\ Len(b.pending) = p + 1 /\ (\A x \in 1..p : b.pending[x] = a.pending[x])
        /\ b.pending[p + 1] = Answer(m.id) /\ ~HasCalls(b.pending)
    <3>1. PICK i \in Ids : i = m.id
      BY <1>m
    <3>2. PICK held \in Talk : held = a.pending
      BY <1>0
    <3>3. PICK h : h = Held(held, Answer(i))
      OBVIOUS
    <3>4. /\ Len(h) = Len(held) + 1 /\ \A x \in 1..Len(held) : h[x] = held[x]
          /\ h[Len(held) + 1] = Answer(i) /\ (HasCalls(h) => HasCalls(held))
      BY <3>3, HeldShape
    <3> QED BY <1>p, <2>1, <3>1, <3>2, <3>3, <3>4
  <2>3. ASSUME NEW q \in 1..k, NEW l \in 1..(n - q), ResultsTold(a, s, c, k, q, l) PROVE ResultsTold(b, s, c, z, q, l)
    <3>1. z <= q + l
      <4>1. ASSUME q + l < z PROVE FALSE
        <5>1. PICK y \in 1..n : y = q + l + 1 /\ c[y].role # "tool"
          BY <1>z, <2>3, <4>1 DEF ResultsTold
        <5>2. PICK j \in 1..(z - 1) : c[j].calls # <<>> /\ \A x \in (j + 1)..z : c[x].role = "tool"
          BY <1>2, <1>m, <1>z, AnsweredFacts
        <5>3. y <= z /\ ~(y \in (j + 1)..z)
          BY <1>z, <4>1, <5>1, <5>2
        <5>4. j \in (q + 1)..k /\ j \in 1..n
          BY <1>z, <5>1, <5>3
        <5>5. c[j].role \in {"tool", "system"}
          BY <2>3, <5>4 DEF ResultsTold
        <5>6. c[j].role = "assistant"
          BY <5>2, <5>4, MessageFacts
        <5> QED BY <5>5, <5>6
      <4> QED BY <1>z, <4>1
    <3>2. p = k - q /\ p + 1 = z - q
      BY <1>p, <1>z, <2>3, <3>1 DEF ResultsTold
    <3>3. m.id = c[q].calls[p + 1]
      <4>1. p + 1 \in 1..l /\ q + (p + 1) = z
        BY <1>z, <3>1, <3>2
      <4> QED BY <1>m, <2>3, <4>1 DEF ResultsTold
    <3>4. \A x \in 1..(p + 1) : b.pending[x] = Answer(c[q].calls[x])
      <4>1. \A x \in 1..(p + 1) : x = p + 1 \/ x \in 1..p
        OBVIOUS
      <4>2. \A x \in 1..p : a.pending[x] = Answer(c[q].calls[x])
        BY <1>p, <2>3 DEF ResultsTold
      <4> QED BY <2>2, <3>3, <4>1, <4>2
    <3>5. \A j \in (q + 1)..z : j = z \/ j \in (q + 1)..k
      BY <1>z
    <3> QED BY <1>2, <1>m, <2>1, <2>2, <2>3, <3>1, <3>2, <3>4, <3>5 DEF ResultsTold
  <2>4. ASSUME NEW i \in 1..s, HasCalls(a.turns[i].blocks)
        PROVE  \/ i < s /\ ResultsNext(a.turns, i)
               \/ i = s /\ \E q \in 1..z : \E l \in 1..(n - q) : ResultsTold(b, i, c, z, q, l)
    <3>1. CASE i < s
      BY <1>s, <2>4, <3>1 DEF ResultsWait
    <3>2. CASE i = s
      <4>1. PICK q \in 1..k : \E l \in 1..(n - q) : ResultsTold(a, s, c, k, q, l)
        BY <1>s, <2>4, <3>2 DEF ResultsWait
      <4>2. q \in 1..z
        BY <1>z
      <4> QED BY <2>3, <3>2, <4>1, <4>2
    <3> QED BY <3>1, <3>2
  <2> QED BY <1>s, <1>z, <2>1, <2>2, <2>4 DEF ResultsWait
<1>3. CASE m.role \in {"user", "assistant"}
  <2>1. PICK f \in Convs : f = Flushed(a)
    BY FlushFacts
  <2>2. PICK g \in Nat : g = Len(f.turns) /\ f.turns \in TurnLists
    BY DEF Convs, TurnLists
  <2>3. PICK t \in TurnRecords : t = Turn(m.role, Spoken(m)) /\ t.blocks = Spoken(m)
    BY <1>3, AnthropicStepFacts DEF Turn
  <2>4. b.turns = More(f.turns, t) /\ b.pending = <<>>
    <3>1. b = AnthropicStep(a, m)
      BY <1>m, <1>z
    <3>2. AnthropicStep(a, m) = [turns |-> More(Flushed(a).turns, Turn(m.role, Spoken(m))), pending |-> <<>>]
      BY <1>3, AnthropicStepFacts
    <3> QED BY <2>1, <2>3, <3>1, <3>2
  <2>5. Len(b.turns) = g + 1 /\ (\A i \in 1..g : b.turns[i] = f.turns[i]) /\ b.turns[g + 1] = t
    <3>1. PICK u \in TurnLists : u = f.turns
      BY <2>2
    <3>2. Len(More(u, t)) = Len(u) + 1 /\ (\A i \in 1..Len(u) : More(u, t)[i] = u[i])
          /\ More(u, t)[Len(u) + 1] = t
      BY SaidFacts
    <3> QED BY <2>2, <2>4, <3>1, <3>2
  <2>6. \A i \in 1..g : HasCalls(f.turns[i].blocks) => i < g /\ ResultsNext(f.turns, i)
    BY <1>3, <1>m, <1>z, <2>1, <2>2, ResultsSent
  <2>7. ASSUME NEW i \in 1..g, HasCalls(b.turns[i].blocks) PROVE i < g + 1 /\ ResultsNext(b.turns, i)
    <3>1. b.turns[i] = f.turns[i]
      BY <2>5
    <3>2. i < g /\ ResultsNext(f.turns, i)
      BY <2>6, <2>7, <3>1
    <3>3. i + 1 \in 1..g
      BY <3>2
    <3>4. b.turns[i + 1] = f.turns[i + 1]
      BY <2>5, <3>3
    <3> QED BY <3>1, <3>2, <3>4 DEF ResultsNext
  <2>8. Len(b.pending) = 0 /\ ~HasCalls(b.pending)
    BY <2>4 DEF HasCalls
  <2>9. ASSUME HasCalls(t.blocks) PROVE \E l \in 1..(n - z) : ResultsTold(b, g + 1, c, z, z, l)
    <3>1. m.calls # <<>>
      BY <2>3, <2>9, NoCallsSpoken
    <3>2. PICK l \in 1..(n - z) :
            /\ DOMAIN c[z].calls = 1..l
            /\ \A x \in 1..l : c[z + x].role = "tool" /\ c[z + x].id = c[z].calls[x]
            /\ z + l < n => c[z + l + 1].role # "tool"
      BY <1>m, <3>1, AnsweredFacts, ZenonT(30)
    <3>3. z <= z + l /\ z - z = 0
      OBVIOUS
    <3>4. \A j \in (z + 1)..z : FALSE
      OBVIOUS
    <3>5. \A x \in 1..0 : FALSE
      OBVIOUS
    <3>6. ResultsTold(b, g + 1, c, z, z, l)
      BY <1>m, <2>3, <2>5, <2>8, <3>1, <3>2, <3>3, <3>4, <3>5 DEF ResultsTold
    <3> QED BY <3>6
  <2>10. \A i \in 1..(g + 1) : i = g + 1 \/ i \in 1..g
    OBVIOUS
  <2>11. ASSUME NEW i \in 1..(g + 1), HasCalls(b.turns[i].blocks)
         PROVE  \/ i < g + 1 /\ ResultsNext(b.turns, i)
                \/ i = g + 1 /\ \E q \in 1..z : \E l \in 1..(n - q) : ResultsTold(b, i, c, z, q, l)
    <3>1. z \in 1..z
      OBVIOUS
    <3>2. CASE i = g + 1
      BY <2>5, <2>9, <2>11, <3>1, <3>2
    <3>3. CASE i \in 1..g
      BY <2>7, <2>11, <3>3
    <3> QED BY <2>10, <3>2, <3>3
  <2> QED BY <1>z, <2>5, <2>8, <2>11 DEF ResultsWait
<1> QED
  BY <1>m, <1>1, <1>2, <1>3

LEMMA AnthropicAnswers ==
  ASSUME NEW n \in Nat, NEW c \in Seq(Messages), n = Len(c), Answered(c)
  PROVE  /\ AnthropicTurns(c) \in TurnLists
         /\ FlatSaid(AnthropicTurns(c)) = FlattenSeq(MeantBy(c))
         /\ \A i \in 1..Len(AnthropicTurns(c)) : HasCalls(AnthropicTurns(c)[i].blocks) =>
              i < Len(AnthropicTurns(c)) /\ ResultsNext(AnthropicTurns(c), i)
<1> DEFINE b == [turns |-> <<>>, pending |-> <<>>]
<1>0. b \in Convs
  BY SaidFacts, JoinedFacts DEF Convs
<1>1. PICK r \in [0..n -> Convs] : /\ r[0] = b /\ r[n] = FoldLeft(AnthropicStep, b, c)
                                   /\ \A k \in 0..(n - 1) : r[k + 1] = AnthropicStep(r[k], c[k + 1])
  <2> HIDE DEF b
  <2> QED BY <1>0, AnthropicRuns
<1>2. PICK f \in [0..n -> Talk] : /\ f[0] = <<>> /\ f[n] = FlattenSeq(MeantBy(c))
                               /\ \A k \in 0..(n - 1) : f[k + 1] = Joined(f[k], Meant(c[k + 1]))
  BY MeantRuns
<1> DEFINE Fine(a, k) == ~HasCalls(a.pending) /\ ResultsWait(a, c, k)
           Good == {k \in 0..n : Joined(FlatSaid(r[k].turns), r[k].pending) = f[k] /\ Fine(r[k], k)}
<1>3. 0 \in Good
  <2>1. Fine(b, 0)
    BY DEF ResultsWait, HasCalls
  <2>2. Joined(FlatSaid(b.turns), b.pending) = <<>>
    BY SaidFacts, JoinedFacts
  <2> HIDE DEF b, Fine
  <2> QED BY <1>1, <1>2, <2>1, <2>2
<1>4. ASSUME NEW k \in 0..(n - 1), k \in Good PROVE k + 1 \in Good
  <2>1. k + 1 \in 0..n /\ k + 1 \in 1..n /\ k \in 0..n
    OBVIOUS
  <2>2. PICK a \in Convs : a = r[k]
    BY <1>1, <2>1
  <2>3. PICK m \in Messages : m = c[k + 1]
    BY <2>1
  <2>4. PICK z \in Convs : z = r[k + 1] /\ z = AnthropicStep(a, m)
    BY <1>1, <2>1, <2>2, <2>3
  <2>5. Fine(z, k + 1)
    BY <1>4, <2>2, <2>3, <2>4, ResultsFollow
  <2>6. Joined(FlatSaid(z.turns), z.pending) = Joined(Joined(FlatSaid(a.turns), a.pending), Meant(m))
    BY <2>4, AnthropicStepFacts
  <2>7. f[k + 1] = Joined(f[k], Meant(m)) /\ f[k] = Joined(FlatSaid(a.turns), a.pending)
    BY <1>2, <1>4, <2>2, <2>3
  <2> HIDE DEF Fine
  <2> QED BY <2>1, <2>4, <2>5, <2>6, <2>7
<1>5. 0..n \subseteq Good
  <2> HIDE DEF Good
  <2> QED BY <1>3, <1>4, Inducts
<1>6. PICK a \in Convs : a = r[n] /\ Fine(a, n) /\ Joined(FlatSaid(a.turns), a.pending) = f[n]
  <2>1. n \in 0..n
    OBVIOUS
  <2> HIDE DEF Fine
  <2> QED BY <1>1, <1>5, <2>1
<1>7. PICK z \in Convs : z = Flushed(a)
  BY FlushFacts
<1>8. AnthropicTurns(c) = z.turns
  BY <1>1, <1>6, <1>7 DEF AnthropicTurns
<1>9. FlatSaid(z.turns) = f[n]
  BY <1>6, <1>7, FlushFacts
<1>10. \A i \in 1..Len(z.turns) : HasCalls(z.turns[i].blocks) => i < Len(z.turns) /\ ResultsNext(z.turns, i)
  <2>1. n \in 0..n /\ ~(n < n)
    OBVIOUS
  <2>2. ~HasCalls(a.pending) /\ ResultsWait(a, c, n)
    BY <1>6
  <2> QED BY <1>7, <2>1, <2>2, ResultsSent
<1>11. z.turns \in TurnLists
  BY DEF Convs
<1> QED
  BY <1>2, <1>8, <1>9, <1>10, <1>11

-----------------------------------------------------------------------------
(* A request, and the calls of its answer. *)
AnswerLists == {<<>>, <<"tool">>, <<"tool", "tool">>, <<"format">>}
LEMMA RealCallsFacts ==
  ASSUME NEW s \in AnswerLists
  PROVE  /\ s = <<>> => RealCalls(s) = <<>>
         /\ RealCalls(s) = <<>> \/ s \in {<<"tool">>, <<"tool", "tool">>}
         /\ s \in {<<"tool">>, <<"tool", "tool">>} => RealCalls(s) # <<>>
         /\ \A i \in DOMAIN RealCalls(s) : ~Synthetic(RealCalls(s)[i])
<1>1. PICK n \in Nat : n = Len(s) /\ s \in Seq(Names) /\ n \in 0..2
  <2>1. CASE s = <<>>
    BY <2>1
  <2>2. CASE s = <<"tool">>
    BY <2>2 DEF Names
  <2>3. CASE s = <<"tool", "tool">>
    BY <2>3 DEF Names
  <2>4. CASE s = <<"format">>
    BY <2>4 DEF Names
  <2> QED BY <2>1, <2>2, <2>3, <2>4 DEF AnswerLists
<1>2. PICK r \in [0..n -> RealCallLists] : /\ r[0] = <<>> /\ r[n] = RealCalls(s)
                                           /\ \A k \in 0..(n - 1) : r[k + 1] = RealStep(r[k], s[k + 1])
  <2>1. <<>> \in RealCallLists
    BY DEF RealCallLists
  <2>2. \E r \in [0..n -> RealCallLists] :
          /\ r[0] = <<>> /\ r[n] = FoldLeft(LAMBDA real, c : IF Synthetic(c) THEN real ELSE Append(real, c), <<>>, s)
          /\ \A k \in 0..(n - 1) : r[k + 1] = RealStep(r[k], s[k + 1])
    BY <1>1, <2>1, RealRuns
  <2> QED BY <2>2 DEF RealCalls
<1>3. CASE s = <<>>
  <2>1. n = 0
    BY <1>1, <1>3
  <2> QED BY <1>2, <1>3, <2>1
<1>4. CASE s = <<"tool">>
  <2>1. n = 1 /\ 0 \in 0..(n - 1) /\ s[0 + 1] = "tool"
    BY <1>1, <1>4
  <2>2. r[0 + 1] = RealStep(r[0], s[0 + 1])
    BY <1>2, <2>1
  <2>3. r[1] = <<"tool">>
    BY <1>2, <2>1, <2>2 DEF RealStep, Synthetic
  <2> QED BY <1>2, <1>4, <2>1, <2>3 DEF Synthetic
<1>5. CASE s = <<"tool", "tool">>
  <2>1. n = 2 /\ 0 \in 0..(n - 1) /\ 1 \in 0..(n - 1) /\ s[0 + 1] = "tool" /\ s[1 + 1] = "tool"
    BY <1>1, <1>5
  <2>2. r[0 + 1] = RealStep(r[0], s[0 + 1]) /\ r[1 + 1] = RealStep(r[1], s[1 + 1])
    BY <1>2, <2>1
  <2>3. r[1] = <<"tool">>
    BY <1>2, <2>1, <2>2 DEF RealStep, Synthetic
  <2>4. r[2] = <<"tool", "tool">>
    BY <2>1, <2>2, <2>3 DEF RealStep, Synthetic
  <2> QED BY <1>2, <1>5, <2>1, <2>4 DEF Synthetic
<1>6. CASE s = <<"format">>
  <2>1. n = 1 /\ 0 \in 0..(n - 1) /\ s[0 + 1] = "format"
    BY <1>1, <1>6
  <2>2. r[0 + 1] = RealStep(r[0], s[0 + 1])
    BY <1>2, <2>1
  <2>3. r[1] = <<>>
    BY <1>2, <2>1, <2>2 DEF RealStep, Synthetic
  <2> QED BY <1>2, <1>6, <2>1, <2>3
<1> QED
  BY <1>3, <1>4, <1>5, <1>6 DEF AnswerLists

(* The inductive invariant of the requests.                                *)
RequestInv ==
  /\ conversation \in Seq(Messages) /\ params \in Params /\ provider \in Providers
  /\ phase \in {"idle", "sent"} => response = NoResponse
  /\ phase = "sent" => body = Body(provider, conversation, params)
  /\ StopMatchesCalls

LEMMA RequestInitially == RequestInit => RequestInv
<1> SUFFICES ASSUME RequestInit PROVE RequestInv
  OBVIOUS
<1>1. conversation \in BoundedSeq(Messages, MaxMessages)
  BY DEF RequestInit
<1>2. conversation \in Seq(Messages)
  <2>1. PICK m \in 0..MaxMessages : conversation \in [1..m -> Messages]
    BY <1>1 DEF BoundedSeq, SeqOf
  <2>2. m \in Nat
    BY RequestAssumption
  <2> QED BY <2>1, <2>2
<1>3. StopMatchesCalls
  BY DEF RequestInit, StopMatchesCalls, NoResponse
<1> QED
  BY <1>2, <1>3 DEF RequestInit, RequestInv

(* The response to the request that was sent stops for calls only with     *)
(* calls.                                                                  *)
LEMMA ResponsesMatch ==
  ASSUME RequestInv, phase = "sent", NEW asked \in AnswerCalls, NEW cut \in BOOLEAN, NEW json \in BOOLEAN,
         NEW reply, reply = Response(asked, cut, json)
  PROVE  /\ reply.stop = "tool_use" => reply.calls # <<>>
         /\ \A i \in DOMAIN reply.calls : ~Synthetic(reply.calls[i])
         /\ reply.calls # <<>> => body.offered = "tools"
<1>1. body.offered = Offered(provider, params) /\ params.format \in BOOLEAN
  BY DEF RequestInv, Body, Params
<1>2. provider \in {"anthropic", "openai", "openrouter", "google", "ollama"}
  BY RequestAssumption DEF RequestInv
<1>3. /\ asked \in AnswerLists
      /\ asked = <<"format">> => provider = "anthropic" /\ params.format
      /\ asked \in {<<"tool">>, <<"tool", "tool">>} => body.offered = "tools"
  <2>1. asked = <<"format">> => body.offered = "format"
    BY DEF AnswerCalls
  <2>2. Offered(provider, params) = "format" => provider = "anthropic" /\ params.format
    BY DEF Offered
  <2>3. asked \in AnswerLists /\ (asked \in {<<"tool">>, <<"tool", "tool">>} => body.offered = "tools")
    BY DEF AnswerCalls, AnswerLists
  <2> QED BY <1>1, <2>1, <2>2, <2>3
<1>4. PICK real : /\ real = RealCalls(asked)
                  /\ asked = <<>> => real = <<>>
                  /\ real = <<>> \/ asked \in {<<"tool">>, <<"tool", "tool">>}
                  /\ asked \in {<<"tool">>, <<"tool", "tool">>} => real # <<>>
                  /\ \A i \in DOMAIN real : ~Synthetic(real[i])
  BY <1>3, RealCallsFacts
<1>5. CASE provider = "anthropic"
  <2>1. reply = AnthropicResponse(asked, cut)
    BY <1>5 DEF Response
  <2>2. reply.calls = real /\ reply.stop = IF StopOf(asked, cut) = "tool_use" /\ real = <<>> /\ params.format
                                           THEN "end" ELSE StopOf(asked, cut)
    BY <1>4, <2>1 DEF AnthropicResponse
  <2>3. StopOf(asked, cut) = "tool_use" => asked # <<>>
    BY DEF StopOf
  <2>4. real = <<>> /\ asked # <<>> => params.format
    BY <1>3, <1>4 DEF AnswerLists
  <2> QED BY <1>3, <1>4, <2>2, <2>3, <2>4
<1>6. ASSUME provider \in {"openai", "openrouter", "google"}
      PROVE  /\ reply.calls = asked
             /\ reply.stop = "tool_use" => asked # <<>>
  BY <1>6 DEF Response, OpenAIResponse, OpenRouterResponse, GoogleResponse, StopOf
<1>7. CASE provider \in {"openai", "openrouter", "google"}
  <2>1. asked \in {<<>>, <<"tool">>, <<"tool", "tool">>}
    BY <1>3, <1>7 DEF AnswerLists
  <2>2. \A i \in DOMAIN asked : ~Synthetic(asked[i])
    BY <2>1 DEF Synthetic
  <2> QED BY <1>3, <1>6, <1>7, <2>1, <2>2
<1>8. CASE provider = "ollama"
  BY <1>8 DEF Response, OllamaResponse
<1> QED
  BY <1>2, <1>5, <1>7, <1>8

LEMMA RequestStep == RequestInv /\ [RequestNext]_requestVars => RequestInv'
<1> SUFFICES ASSUME RequestInv, [RequestNext]_requestVars PROVE RequestInv'
  OBVIOUS
<1>1. CASE Send
  <2>1. StopMatchesCalls'
    BY <1>1 DEF Send, RequestInv, StopMatchesCalls, NoResponse
  <2> QED BY <1>1, <2>1 DEF Send, RequestInv
<1>2. ASSUME phase' \in {"answered", "threw"}, StopMatchesCalls', UNCHANGED <<provider, conversation, params>>
      PROVE  RequestInv'
  BY <1>2 DEF RequestInv
<1>3. CASE CannotConvert
  <2>1. StopMatchesCalls'
    BY <1>3 DEF CannotConvert, StopMatchesCalls
  <2> QED BY <1>2, <1>3, <2>1 DEF CannotConvert
<1>4. CASE Answers
  <2>1. PICK asked \in AnswerCalls, cut \in BOOLEAN, json \in BOOLEAN : response' = Response(asked, cut, json)
    BY <1>4 DEF Answers
  <2>2. phase = "sent" /\ body' = body
    BY <1>4 DEF Answers
  <2>3. StopMatchesCalls'
    BY <2>1, <2>2, ResponsesMatch DEF StopMatchesCalls
  <2> QED BY <1>2, <1>4, <2>3 DEF Answers
<1>5. CASE Blocked
  <2>1. StopMatchesCalls'
    BY <1>5 DEF Blocked, StopMatchesCalls
  <2> QED BY <1>2, <1>5, <2>1 DEF Blocked
<1>6. CASE RateLimited
  <2>1. StopMatchesCalls'
    <3>1. PICK wait : response' = [kind |-> "rate limit", wait |-> wait]
      BY <1>6 DEF RateLimited
    <3> QED BY <3>1 DEF StopMatchesCalls
  <2> QED BY <1>2, <1>6, <2>1 DEF RateLimited
<1>7. CASE Refused
  <2>1. StopMatchesCalls'
    BY <1>7 DEF Refused, StopMatchesCalls
  <2> QED BY <1>2, <1>7, <2>1 DEF Refused
<1>8. CASE UNCHANGED requestVars
  <2>1. StopMatchesCalls'
    BY <1>8 DEF requestVars, RequestInv, StopMatchesCalls
  <2> QED BY <1>8, <2>1 DEF requestVars, RequestInv
<1> QED
  BY <1>1, <1>3, <1>4, <1>5, <1>6, <1>7, <1>8 DEF RequestNext

LEMMA RequestHolds == RequestInv => AnswersFollowCalls
<1> SUFFICES ASSUME RequestInv, phase = "sent", Answered(conversation), provider # "ollama"
             PROVE  AnswersFollowCalls
  BY DEF AnswersFollowCalls
<1>c. PICK c \in Seq(Messages) : c = conversation
  BY DEF RequestInv
<1>n. PICK n \in Nat : n = Len(c)
  OBVIOUS
<1>p. params.prompt \in BOOLEAN
  BY DEF RequestInv, Params
<1>1. PICK turns : turns = body.turns /\ turns = Turns(provider, c, params.prompt)
  BY <1>c DEF RequestInv, Body
<1>2. CASE provider = "anthropic"
  <2>1. turns = AnthropicTurns(c)
    BY <1>1, <1>2 DEF Turns
  <2>2. turns \in TurnLists
    BY <1>c, <1>n, <2>1, AnthropicAnswers
  <2>3. FlatSaid(turns) = FlattenSeq(MeantBy(c))
    BY <1>c, <1>n, <2>1, AnthropicAnswers
  <2>4. \A i \in 1..Len(turns) : HasCalls(turns[i].blocks) => i < Len(turns) /\ ResultsNext(turns, i)
    BY <1>c, <1>n, <2>1, AnthropicAnswers
  <2>5. DOMAIN turns = 1..Len(turns)
    BY <2>2 DEF TurnLists
  <2> QED BY <1>c, <1>1, <1>2, <2>3, <2>4, <2>5
          DEF AnswersFollowCalls, FlatSaid, SaidOf, MeantBy, ResultsNext, ResultsOf
<1>3. CASE provider # "anthropic"
  <2>1. turns \in TurnLists /\ AnswersKept(turns, c)
    <3>1. provider \in {"openai", "openrouter", "google"}
      BY <1>3, RequestAssumption DEF RequestInv
    <3>2. provider = "google" => turns = GoogleTurns(c)
      BY <1>1 DEF Turns
    <3>3. provider \in {"openai", "openrouter"} => turns = OpenAITurns(c, params.prompt)
      BY <1>1 DEF Turns, OpenAITurns, OpenRouterTurns
    <3> QED BY <1>c, <1>n, <1>p, <3>1, <3>2, <3>3, GoogleAnswers, OpenAIAnswers
  <2>2. DOMAIN turns = 1..Len(turns)
    BY <2>1 DEF TurnLists
  <2> QED BY <1>c, <1>1, <1>3, <2>1, <2>2 DEF AnswersFollowCalls, AnswersKept, FlatSaid, SaidOf, MeantBy
<1> QED
  BY <1>2, <1>3
-----------------------------------------------------------------------------
(* What a provider sends. *)
PayloadTypes == {"text", "start", "delta", "stop", "finish", "length", "usage", "done", "call", "error"}
Payloads == [type : PayloadTypes, index : 0..2]
TypesFrom(s) ==
  CASE s = "anthropic" -> {"text", "start", "delta", "stop", "usage"}
    [] s \in Completions -> {"text", "start", "delta", "finish", "length", "usage", "done"}
    [] s = "google" -> {"text", "call", "usage"}
    [] s = "ollama" -> {"text", "usage", "error"}
OfCalls == {"start", "delta", "stop"}

(* A call starts once and before its pieces, and has no more of them once  *)
(* it stopped or the calls are finished; "done" and an error come last.    *)
SentFine ==
  /\ source \in {"anthropic", "openai", "openrouter", "google", "ollama"}
  /\ sent \in Seq(Payloads)
  /\ \A x \in 1..Len(sent) :
       /\ sent[x].type \in TypesFrom(source) /\ (sent[x].type \in OfCalls <=> sent[x].index \in Indexes)
       /\ sent[x].type = "start" => \A y \in 1..(x - 1) : sent[y] # sent[x]
       /\ sent[x].type \in {"delta", "stop"} => \E y \in 1..(x - 1) : sent[y] = Payload("start", sent[x].index)
       /\ sent[x].type = "stop" => \A y \in (x + 1)..Len(sent) : sent[y] # Payload("delta", sent[x].index)
       /\ sent[x].type = "finish" => \A y \in (x + 1)..Len(sent) : sent[y].type \notin {"start", "delta"}
       /\ sent[x].type \in {"done", "error"} => x = Len(sent)

LEMMA TypesFromFacts ==
  /\ TypesFrom("anthropic") = {"text", "start", "delta", "stop", "usage"}
  /\ \A s \in Completions : TypesFrom(s) = {"text", "start", "delta", "finish", "length", "usage", "done"}
  /\ TypesFrom("google") = {"text", "call", "usage"}
  /\ TypesFrom("ollama") = {"text", "usage", "error"}
  /\ Completions = {"openai", "openrouter"}
<1>1. Completions = {"openai", "openrouter"}
  BY DEF Completions
<1>3. "google" \notin Completions /\ "ollama" \notin Completions /\ "anthropic" \notin Completions
  BY <1>1
<1>2. TypesFrom("anthropic") = {"text", "start", "delta", "stop", "usage"}
  BY <1>3 DEF TypesFrom
<1>4. \A s \in Completions : TypesFrom(s) = {"text", "start", "delta", "finish", "length", "usage", "done"}
  BY <1>3 DEF TypesFrom
<1>5. TypesFrom("google") = {"text", "call", "usage"}
  BY <1>3 DEF TypesFrom
<1>6. TypesFrom("ollama") = {"text", "usage", "error"}
  BY <1>3 DEF TypesFrom
<1> QED
  BY <1>1, <1>2, <1>4, <1>5, <1>6

LEMMA CallPayload ==
  ASSUME NEW t \in OfCalls, NEW i \in Indexes
  PROVE  Payload(t, i) \in Payloads /\ Payload(t, i).type = t /\ Payload(t, i).index = i
  BY DEF OfCalls, Payload, Payloads, PayloadTypes, Indexes

(* What the next payload may be, after those that were sent.               *)
LEMMA NextFacts ==
  ASSUME SentFine, NEW p \in NextPayloads
  PROVE  /\ p \in Payloads /\ p.type \in TypesFrom(source) /\ (p.type \in OfCalls <=> p.index \in Indexes)
         /\ p.type = "start" => \A y \in 1..Len(sent) : sent[y] # p
         /\ p.type \in {"delta", "stop"} => \E y \in 1..Len(sent) : sent[y] = Payload("start", p.index)
         /\ p.type = "delta" => \A y \in 1..Len(sent) : sent[y] # Payload("stop", p.index)
         /\ p.type \in {"start", "delta"} => \A y \in 1..Len(sent) : sent[y].type # "finish"
         /\ \A y \in 1..Len(sent) : sent[y].type \notin {"done", "error"}
<1> DEFINE Okay(q) == /\ q \in Payloads /\ q.type \in TypesFrom(source) /\ (q.type \in OfCalls <=> q.index \in Indexes)
                      /\ q.type = "start" => \A y \in 1..Len(sent) : sent[y] # q
                      /\ q.type \in {"delta", "stop"} => \E y \in 1..Len(sent) : sent[y] = Payload("start", q.index)
                      /\ q.type = "delta" => \A y \in 1..Len(sent) : sent[y] # Payload("stop", q.index)
                      /\ q.type \in {"start", "delta"} => \A y \in 1..Len(sent) : sent[y].type # "finish"
           starting == IF Opened = Stopped THEN Fresh ELSE {}
<1>0. DOMAIN sent = 1..Len(sent) /\ Opened \subseteq Indexes /\ Fresh \subseteq Indexes \ Opened
      /\ starting \subseteq Fresh
  BY DEF SentFine, Opened, Fresh
<1>1. \A i \in Indexes \ Opened : \A y \in 1..Len(sent) : sent[y] # Payload("start", i)
  BY <1>0 DEF Opened, SentAs
<1>2. \A i \in Opened : i \in Indexes /\ \E y \in 1..Len(sent) : sent[y] = Payload("start", i)
  BY <1>0 DEF Opened, SentAs
<1>3. \A i \in Indexes \ Stopped : \A y \in 1..Len(sent) : sent[y] # Payload("stop", i)
  BY <1>0 DEF Stopped, SentAs
<1>4. ~HasSent({"finish", "length"}) => \A y \in 1..Len(sent) : sent[y].type # "finish"
  BY <1>0 DEF HasSent
<1>5. ~HasSent({"done", "error"})
  BY DEF NextPayloads, Completions
<1>6. \A y \in 1..Len(sent) : sent[y].type \notin {"done", "error"}
  BY <1>0, <1>5 DEF HasSent
<1>7. source = "anthropic" \/ source \in Completions => "delta" \in TypesFrom(source) /\ "start" \in TypesFrom(source)
  BY TypesFromFacts
<1>8. ASSUME NEW t \in TypesFrom(source) \ OfCalls PROVE Okay(Payload(t, 0))
  <2>1. TypesFrom(source) \subseteq PayloadTypes /\ "start" # t /\ "delta" # t /\ "stop" # t
    BY TypesFromFacts DEF SentFine, PayloadTypes, OfCalls
  <2>2. Payload(t, 0) \in Payloads /\ Payload(t, 0).type = t /\ Payload(t, 0).index \notin Indexes
    BY <2>1 DEF Payload, Payloads, Indexes
  <2> QED BY <2>1, <2>2
<1>9. ASSUME NEW i \in Indexes \ Opened, source = "anthropic" \/ ~HasSent({"finish", "length"}),
             source = "anthropic" \/ source \in Completions
      PROVE  Okay(Payload("start", i))
  <2>1. \A y \in 1..Len(sent) : sent[y].type # "finish"
    BY <1>4, <1>9, TypesFromFacts DEF SentFine
  <2>2. Payload("start", i) \in Payloads /\ Payload("start", i).type = "start" /\ Payload("start", i).index = i
    BY CallPayload DEF OfCalls
  <2> QED BY <1>1, <1>7, <1>9, <2>1, <2>2 DEF OfCalls
<1>10. ASSUME NEW i \in Opened, source = "anthropic" \/ ~HasSent({"finish", "length"}),
              source = "anthropic" \/ source \in Completions, i \notin Stopped \/ source \in Completions
       PROVE  Okay(Payload("delta", i))
  <2>1. \A y \in 1..Len(sent) : sent[y].type # "finish"
    BY <1>4, <1>10, TypesFromFacts DEF SentFine
  <2>2. Payload("delta", i) \in Payloads /\ Payload("delta", i).type = "delta" /\ Payload("delta", i).index = i
    BY <1>2, CallPayload DEF OfCalls
  <2>3. \A y \in 1..Len(sent) : sent[y] # Payload("stop", i)
    <3>1. source \in Completions => \A y \in 1..Len(sent) : sent[y].type # "stop"
      BY TypesFromFacts DEF SentFine
    <3>2. Payload("stop", i).type = "stop"
      BY DEF Payload
    <3> QED BY <1>2, <1>3, <1>10, <3>1, <3>2
  <2> QED BY <1>2, <1>7, <1>10, <2>1, <2>2, <2>3 DEF OfCalls
<1>11. ASSUME NEW i \in Opened, source = "anthropic" PROVE Okay(Payload("stop", i))
  <2>1. Payload("stop", i) \in Payloads /\ Payload("stop", i).type = "stop" /\ Payload("stop", i).index = i
    BY <1>2, CallPayload DEF OfCalls
  <2>2. "stop" \in TypesFrom(source)
    BY <1>11, TypesFromFacts
  <2> QED BY <1>2, <2>1, <2>2 DEF OfCalls
<1> DEFINE Plainly == {Payload(t, 0) : t \in TypesFrom(source) \ OfCalls}
<1>12. \A q \in Plainly : Okay(q)
  BY <1>8
<1>13. CASE source = "anthropic"
  <2> DEFINE starts == PayloadsOf("start", starting)
             deltas == PayloadsOf("delta", Opened \ Stopped)
             stops == PayloadsOf("stop", Opened \ Stopped)
  <2>1. p \in {Payload("text", 0)} \cup starts \cup deltas \cup stops \cup {Payload("usage", 0)}
    <3>1. NextPayloads = {Payload("text", 0)} \cup starts \cup deltas \cup stops \cup {Payload("usage", 0)}
      BY <1>5, <1>13 DEF NextPayloads, Completions
    <3> QED BY <3>1
  <2>2. {Payload("text", 0), Payload("usage", 0)} \subseteq Plainly
    BY <1>13, TypesFromFacts DEF OfCalls
  <2>3. \A q \in starts : Okay(q)
    <3> HIDE DEF Okay, starting
    <3> QED BY <1>0, <1>9, <1>13 DEF PayloadsOf
  <2>4. (\A q \in deltas : Okay(q)) /\ \A q \in stops : Okay(q)
    <3> HIDE DEF Okay
    <3> QED BY <1>10, <1>11, <1>13 DEF PayloadsOf
  <2>5. Okay(p)
    <3> HIDE DEF Okay, starts, deltas, stops, Plainly
    <3> QED BY <1>12, <2>1, <2>2, <2>3, <2>4
  <2> QED BY <1>6, <2>5
<1>14. CASE source \in Completions
  <2>0. source # "anthropic"
    BY <1>14 DEF Completions
  <2>1. CASE HasSent({"finish", "length"})
    <3>1. p \in {Payload("usage", 0), Payload("done", 0)}
      BY <1>5, <1>14, <2>0, <2>1 DEF NextPayloads, Completions
    <3>2. p \in Plainly
      BY <1>14, <3>1, TypesFromFacts DEF OfCalls
    <3> QED BY <1>6, <1>12, <3>2
  <2>2. CASE ~HasSent({"finish", "length"})
    <3> DEFINE starts == PayloadsOf("start", Fresh)
               deltas == PayloadsOf("delta", Opened)
    <3>1. p \in {Payload("text", 0)} \cup starts \cup deltas
                  \cup {Payload(IF Opened = {} THEN "length" ELSE "finish", 0), Payload("length", 0)}
      BY <1>5, <1>14, <2>0, <2>2 DEF NextPayloads, Completions
    <3>2. {Payload("text", 0), Payload("length", 0), Payload("finish", 0)} \subseteq Plainly
      BY <1>14, TypesFromFacts DEF OfCalls
    <3>3. \A q \in starts : Okay(q)
      <4> HIDE DEF Okay
      <4> QED BY <1>0, <1>9, <1>14, <2>2 DEF PayloadsOf
    <3>4. \A q \in deltas : Okay(q)
      <4> HIDE DEF Okay
      <4> QED BY <1>10, <1>14, <2>2 DEF PayloadsOf
    <3>5. Okay(p)
      <4>1. Payload(IF Opened = {} THEN "length" ELSE "finish", 0) \in {Payload("length", 0), Payload("finish", 0)}
        OBVIOUS
      <4> HIDE DEF Okay, starts, deltas, Plainly
      <4> QED BY <1>12, <3>1, <3>2, <3>3, <3>4, <4>1
    <3> QED BY <1>6, <3>5
  <2> QED BY <2>1, <2>2
<1>15. CASE source = "google"
  <2>1. p \in {Payload("text", 0), Payload("call", 0), Payload("usage", 0)}
    BY <1>5, <1>15 DEF NextPayloads, Completions
  <2>2. p \in Plainly
    BY <1>15, <2>1, TypesFromFacts DEF OfCalls
  <2> QED BY <1>6, <1>12, <2>2
<1>16. CASE source = "ollama"
  <2>1. p \in {Payload("text", 0), Payload("usage", 0), Payload("error", 0)}
    BY <1>5, <1>16 DEF NextPayloads, Completions
  <2>2. p \in Plainly
    BY <1>16, <2>1, TypesFromFacts DEF OfCalls
  <2> QED BY <1>6, <1>12, <2>2
<1> QED
  BY <1>13, <1>14, <1>15, <1>16 DEF SentFine, Completions

(* A provider that goes on keeps the order of its calls.                   *)
LEMMA SentGrows ==
  ASSUME SentFine, NEW p \in NextPayloads, sent' = Append(sent, p), UNCHANGED source
  PROVE  /\ SentFine' /\ Len(sent') = Len(sent) + 1 /\ sent'[Len(sent) + 1] = p
         /\ \A x \in 1..Len(sent) : sent'[x] = sent[x]
<1>n. PICK n \in Nat : n = Len(sent)
  BY DEF SentFine
<1>1. /\ p \in Payloads /\ p.type \in TypesFrom(source) /\ (p.type \in OfCalls <=> p.index \in Indexes)
      /\ p.type = "start" => \A y \in 1..n : sent[y] # p
      /\ p.type \in {"delta", "stop"} => \E y \in 1..n : sent[y] = Payload("start", p.index)
      /\ p.type = "delta" => \A y \in 1..n : sent[y] # Payload("stop", p.index)
      /\ p.type \in {"start", "delta"} => \A y \in 1..n : sent[y].type # "finish"
      /\ \A y \in 1..n : sent[y].type \notin {"done", "error"}
  BY <1>n, NextFacts
<1>2. PICK u \in Seq(Payloads) : u = sent' /\ Len(u) = n + 1 /\ u[n + 1] = p /\ \A x \in 1..n : u[x] = sent[x]
  BY <1>n, <1>1 DEF SentFine
<1> DEFINE Okay(x) ==
       /\ u[x].type \in TypesFrom(source) /\ (u[x].type \in OfCalls <=> u[x].index \in Indexes)
       /\ u[x].type = "start" => \A y \in 1..(x - 1) : u[y] # u[x]
       /\ u[x].type \in {"delta", "stop"} => \E y \in 1..(x - 1) : u[y] = Payload("start", u[x].index)
       /\ u[x].type = "stop" => \A y \in (x + 1)..(n + 1) : u[y] # Payload("delta", u[x].index)
       /\ u[x].type = "finish" => \A y \in (x + 1)..(n + 1) : u[y].type \notin {"start", "delta"}
       /\ u[x].type \in {"done", "error"} => x = n + 1
<1>3. Okay(n + 1)
  <2>1. 1..((n + 1) - 1) = 1..n /\ ((n + 1) + 1)..(n + 1) = {}
    OBVIOUS
  <2> QED BY <1>1, <1>2, <2>1
<1>4. ASSUME NEW x \in 1..n PROVE Okay(x)
  <2>1. u[x] = sent[x] /\ sent[x] \in Payloads
    BY <1>2, <1>n DEF SentFine
  <2>2. \A y \in (x + 1)..(n + 1) : y \in (x + 1)..n \/ y = n + 1
    OBVIOUS
  <2>3. \A y \in 1..(x - 1) : u[y] = sent[y]
    BY <1>2
  <2>4. \A y \in (x + 1)..n : u[y] = sent[y]
    BY <1>2
  <2>5. /\ sent[x].type \in TypesFrom(source) /\ (sent[x].type \in OfCalls <=> sent[x].index \in Indexes)
        /\ sent[x].type = "start" => \A y \in 1..(x - 1) : sent[y] # sent[x]
        /\ sent[x].type \in {"delta", "stop"} => \E y \in 1..(x - 1) : sent[y] = Payload("start", sent[x].index)
        /\ sent[x].type = "stop" => \A y \in (x + 1)..n : sent[y] # Payload("delta", sent[x].index)
        /\ sent[x].type = "finish" => \A y \in (x + 1)..n : sent[y].type \notin {"start", "delta"}
    BY <1>n DEF SentFine
  <2>6. sent[x].type = "stop" => p # Payload("delta", sent[x].index)
    <3>1. ASSUME sent[x].type = "stop", p = Payload("delta", sent[x].index) PROVE FALSE
      <4>1. p.type = "delta" /\ p.index = sent[x].index
        BY <3>1 DEF Payload
      <4>2. sent[x] = Payload("stop", p.index)
        BY <2>1, <3>1, <4>1 DEF Payload, Payloads
      <4> QED BY <1>1, <4>1, <4>2
    <3> QED BY <3>1
  <2>7. sent[x].type = "finish" => p.type \notin {"start", "delta"}
    BY <1>1
  <2>8. sent[x].type \notin {"done", "error"}
    BY <1>1
  <2>9. sent[x].type = "stop" => \A y \in (x + 1)..(n + 1) : u[y] # Payload("delta", sent[x].index)
    BY <1>2, <2>2, <2>4, <2>5, <2>6
  <2>10. sent[x].type = "finish" => \A y \in (x + 1)..(n + 1) : u[y].type \notin {"start", "delta"}
    BY <1>2, <2>2, <2>4, <2>5, <2>7
  <2> QED BY <2>1, <2>3, <2>5, <2>8, <2>9, <2>10
<1>5. \A x \in 1..(n + 1) : Okay(x)
  <2>1. \A x \in 1..(n + 1) : x = n + 1 \/ x \in 1..n
    OBVIOUS
  <2> HIDE DEF Okay
  <2> QED BY <1>3, <1>4, <2>1
<1>6. SentFine'
  <2>1. source' = source /\ sent' = u /\ Len(u) = n + 1
    BY <1>2
  <2>2. source \in {"anthropic", "openai", "openrouter", "google", "ollama"}
    BY DEF SentFine
  <2> QED BY <1>5, <2>1, <2>2 DEF SentFine
<1> QED
  BY <1>n, <1>2, <1>6
-----------------------------------------------------------------------------
(* What an adapter keeps and yields. *)
OutTypes == PayloadTypes \cup {"end"}
Chunks == [type : OutTypes, n : Nat, args : Seq(Nat)]
Outs == Seq(Chunks)
Yielding(o, c) == Append(o, c)
Begun(o, n) == \E j \in 1..Len(o) : o[j].type = "start" /\ o[j].n = n
Over(o, n) == \E j \in 1..Len(o) : o[j].type = "end" /\ o[j].n = n

LEMMA PutFacts ==
  ASSUME NEW o \in Outs, NEW c \in Chunks, NEW u, u = Yielding(o, c), NEW l \in Nat, l = Len(o)
  PROVE  /\ u \in Outs /\ Len(u) = l + 1
         /\ \A k \in 1..l : u[k] = o[k]
         /\ u[l + 1] = c
         /\ \A n : Begun(u, n) <=> Begun(o, n) \/ (c.type = "start" /\ c.n = n)
         /\ \A n : Over(u, n) <=> Over(o, n) \/ (c.type = "end" /\ c.n = n)
<1>1. u \in Outs /\ Len(u) = l + 1 /\ (\A k \in 1..l : u[k] = o[k]) /\ u[l + 1] = c
  BY DEF Yielding, Outs
<1>2. (\A k \in 1..(l + 1) : k = l + 1 \/ k \in 1..l) /\ (\A k \in 1..l : k \in 1..(l + 1)) /\ l + 1 \in 1..(l + 1)
  OBVIOUS
<1>3. \A n : Begun(u, n) <=> Begun(o, n) \/ (c.type = "start" /\ c.n = n)
  <2> TAKE n
  <2>1. Begun(u, n) => Begun(o, n) \/ (c.type = "start" /\ c.n = n)
    BY <1>1, <1>2 DEF Begun
  <2>2. Begun(o, n) => Begun(u, n)
    BY <1>1, <1>2 DEF Begun
  <2>3. c.type = "start" /\ c.n = n => Begun(u, n)
    BY <1>1, <1>2 DEF Begun
  <2> QED BY <2>1, <2>2, <2>3
<1>4. \A n : Over(u, n) <=> Over(o, n) \/ (c.type = "end" /\ c.n = n)
  <2> TAKE n
  <2>1. Over(u, n) => Over(o, n) \/ (c.type = "end" /\ c.n = n)
    BY <1>1, <1>2 DEF Over
  <2>2. Over(o, n) => Over(u, n)
    BY <1>1, <1>2 DEF Over
  <2>3. c.type = "end" /\ c.n = n => Over(u, n)
    BY <1>1, <1>2 DEF Over
  <2> QED BY <2>1, <2>2, <2>3
<1> QED
  BY <1>1, <1>3, <1>4

Shown(o, i, c) == IF Synthetic1(i) THEN o ELSE Yielding(o, c)
Adding(o, i, c) == o \o Visible(i, c)

LEMMA ShownFacts ==
  ASSUME NEW o \in Outs, NEW c \in Chunks, NEW i
  PROVE  Adding(o, i, c) = Shown(o, i, c) /\ Shown(o, i, c) \in Outs
<1>0. o \in Seq(Chunks)
  BY DEF Outs
<1>1. Append(o, c) = o \o <<c>> /\ Append(o, c) \in Seq(Chunks)
  BY <1>0, AppendIsConcat
<1>2. o \o <<>> = o
  BY <1>0, ConcatEmptySeq
<1> QED
  BY <1>0, <1>1, <1>2 DEF Adding, Visible, Shown, Yielding, Outs

(* The calls that are open, what is read and yielded, and the accumulator. *)
OpenCalls == [n : Nat, args : Seq(Nat)]
Actives == [Indexes -> OpenCalls \cup {NoBlock}]
Halves == [n : 1..Len(sent), half : {1, 2}]
HalfLines == Seq(Halves)
LineLists == Seq(HalfLines)
Accs == [line : HalfLines, lines : LineLists, active : Actives, out : Outs,
         stage : {"reading", "ended", "threw", "left"}]
CallOf(n, args) == [n |-> n, args |-> args]
Like(e, acc) == e.line = acc.line /\ e.lines = acc.lines /\ e.stage = acc.stage
Further(args, n) == Append(args, n)

LEMMA AccIs ==
  ASSUME NEW acc \in Accs
  PROVE  /\ acc.active \in Actives /\ acc.out \in Outs
         /\ \A i \in Indexes : acc.active[i] # NoBlock => acc.active[i] \in OpenCalls
  BY DEF Accs, Actives

Having(acc, a, o) == [acc EXCEPT !.active = a, !.out = o]
LEMMA HavingFacts ==
  ASSUME NEW acc \in Accs, NEW a \in Actives, NEW o \in Outs, NEW e, e = Having(acc, a, o)
  PROVE  e \in Accs /\ e.active = a /\ e.out = o /\ Like(e, acc)
  BY DEF Accs, Having, Like

LEMMA ChunkTyped ==
  ASSUME NEW t \in OutTypes, NEW n \in Nat, NEW args \in Seq(Nat)
  PROVE  Chunk(t, n, args) \in Chunks /\ Chunk(t, n, args).type = t /\ Chunk(t, n, args).n = n
         /\ Chunk(t, n, args).args = args
  BY DEF Chunk, Chunks

LEMMA SentIndex ==
  ASSUME SentFine, NEW n \in 1..Len(sent)
  PROVE  /\ sent[n] \in Payloads /\ n \in Nat
         /\ sent[n].type \in OfCalls => sent[n].index \in Indexes
         /\ sent[n].type \in OutTypes /\ sent[n].type # "end"
<1>1. sent[n] \in Payloads /\ n \in Nat /\ (sent[n].type \in OfCalls => sent[n].index \in Indexes)
  BY DEF SentFine
<1> QED
  BY <1>1 DEF Payloads, OutTypes, PayloadTypes

LEMMA StartedFacts ==
  ASSUME SentFine, NEW acc \in Accs, NEW n \in 1..Len(sent), sent[n].type = "start",
         NEW i, i = sent[n].index, NEW e, e = Started(acc, n)
  PROVE  /\ i \in Indexes /\ e \in Accs /\ Like(e, acc)
         /\ e.active = [acc.active EXCEPT ![i] = CallOf(n, <<>>)]
         /\ e.out = Shown(acc.out, i, Chunk("start", n, <<>>))
<1>1. i \in Indexes /\ n \in Nat
  BY SentIndex DEF OfCalls
<1>2. PICK a \in Actives : a = [acc.active EXCEPT ![i] = CallOf(n, <<>>)]
  <2>1. CallOf(n, <<>>) \in OpenCalls
    BY <1>1 DEF CallOf, OpenCalls
  <2> QED BY <1>1, <2>1, AccIs DEF Actives
<1>3. PICK o \in Outs : /\ o = Shown(acc.out, i, Chunk("start", n, <<>>))
                        /\ Adding(acc.out, i, Chunk("start", n, <<>>)) = o
  <2>1. "start" \in OutTypes /\ <<>> \in Seq(Nat)
    BY DEF OutTypes, PayloadTypes
  <2>2. Chunk("start", n, <<>>) \in Chunks
    BY <1>1, <2>1, ChunkTyped
  <2> QED BY <2>2, AccIs, ShownFacts
<1>4. e = Having(acc, a, o)
  BY <1>2, <1>3 DEF Started, CallOf, Accs, Having, Adding
<1> QED
  BY <1>1, <1>2, <1>3, <1>4, HavingFacts

LEMMA GrownFacts ==
  ASSUME SentFine, NEW acc \in Accs, NEW n \in 1..Len(sent), sent[n].type = "delta",
         NEW i, i = sent[n].index, NEW e, e = Grown(acc, n)
  PROVE  /\ i \in Indexes /\ e \in Accs /\ Like(e, acc)
         /\ acc.active[i] = NoBlock => e.active = acc.active
         /\ acc.active[i] # NoBlock =>
              e.active = [acc.active EXCEPT ![i] = CallOf(acc.active[i].n, Further(acc.active[i].args, n))]
         /\ e.out = acc.out \/ e.out = Yielding(acc.out, Chunk("delta", n, <<>>))
<1>1. i \in Indexes /\ n \in Nat
  BY SentIndex DEF OfCalls
<1>2. PICK a \in Actives :
        /\ acc.active[i] = NoBlock => a = acc.active
        /\ acc.active[i] # NoBlock =>
             a = [acc.active EXCEPT ![i] = CallOf(acc.active[i].n, Further(acc.active[i].args, n))]
  <2>1. acc.active[i] # NoBlock => CallOf(acc.active[i].n, Further(acc.active[i].args, n)) \in OpenCalls
    BY <1>1, AccIs DEF CallOf, OpenCalls, Further
  <2> QED BY <1>1, <2>1, AccIs DEF Actives
<1>3. PICK o \in Outs : /\ o = Shown(acc.out, i, Chunk("delta", n, <<>>))
                        /\ Adding(acc.out, i, Chunk("delta", n, <<>>)) = o
  <2>1. "delta" \in OutTypes /\ <<>> \in Seq(Nat)
    BY DEF OutTypes, PayloadTypes
  <2>2. Chunk("delta", n, <<>>) \in Chunks
    BY <1>1, <2>1, ChunkTyped
  <2> QED BY <2>2, AccIs, ShownFacts
<1>4. PICK z \in Outs : z = IF acc.active[i] # NoBlock \/ source # "anthropic" THEN o ELSE acc.out
  BY AccIs
<1>5. e = Having(acc, a, z)
  <2>1. CASE acc.active[i] = NoBlock
    <3>1. [acc.active EXCEPT ![i] = acc.active[i]] = acc.active
      BY <1>1, AccIs DEF Actives
    <3>2. e = Having(acc, [acc.active EXCEPT ![i] = acc.active[i]], z)
      BY <1>3, <1>4, <2>1 DEF Grown, Accs, Having, Adding
    <3> QED BY <1>2, <2>1, <3>1, <3>2
  <2>2. CASE acc.active[i] # NoBlock
    <3>0. PICK call \in OpenCalls : call = acc.active[i]
      BY <1>1, <2>2, AccIs
    <3>1. PICK x : x = Further(call.args, n)
      OBVIOUS
    <3>2. [call EXCEPT !.args = x] = CallOf(call.n, x)
      BY DEF OpenCalls, CallOf
    <3>3. Longer(call, n) = CallOf(call.n, x)
      BY <3>1, <3>2 DEF Longer, Further
    <3>4. e = [acc EXCEPT !.active[i] = Longer(@, n), !.out = z]
      BY <1>3, <1>4, <2>2 DEF Grown, Adding
    <3>5. e = Having(acc, [acc.active EXCEPT ![i] = Longer(call, n)], z)
      BY <1>1, <3>0, <3>4 DEF Accs, Having
    <3> QED BY <1>2, <2>2, <3>0, <3>1, <3>3, <3>5
  <2> QED BY <2>1, <2>2
<1>6. e \in Accs /\ Like(e, acc) /\ e.active = a /\ e.out = z
  BY <1>5, HavingFacts
<1> QED
  BY <1>1, <1>2, <1>3, <1>4, <1>6 DEF Shown

LEMMA EndedFacts ==
  ASSUME NEW acc \in Accs, NEW i \in Indexes, NEW e, e = Ended(acc, i)
  PROVE  /\ e \in Accs /\ Like(e, acc)
         /\ acc.active[i] = NoBlock => e = acc
         /\ acc.active[i] # NoBlock =>
              /\ e.active = [acc.active EXCEPT ![i] = NoBlock]
              /\ acc.active[i] \in OpenCalls
              /\ e.out = Shown(acc.out, i, Chunk("end", acc.active[i].n, acc.active[i].args))
<1>1. CASE acc.active[i] = NoBlock
  BY <1>1 DEF Ended, Like
<1>2. CASE acc.active[i] # NoBlock
  <2>1. PICK a \in Actives : a = [acc.active EXCEPT ![i] = NoBlock]
    BY AccIs DEF Actives
  <2>2. PICK call \in OpenCalls : call = acc.active[i]
    BY <1>2, AccIs
  <2>3. PICK o \in Outs : /\ o = Shown(acc.out, i, Chunk("end", call.n, call.args))
                          /\ Adding(acc.out, i, Chunk("end", call.n, call.args)) = o
    <3>1. "end" \in OutTypes /\ call.n \in Nat /\ call.args \in Seq(Nat)
      BY DEF OutTypes, OpenCalls
    <3>2. Chunk("end", call.n, call.args) \in Chunks
      BY <3>1, ChunkTyped
    <3> QED BY <3>2, AccIs, ShownFacts
  <2>4. e = Having(acc, a, o)
    BY <1>2, <2>1, <2>2, <2>3 DEF Ended, Accs, Having, Adding
  <2>5. e \in Accs /\ Like(e, acc) /\ e.active = a /\ e.out = o
    BY <2>4, HavingFacts
  <2> QED BY <1>2, <2>1, <2>2, <2>3, <2>5
<1> QED
  BY <1>1, <1>2

-----------------------------------------------------------------------------
(* What is told when the first m payloads were read. *)
Piece(i) == Payload("delta", i)
Pieces(i, m) == {x \in 1..m : sent[x] = Piece(i)}
Closing(i, m) == \E x \in 1..m : sent[x] = Payload("stop", i) \/ sent[x].type = "finish"
Closed(n) == source = "google" \/ Closing(sent[n].index, Len(sent))
TextChunk(n) == Chunk("text", n, <<>>)
IsText(n) == sent[n] = Payload("text", 0)

(* The k-th chunk told, if of text, is a text payload, later than those    *)
(* before it, none of them missing.                                        *)
TextAt(o, k, m) ==
  o[k].type = "text" =>
    /\ o[k].n \in 1..m /\ IsText(o[k].n)
    /\ \A j \in 1..(k - 1) : o[j].type = "text" => o[j].n < o[k].n
    /\ \A n \in 1..m : IsText(n) /\ n < o[k].n => \E j \in 1..(k - 1) : o[j] = TextChunk(n)
AllText(o, m) == \A n \in 1..m : IsText(n) => \E k \in 1..Len(o) : o[k] = TextChunk(n)
TextTold(o, m) == AllText(o, m) /\ \A k \in 1..Len(o) : TextAt(o, k, m)

(* The k-th chunk told, if it ends a call, ends one that started, once,    *)
(* with all its pieces.                                                    *)
EndAt(o, k, m) ==
  o[k].type = "end" =>
    /\ o[k].n \in 1..m
    /\ \E j \in 1..(k - 1) : o[j].type = "start" /\ o[j].n = o[k].n
    /\ \A j \in 1..(k - 1) : ~(o[j].type = "end" /\ o[j].n = o[k].n)
    /\ Lists(o[k].args, PiecesOf(o[k].n)) /\ Closed(o[k].n)
EndsTold(o, m) == \A k \in 1..Len(o) : EndAt(o, k, m)

(* A call that is open has the pieces sent so far, and one that is gone    *)
(* was ended.                                                              *)
OpenAt(call, i, o, m) ==
  /\ call.n \in 1..m /\ sent[call.n] = Payload("start", i) /\ Lists(call.args, Pieces(i, m))
  /\ (Synthetic1(i) \/ Begun(o, call.n)) /\ ~Over(o, call.n) /\ ~Closing(i, m)
GoneAt(i, o, m) ==
  \A n \in 1..m : sent[n] = Payload("start", i) => Closing(i, m) /\ (Synthetic1(i) \/ Over(o, n))
CallTold(call, i, o, m) ==
  /\ call # NoBlock => OpenAt(call, i, o, m)
  /\ call = NoBlock => GoneAt(i, o, m)
CallsTold(a, o, m) == \A i \in Indexes : CallTold(a[i], i, o, m)

(* The tale of the first m payloads.                                       *)
Tale(a, o, m) == TextTold(o, m) /\ EndsTold(o, m) /\ CallsTold(a, o, m)

(* A chunk stands as it stood, if it and those before it are the same.     *)
LEMMA ChunkAtSame ==
  ASSUME NEW o, NEW u, NEW l \in Nat, NEW k \in 1..l, NEW m, \A j \in 1..k : u[j] = o[j]
  PROVE  (TextAt(o, k, m) => TextAt(u, k, m)) /\ (EndAt(o, k, m) => EndAt(u, k, m))
<1>1. u[k] = o[k] /\ \A j \in 1..(k - 1) : u[j] = o[j]
  OBVIOUS
<1>2. TextAt(o, k, m) => TextAt(u, k, m)
  BY <1>1 DEF TextAt
<1>3. EndAt(o, k, m) => EndAt(u, k, m)
  BY <1>1 DEF EndAt
<1> QED
  BY <1>2, <1>3

LEMMA TextStays ==
  ASSUME NEW o \in Outs, NEW c \in Chunks, NEW u, u = Yielding(o, c), NEW m, TextTold(o, m), c.type # "text"
  PROVE  TextTold(u, m)
<1>l. PICK l \in Nat : l = Len(o)
  BY DEF Outs
<1>1. Len(u) = l + 1 /\ (\A k \in 1..l : u[k] = o[k]) /\ u[l + 1] = c
  BY <1>l, PutFacts
<1>2. ASSUME NEW k \in 1..l PROVE TextAt(u, k, m)
  <2>1. \A j \in 1..k : u[j] = o[j]
    BY <1>1
  <2> QED BY <1>l, <2>1, ChunkAtSame DEF TextTold
<1>3. TextAt(u, l + 1, m)
  BY <1>1 DEF TextAt
<1>4. (\A k \in 1..(l + 1) : k = l + 1 \/ k \in 1..l) /\ (\A k \in 1..l : k \in 1..(l + 1))
  OBVIOUS
<1>5. AllText(u, m)
  <2>1. \A n \in 1..m : IsText(n) => \E k \in 1..l : o[k] = TextChunk(n)
    BY <1>l DEF TextTold, AllText
  <2> QED BY <1>1, <1>4, <2>1 DEF AllText
<1> QED
  BY <1>1, <1>2, <1>3, <1>4, <1>5 DEF TextTold

LEMMA TextAdds ==
  ASSUME NEW o \in Outs, NEW m \in Nat, NEW x \in Nat, x = m + 1, NEW c \in Chunks, c = TextChunk(x), c.n = x,
         NEW u, u = Yielding(o, c), TextTold(o, m), IsText(x)
  PROVE  TextTold(u, x)
<1>l. PICK l \in Nat : l = Len(o)
  BY DEF Outs
<1>1. Len(u) = l + 1 /\ (\A k \in 1..l : u[k] = o[k]) /\ u[l + 1] = c
  BY <1>l, PutFacts
<1>4. (\A k \in 1..(l + 1) : k = l + 1 \/ k \in 1..l) /\ (\A k \in 1..l : k \in 1..(l + 1)) /\ l + 1 \in 1..(l + 1)
      /\ (l + 1) - 1 = l
  OBVIOUS
<1>5. (\A n \in 1..x : n = x \/ n \in 1..m) /\ (\A n \in 1..m : n \in 1..x /\ n < x) /\ x \in 1..x
  OBVIOUS
<1>6. \A n \in 1..m : IsText(n) => \E k \in 1..l : o[k] = TextChunk(n)
  BY <1>l DEF TextTold, AllText
<1>2. ASSUME NEW k \in 1..l PROVE TextAt(u, k, x)
  <2>0. \A j \in 1..k : j \in 1..l
    OBVIOUS
  <2>1. \A j \in 1..k : u[j] = o[j]
    BY <1>1, <2>0
  <2>2. TextAt(u, k, m)
    BY <1>l, <2>1, ChunkAtSame DEF TextTold
  <2>3. u[k].type = "text" => ~(x < u[k].n)
    BY <2>2 DEF TextAt
  <2> QED BY <1>5, <2>2, <2>3 DEF TextAt
<1>3. TextAt(u, l + 1, x)
  <2>1. \A j \in 1..l : u[j].type = "text" => u[j].n < x
    BY <1>1, <1>5, <1>l DEF TextTold, TextAt
  <2>2. \A n \in 1..x : IsText(n) /\ n < x => \E j \in 1..l : u[j] = TextChunk(n)
    BY <1>1, <1>5, <1>6
  <2> QED BY <1>1, <1>4, <1>5, <2>1, <2>2 DEF TextAt
<1>7. AllText(u, x)
  BY <1>1, <1>4, <1>5, <1>6 DEF AllText
<1> QED
  BY <1>1, <1>2, <1>3, <1>4, <1>7 DEF TextTold

LEMMA TextLifts ==
  ASSUME NEW o, NEW m \in Nat, NEW x \in Nat, x = m + 1, TextTold(o, m), ~IsText(x)
  PROVE  TextTold(o, x)
<1>1. (\A n \in 1..x : n = x \/ n \in 1..m) /\ (\A n \in 1..m : n \in 1..x)
  OBVIOUS
<1> QED
  BY <1>1 DEF TextTold, TextAt, AllText

LEMMA EndsStay ==
  ASSUME NEW o \in Outs, NEW c \in Chunks, NEW u, u = Yielding(o, c), NEW m, EndsTold(o, m),
         c.type = "end" => /\ c.n \in 1..m /\ Begun(o, c.n) /\ ~Over(o, c.n)
                           /\ Lists(c.args, PiecesOf(c.n)) /\ Closed(c.n)
  PROVE  EndsTold(u, m)
<1>l. PICK l \in Nat : l = Len(o)
  BY DEF Outs
<1>1. Len(u) = l + 1 /\ (\A k \in 1..l : u[k] = o[k]) /\ u[l + 1] = c
  BY <1>l, PutFacts
<1>2. ASSUME NEW k \in 1..l PROVE EndAt(u, k, m)
  <2>1. \A j \in 1..k : u[j] = o[j]
    BY <1>1
  <2> QED BY <1>l, <2>1, ChunkAtSame DEF EndsTold
<1>3. EndAt(u, l + 1, m)
  <2>1. (l + 1) - 1 = l
    OBVIOUS
  <2>2. c.type = "end" => /\ \E j \in 1..l : u[j].type = "start" /\ u[j].n = c.n
                          /\ \A j \in 1..l : ~(u[j].type = "end" /\ u[j].n = c.n)
    BY <1>l, <1>1 DEF Begun, Over
  <2> QED BY <1>1, <2>1, <2>2 DEF EndAt
<1>4. \A k \in 1..(l + 1) : k = l + 1 \/ k \in 1..l
  OBVIOUS
<1> QED
  BY <1>1, <1>2, <1>3, <1>4 DEF EndsTold

LEMMA EndsLift ==
  ASSUME NEW o, NEW m \in Nat, NEW x \in Nat, x = m + 1, EndsTold(o, m)
  PROVE  EndsTold(o, x) /\ ~Over(o, x)
<1>1. (\A n \in 1..m : n \in 1..x) /\ x \notin 1..m
  OBVIOUS
<1> QED
  BY <1>1 DEF EndsTold, EndAt, Over

LEMMA CallStays ==
  ASSUME NEW o \in Outs, NEW c \in Chunks, NEW u, u = Yielding(o, c), NEW m, NEW i, NEW call, CallTold(call, i, o, m),
         call # NoBlock /\ c.type = "end" => c.n # call.n
  PROVE  CallTold(call, i, u, m)
<1>l. PICK l \in Nat : l = Len(o)
  BY DEF Outs
<1>1. /\ \A n : Begun(u, n) <=> Begun(o, n) \/ (c.type = "start" /\ c.n = n)
      /\ \A n : Over(u, n) <=> Over(o, n) \/ (c.type = "end" /\ c.n = n)
  BY <1>l, PutFacts
<1> QED
  BY <1>1 DEF CallTold, OpenAt, GoneAt

LEMMA CallLifts ==
  ASSUME NEW o, NEW m \in Nat, NEW x \in Nat, x = m + 1, NEW i, NEW call, CallTold(call, i, o, m),
         sent[x].type # "finish", sent[x] # Payload("start", i), sent[x] # Piece(i), sent[x] # Payload("stop", i)
  PROVE  CallTold(call, i, o, x)
<1>1. (\A n \in 1..x : n = x \/ n \in 1..m) /\ (\A n \in 1..m : n \in 1..x)
  OBVIOUS
<1>2. Closing(i, x) <=> Closing(i, m)
  BY <1>1 DEF Closing
<1>3. Pieces(i, x) = Pieces(i, m)
  BY <1>1 DEF Pieces
<1>4. OpenAt(call, i, o, m) => OpenAt(call, i, o, x)
  BY <1>1, <1>2, <1>3 DEF OpenAt
<1>5. GoneAt(i, o, m) => GoneAt(i, o, x)
  BY <1>1, <1>2 DEF GoneAt
<1> QED
  BY <1>4, <1>5 DEF CallTold
LEMMA FurtherIn ==
  ASSUME NEW s \in Seq(Nat), NEW n \in Nat
  PROVE  Further(s, n) \in Seq(Nat)
  BY DEF Further

Longest(t, s, n) == \E l \in Nat : l = Len(s) /\ Len(t) = l + 1 /\ t[l + 1] = n /\ \A k \in 1..l : t[k] = s[k]
LEMMA FurtherIs ==
  ASSUME NEW s \in Seq(Nat), NEW n \in Nat, NEW t \in Seq(Nat), t = Further(s, n)
  PROVE  Longest(t, s, n)
<1>1. PICK l \in Nat : l = Len(s)
  OBVIOUS
<1>2. Len(t) = l + 1 /\ t[l + 1] = n /\ \A k \in 1..l : t[k] = s[k]
  BY <1>1 DEF Further
<1> QED
  BY <1>1, <1>2 DEF Longest

LEMMA OutNames ==
  PayloadTypes \subseteq OutTypes /\ {"start", "delta", "end", "text", "usage", "call", "stop", "finish"} \subseteq OutTypes
  BY DEF OutTypes, PayloadTypes

LEMMA PlainChunk ==
  ASSUME NEW type \in OutTypes, NEW n \in Nat, NEW c, c = Chunk(type, n, <<>>)
  PROVE  c \in Chunks /\ c.type = type /\ c.n = n
<1>0. <<>> \in Seq(Nat)
  OBVIOUS
<1>1. PICK args \in Seq(Nat) : args = <<>>
  BY <1>0
<1>2. c = Chunk(type, n, args)
  BY <1>1
<1> QED
  BY <1>2, ChunkTyped

LEMMA StartedCall ==
  ASSUME NEW n \in Nat, NEW call, call = CallOf(n, <<>>)
  PROVE  call \in OpenCalls /\ call # NoBlock /\ call.n = n /\ Lists(call.args, {})
<1>1. <<>> \in Seq(Nat) /\ DOMAIN <<>> = {}
  OBVIOUS
<1>2. call \in OpenCalls /\ call.n = n /\ call.args = <<>>
  BY <1>1 DEF CallOf, OpenCalls
<1>3. call # NoBlock
  BY <1>2, StreamAssumption DEF OpenCalls
<1> QED
  BY <1>1, <1>2, <1>3 DEF Lists

Topped(T, S, n) == /\ \A y \in S : y \in T /\ y < n
                   /\ n \in T /\ \A y \in T : y \in S \/ y = n
LEMMA ListsOneMore ==
  ASSUME NEW s \in Seq(Nat), NEW n \in Nat, NEW t \in Seq(Nat), Longest(t, s, n),
         NEW S, NEW T, Topped(T, S, n), Lists(s, S)
  PROVE  Lists(t, T)
<1>l. PICK l \in Nat : l = Len(s) /\ Len(t) = l + 1 /\ t[l + 1] = n /\ \A k \in 1..l : t[k] = s[k]
  BY DEF Longest
<1>S. (\A y \in S : y \in T /\ y < n) /\ n \in T /\ \A y \in T : y \in S \/ y = n
  BY DEF Topped
<1>5. DOMAIN s = 1..l /\ DOMAIN t = 1..(l + 1)
  BY <1>l
<1>6. (\A k \in 1..(l + 1) : k = l + 1 \/ k \in 1..l) /\ (\A k \in 1..l : k \in 1..(l + 1)) /\ l + 1 \in 1..(l + 1)
      /\ (l + 1) - 1 = l
  OBVIOUS
<1>7. (\A k \in 1..l : s[k] \in S /\ \A j \in 1..(k - 1) : s[j] < s[k]) /\ \A y \in S : \E k \in 1..l : s[k] = y
  BY <1>5 DEF Lists
<1>8. \A k \in 1..(l + 1) : t[k] \in T /\ \A j \in 1..(k - 1) : t[j] < t[k]
  <2>1. \A k \in 1..l : t[k] \in T /\ \A j \in 1..(k - 1) : t[j] < t[k]
    <3> TAKE k \in 1..l
    <3>1. \A j \in 1..(k - 1) : j \in 1..l
      OBVIOUS
    <3> QED BY <1>l, <1>S, <1>7, <3>1
  <2>2. t[l + 1] \in T /\ \A j \in 1..l : t[j] < t[l + 1]
    BY <1>l, <1>S, <1>7
  <2> QED BY <1>6, <2>1, <2>2
<1>9. \A y \in T : \E k \in 1..(l + 1) : t[k] = y
  BY <1>l, <1>S, <1>6, <1>7
<1> QED
  BY <1>5, <1>8, <1>9 DEF Lists

LEMMA FurtherCall ==
  ASSUME NEW call \in OpenCalls, NEW n \in Nat, NEW S, NEW T, Lists(call.args, S), Topped(T, S, n)
  PROVE  \E longer \in OpenCalls : /\ longer = CallOf(call.n, Further(call.args, n)) /\ longer # NoBlock
                                   /\ longer.n = call.n /\ Lists(longer.args, T)
<1>1. PICK s \in Seq(Nat) : s = call.args
  BY DEF OpenCalls
<1>t. PICK t \in Seq(Nat) : t = Further(s, n)
  BY FurtherIn
<1>2. Longest(t, s, n)
  BY <1>t, FurtherIs
<1>3. Lists(t, T)
  <2>1. Lists(s, S)
    BY <1>1
  <2> QED BY <1>2, <2>1, ListsOneMore
<1>4. PICK longer \in OpenCalls : longer = CallOf(call.n, t)
  BY DEF CallOf, OpenCalls
<1>5. longer.n = call.n /\ longer.args = t
  BY <1>4 DEF CallOf
<1>6. longer # NoBlock
  BY StreamAssumption DEF OpenCalls
<1> QED
  BY <1>1, <1>t, <1>3, <1>4, <1>5, <1>6

(* What the payloads sent for a call say. *)
LEMMA SentFacts ==
  ASSUME SentFine, NEW x \in 1..Len(sent), NEW m \in Nat, x = m + 1, NEW i, i = sent[x].index
  PROVE  /\ \A t \in OfCalls : sent[x].type = t => i \in Indexes /\ sent[x] = Payload(t, i)
         /\ \A y \in 1..m : y \in 1..Len(sent)
         /\ sent[x].type = "start" => /\ ~Closing(i, x) /\ Pieces(i, x) = {}
                                      /\ \A n \in 1..m : sent[n] # Payload("start", i)
         /\ sent[x].type = "delta" => ~Closing(i, x) /\ \E n \in 1..m : sent[n] = Payload("start", i)
<1>1. sent[x] \in Payloads
  BY SentIndex
<1>2. \A t \in OfCalls : sent[x].type = t => i \in Indexes /\ sent[x] = Payload(t, i)
  BY <1>1, SentIndex DEF Payloads, Payload
<1>3. PICK L \in Nat : L = Len(sent)
  BY DEF SentFine
<1>4. (\A y \in 1..x : y \in 1..L /\ (y = x \/ y \in 1..m)) /\ (\A y \in 1..m : y \in 1..L) /\ x \in 1..x /\ x \in 1..L
      /\ \A y \in 1..m : x \in (y + 1)..L
  BY <1>3
<1>5. ASSUME NEW y \in 1..x, sent[y].type \in {"delta", "stop"}
      PROVE  \E z \in 1..m : sent[z] = Payload("start", sent[y].index)
  <2>1. \A z \in 1..(y - 1) : z \in 1..m
    BY <1>3
  <2> QED BY <1>3, <1>4, <1>5, <2>1 DEF SentFine
<1>6. \A z \in 1..L : sent[z] = Payload("stop", i) => sent[z].type = "stop" /\ sent[z].index = i
  BY DEF Payload
<1>7. \A z \in 1..L : sent[z] = Piece(i) => sent[z].type = "delta" /\ sent[z].index = i
  BY DEF Payload, Piece
<1>8. ASSUME sent[x].type = "start"
      PROVE  ~Closing(i, x) /\ Pieces(i, x) = {} /\ \A n \in 1..m : sent[n] # Payload("start", i)
  <2>1. \A n \in 1..m : sent[n] # Payload("start", i)
    <3>1. x - 1 = m
      OBVIOUS
    <3>2. \A n \in 1..(x - 1) : sent[n] # sent[x]
      BY <1>3, <1>4, <1>8 DEF SentFine
    <3> QED BY <1>2, <1>8, <3>1, <3>2 DEF OfCalls
  <2>2. \A y \in 1..x : sent[y] # Payload("stop", i) /\ sent[y] # Piece(i)
    BY <1>4, <1>5, <1>6, <1>7, <2>1
  <2>3. \A y \in 1..m : sent[y].type # "finish"
    BY <1>3, <1>4, <1>8 DEF SentFine
  <2>4. ~Closing(i, x)
    BY <1>4, <1>8, <2>2, <2>3 DEF Closing
  <2> QED BY <2>1, <2>2, <2>4 DEF Pieces
<1>9. ASSUME sent[x].type = "delta"
      PROVE  ~Closing(i, x) /\ \E n \in 1..m : sent[n] = Payload("start", i)
  <2>1. \E n \in 1..m : sent[n] = Payload("start", i)
    BY <1>4, <1>5, <1>9
  <2>2. \A y \in 1..m : sent[y].type # "finish"
    BY <1>3, <1>4, <1>9 DEF SentFine
  <2>3. sent[x] = Payload("delta", i)
    BY <1>2, <1>9 DEF OfCalls
  <2>4. ASSUME NEW y \in 1..m, sent[y] = Payload("stop", i) PROVE FALSE
    <3>1. y \in 1..L /\ x \in (y + 1)..L
      BY <1>4
    <3>2. sent[y].type = "stop" /\ sent[y].index = i
      BY <1>6, <2>4, <3>1
    <3> QED BY <1>3, <2>3, <3>1, <3>2 DEF SentFine
  <2>5. sent[x] # Payload("stop", i)
    BY <1>3, <1>4, <1>6, <1>9
  <2> QED BY <1>4, <1>9, <2>1, <2>2, <2>4, <2>5 DEF Closing
<1> QED
  BY <1>2, <1>3, <1>4, <1>8, <1>9

LEMMA ShownKeeps ==
  ASSUME NEW o \in Outs, NEW c \in Chunks, NEW i, NEW u, u = Shown(o, i, c), NEW m,
         c.type # "text", c.type # "end", TextTold(o, m), EndsTold(o, m)
  PROVE  /\ u \in Outs /\ TextTold(u, m) /\ EndsTold(u, m)
         /\ \A j, call : CallTold(call, j, o, m) => CallTold(call, j, u, m)
<1>1. u \in Outs
  BY ShownFacts
<1>2. CASE u = o
  BY <1>2
<1>3. CASE u = Yielding(o, c)
  <2>1. TextTold(u, m) /\ EndsTold(u, m)
    BY <1>3, TextStays, EndsStay
  <2>2. \A j, call : CallTold(call, j, o, m) => CallTold(call, j, u, m)
    BY <1>3, CallStays
  <2> QED BY <1>1, <2>1, <2>2
<1> QED
  BY <1>2, <1>3 DEF Shown

LEMMA TypedText ==
  ASSUME NEW x, sent[x].type # "text"
  PROVE  ~IsText(x)
  BY DEF IsText, Payload

(* Each kind of payload takes the tale one payload further.                *)
LEMMA TellStart ==
  ASSUME SentFine, NEW acc \in Accs, NEW m \in Nat, NEW x \in 1..Len(sent), x = m + 1,
         Tale(acc.active, acc.out, m), sent[x].type = "start", NEW e, e = Started(acc, x)
  PROVE  e \in Accs /\ Like(e, acc) /\ Tale(e.active, e.out, x)
<1>i. PICK i : i = sent[x].index
  OBVIOUS
<1>0. x \in Nat /\ i \in Indexes
  BY <1>i, SentIndex DEF OfCalls
<1>1. PICK call : call = CallOf(x, <<>>)
  OBVIOUS
<1>2. call # NoBlock /\ call.n = x /\ Lists(call.args, {})
  BY <1>0, <1>1, StartedCall
<1>3. PICK c \in Chunks : c = Chunk("start", x, <<>>) /\ c.type = "start" /\ c.n = x
  BY <1>0, OutNames, PlainChunk
<1>4. e \in Accs /\ Like(e, acc) /\ e.active = [acc.active EXCEPT ![i] = call] /\ e.out = Shown(acc.out, i, c)
  BY <1>i, <1>1, <1>3, StartedFacts
<1>5. PICK o \in Outs : o = acc.out
  BY AccIs
<1>6. PICK u : u = e.out
  OBVIOUS
<1>7. TextTold(o, x) /\ EndsTold(o, x) /\ ~Over(o, x)
  <2>1. ~IsText(x)
    BY TypedText
  <2> QED BY <1>0, <1>5, <2>1, TextLifts, EndsLift DEF Tale
<1>8. TextTold(u, x) /\ EndsTold(u, x) /\ \A j, k : CallTold(k, j, o, x) => CallTold(k, j, u, x)
  BY <1>3, <1>4, <1>5, <1>6, <1>7, ShownKeeps
<1>9. ASSUME NEW j \in Indexes, j # i PROVE CallTold(e.active[j], j, u, x)
  <2>1. e.active[j] = acc.active[j]
    BY <1>4, <1>9, AccIs DEF Actives
  <2>2. CallTold(acc.active[j], j, o, m)
    BY <1>5 DEF Tale, CallsTold
  <2>3. sent[x] # Payload("start", j) /\ sent[x] # Piece(j) /\ sent[x] # Payload("stop", j)
    BY <1>i, <1>9 DEF Payload, Piece
  <2>4. CallTold(acc.active[j], j, o, x)
    BY <1>0, <2>2, <2>3, CallLifts
  <2> QED BY <1>8, <2>1, <2>4
<1>10. CallTold(e.active[i], i, u, x)
  <2>1. e.active[i] = call
    BY <1>0, <1>4, AccIs DEF Actives
  <2>2. sent[x] = Payload("start", i) /\ ~Closing(i, x) /\ Pieces(i, x) = {}
    BY <1>i, SentFacts DEF OfCalls
  <2>3. (Synthetic1(i) \/ Begun(u, x)) /\ ~Over(u, x)
    <3>1. PICK l \in Nat : l = Len(o)
      BY DEF Outs
    <3>2. u = o \/ u = Yielding(o, c)
      BY <1>4, <1>5, <1>6 DEF Shown
    <3>3. u = Yielding(o, c) => Begun(u, x) /\ ~Over(u, x)
      BY <1>3, <1>7, <3>1, PutFacts
    <3>4. ~Synthetic1(i) => u = Yielding(o, c)
      BY <1>4, <1>5, <1>6 DEF Shown
    <3> QED BY <1>7, <3>2, <3>3, <3>4
  <2>4. x \in 1..x
    BY <1>0
  <2> QED BY <1>2, <2>1, <2>2, <2>3, <2>4 DEF CallTold, OpenAt
<1>11. CallsTold(e.active, u, x)
  BY <1>9, <1>10 DEF CallsTold
<1> QED
  BY <1>4, <1>6, <1>8, <1>11 DEF Tale
LEMMA OutKeeps ==
  ASSUME NEW o \in Outs, NEW c \in Chunks, NEW u, u = o \/ u = Yielding(o, c), NEW m,
         c.type # "text", c.type # "end", TextTold(o, m), EndsTold(o, m)
  PROVE  /\ u \in Outs /\ TextTold(u, m) /\ EndsTold(u, m)
         /\ \A j, call : CallTold(call, j, o, m) => CallTold(call, j, u, m)
<1>1. CASE u = o
  BY <1>1
<1>2. CASE u = Yielding(o, c)
  <2>1. TextTold(u, m) /\ EndsTold(u, m)
    BY <1>2, TextStays, EndsStay
  <2>2. \A j, call : CallTold(call, j, o, m) => CallTold(call, j, u, m)
    BY <1>2, CallStays
  <2>3. u \in Outs
    BY <1>2 DEF Yielding, Outs
  <2> QED BY <2>1, <2>2, <2>3
<1> QED
  BY <1>1, <1>2

LEMMA OthersLift ==
  ASSUME NEW a, NEW o, NEW m \in Nat, NEW x \in Nat, x = m + 1, NEW i, i = sent[x].index,
         sent[x].type # "finish", CallsTold(a, o, m), NEW j \in Indexes, j # i
  PROVE  CallTold(a[j], j, o, x)
<1>1. CallTold(a[j], j, o, m)
  BY DEF CallsTold
<1>2. sent[x] # Payload("start", j) /\ sent[x] # Piece(j) /\ sent[x] # Payload("stop", j)
  BY DEF Payload, Piece
<1> QED
  BY <1>1, <1>2, CallLifts

LEMMA TellDelta ==
  ASSUME SentFine, NEW acc \in Accs, NEW m \in Nat, NEW x \in 1..Len(sent), x = m + 1,
         Tale(acc.active, acc.out, m), sent[x].type = "delta", NEW e, e = Grown(acc, x)
  PROVE  e \in Accs /\ Like(e, acc) /\ Tale(e.active, e.out, x)
<1>i. PICK i : i = sent[x].index
  OBVIOUS
<1>0. x \in Nat /\ i \in Indexes
  BY <1>i, SentIndex DEF OfCalls
<1>5. PICK o \in Outs : o = acc.out
  BY AccIs
<1>c. PICK c \in Chunks : c = Chunk("delta", x, <<>>) /\ c.type = "delta"
  BY <1>0, OutNames, PlainChunk
<1>1. sent[x] = Piece(i) /\ ~Closing(i, x) /\ \E n \in 1..m : sent[n] = Payload("start", i)
  BY <1>i, SentFacts DEF OfCalls, Piece
<1>2. PICK call \in OpenCalls : call = acc.active[i] /\ call # NoBlock /\ OpenAt(call, i, o, m)
  <2>1. CallTold(acc.active[i], i, o, m)
    BY <1>0, <1>5 DEF Tale, CallsTold
  <2>2. ~Closing(i, m)
    <3>1. \A y \in 1..m : y \in 1..x
      OBVIOUS
    <3> QED BY <1>1, <3>1 DEF Closing
  <2>3. acc.active[i] # NoBlock
    BY <1>1, <2>1, <2>2 DEF CallTold, GoneAt
  <2> QED BY <1>0, <2>1, <2>3, AccIs DEF CallTold
<1>3. Topped(Pieces(i, x), Pieces(i, m), x)
  <2>1. (\A y \in 1..m : y \in 1..x /\ y < x) /\ x \in 1..x /\ \A y \in 1..x : y \in 1..m \/ y = x
    OBVIOUS
  <2> QED BY <1>1, <2>1 DEF Topped, Pieces
<1>4. PICK longer \in OpenCalls : /\ longer = CallOf(call.n, Further(call.args, x)) /\ longer # NoBlock
                                  /\ longer.n = call.n /\ Lists(longer.args, Pieces(i, x))
  BY <1>0, <1>2, <1>3, FurtherCall DEF OpenAt
<1>6. PICK u : u = e.out
  OBVIOUS
<1>7. e \in Accs /\ Like(e, acc) /\ e.active = [acc.active EXCEPT ![i] = longer] /\ (u = o \/ u = Yielding(o, c))
  <2>1. e \in Accs /\ Like(e, acc)
    BY <1>i, GrownFacts
  <2>2. acc.active[i] # NoBlock =>
          e.active = [acc.active EXCEPT ![i] = CallOf(acc.active[i].n, Further(acc.active[i].args, x))]
    BY <1>i, GrownFacts
  <2>3. e.active = [acc.active EXCEPT ![i] = longer]
    BY <1>2, <1>4, <2>2
  <2>4. e.out = acc.out \/ e.out = Yielding(acc.out, Chunk("delta", x, <<>>))
    BY <1>i, GrownFacts
  <2> QED BY <1>5, <1>c, <1>6, <2>1, <2>3, <2>4
<1>8. TextTold(o, x) /\ EndsTold(o, x)
  <2>1. ~IsText(x)
    BY TypedText
  <2> QED BY <1>0, <1>5, <2>1, TextLifts, EndsLift DEF Tale
<1>9. TextTold(u, x) /\ EndsTold(u, x) /\ \A j, k : CallTold(k, j, o, x) => CallTold(k, j, u, x)
  BY <1>c, <1>7, <1>8, OutKeeps
<1>10. ASSUME NEW j \in Indexes, j # i PROVE CallTold(e.active[j], j, u, x)
  <2>1. e.active[j] = acc.active[j]
    BY <1>7, <1>10, AccIs DEF Actives
  <2>2. CallTold(acc.active[j], j, o, x)
    BY <1>0, <1>i, <1>5, <1>10, OthersLift DEF Tale
  <2> QED BY <1>9, <2>1, <2>2
<1>11. CallTold(e.active[i], i, u, x)
  <2>1. e.active[i] = longer
    BY <1>0, <1>7, AccIs DEF Actives
  <2>2. \A y \in 1..m : y \in 1..x
    OBVIOUS
  <2>3. CallTold(longer, i, o, x)
    BY <1>1, <1>2, <1>4, <2>2 DEF CallTold, OpenAt
  <2> QED BY <1>9, <2>1, <2>3
<1>12. CallsTold(e.active, u, x)
  BY <1>10, <1>11 DEF CallsTold
<1> QED
  BY <1>6, <1>7, <1>9, <1>12 DEF Tale

(* A call starts once. *)
LEMMA StartsOnce ==
  ASSUME SentFine, NEW i \in Indexes, NEW x \in 1..Len(sent), NEW y \in 1..Len(sent),
         sent[x] = Payload("start", i), sent[y] = Payload("start", i)
  PROVE  x = y
<1>1. sent[x].type = "start" /\ sent[y].type = "start"
  BY DEF Payload
<1>2. PICK L \in Nat : L = Len(sent)
  BY DEF SentFine
<1>3. x < y => x \in 1..(y - 1)
  OBVIOUS
<1>4. y < x => y \in 1..(x - 1)
  OBVIOUS
<1>5. ~(x < y) /\ ~(y < x)
  BY <1>1, <1>2, <1>3, <1>4 DEF SentFine
<1> QED
  BY <1>5

(* The pieces of a call that stopped are those sent before. *)
LEMMA AllPieces ==
  ASSUME SentFine, NEW m \in Nat, NEW x \in 1..Len(sent), x = m + 1, NEW i \in Indexes, NEW n \in 1..m,
         sent[n] = Payload("start", i), sent[x] = Payload("stop", i) \/ sent[x].type = "finish"
  PROVE  /\ PiecesOf(n) = Pieces(i, m) /\ Closed(n) /\ Closing(i, x)
         /\ \A y \in 1..x : sent[y] = Payload("start", i) => y = n
<1>1. PICK L \in Nat : L = Len(sent)
  BY DEF SentFine
<1>2. DOMAIN sent = 1..L /\ n \in 1..L /\ x \in 1..L /\ x \in 1..x
      /\ (\A y \in 1..L : y \in 1..m \/ y = x \/ y \in (x + 1)..L) /\ (\A y \in 1..m : y \in 1..L) /\ \A y \in 1..x : y \in 1..L
  BY <1>1 DEF SentFine
<1>3. sent[n].type = "start" /\ sent[n].index = i
  BY DEF Payload
<1>4. source # "google"
  BY <1>1, <1>2, <1>3, TypesFromFacts DEF SentFine
<1>5. sent[x] # Piece(i)
  BY DEF Payload, Piece
<1>6. ASSUME NEW y \in (x + 1)..L, sent[y] = Piece(i) PROVE FALSE
  <2>1. sent[y].type = "delta" /\ sent[y] = Payload("delta", i)
    BY <1>6 DEF Piece, Payload
  <2>2. sent[x] = Payload("stop", i) => sent[x].type = "stop" /\ sent[x].index = i
    BY DEF Payload
  <2> QED BY <1>1, <1>2, <2>1, <2>2 DEF SentFine
<1>7. PiecesOf(n) = SentAs("delta", i)
  BY <1>3, <1>4 DEF PiecesOf
<1>8. SentAs("delta", i) = Pieces(i, m)
  BY <1>2, <1>5, <1>6 DEF SentAs, Pieces, Piece
<1>9. Closing(i, x) /\ Closing(i, L)
  BY <1>2 DEF Closing
<1>10. Closed(n)
  BY <1>1, <1>3, <1>9 DEF Closed
<1>11. \A y \in 1..x : sent[y] = Payload("start", i) => y = n
  BY <1>1, <1>2, StartsOnce
<1> QED
  BY <1>7, <1>8, <1>9, <1>10, <1>11

OthersStay(acc, e, i) ==
  \A j \in Indexes : j # i => \A l : CallTold(acc.active[j], j, acc.out, l) => CallTold(e.active[j], j, e.out, l)
LEMMA Ending ==
  ASSUME SentFine, NEW acc \in Accs, NEW m \in Nat, NEW x \in 1..Len(sent), x = m + 1, NEW i \in Indexes,
         sent[x] = Payload("stop", i) \/ sent[x].type = "finish",
         CallTold(acc.active[i], i, acc.out, m), TextTold(acc.out, x), EndsTold(acc.out, x),
         NEW e, e = Ended(acc, i)
  PROVE  /\ e \in Accs /\ Like(e, acc) /\ TextTold(e.out, x) /\ EndsTold(e.out, x)
         /\ CallTold(e.active[i], i, e.out, x)
         /\ OthersStay(acc, e, i)
<1>o. PICK o \in Outs : o = acc.out
  BY AccIs
<1>1. Closing(i, x)
  <2>1. x \in 1..x
    OBVIOUS
  <2> QED BY <2>1 DEF Closing
<1>2. sent[x] # Payload("start", i) /\ \A y \in 1..x : y \in 1..m \/ y = x
  BY DEF Payload
<1>3. CASE acc.active[i] = NoBlock
  <2>1. e = acc /\ Like(e, acc)
    BY <1>3, EndedFacts
  <2>2. GoneAt(i, o, x)
    BY <1>o, <1>1, <1>2, <1>3 DEF CallTold, GoneAt
  <2> QED BY <1>o, <1>3, <2>1, <2>2 DEF CallTold, OthersStay
<1>4. CASE acc.active[i] # NoBlock
  <2>1. PICK call \in OpenCalls : call = acc.active[i]
    BY <1>4, EndedFacts
  <2>2. e \in Accs /\ Like(e, acc) /\ e.active = [acc.active EXCEPT ![i] = NoBlock]
        /\ e.out = Shown(o, i, Chunk("end", call.n, call.args))
    BY <1>o, <1>4, <2>1, EndedFacts
  <2>3. OpenAt(call, i, o, m)
    BY <1>o, <1>4, <2>1 DEF CallTold
  <2>4. call.n \in 1..m /\ sent[call.n] = Payload("start", i) /\ Lists(call.args, Pieces(i, m))
        /\ (Synthetic1(i) \/ Begun(o, call.n)) /\ ~Over(o, call.n)
    BY <2>3 DEF OpenAt
  <2>5. /\ PiecesOf(call.n) = Pieces(i, m) /\ Closed(call.n)
        /\ \A y \in 1..x : sent[y] = Payload("start", i) => y = call.n
    BY <2>4, AllPieces
  <2>6. PICK c \in Chunks : c = Chunk("end", call.n, call.args) /\ c.type = "end" /\ c.n = call.n /\ c.args = call.args
    <3>1. call.n \in Nat /\ call.args \in Seq(Nat)
      BY DEF OpenCalls
    <3> QED BY <3>1, OutNames, ChunkTyped
  <2>7. PICK u : u = e.out
    OBVIOUS
  <2>8. e.active[i] = NoBlock /\ \A j \in Indexes : j # i => e.active[j] = acc.active[j]
    BY <2>2, AccIs DEF Actives
  <2>9. CASE Synthetic1(i)
    <3>1. u = o
      BY <2>2, <2>7, <2>9 DEF Shown
    <3>2. GoneAt(i, o, x)
      BY <1>1, <2>9 DEF GoneAt
    <3>3. CallTold(e.active[i], i, u, x)
      BY <2>8, <3>1, <3>2 DEF CallTold
    <3> QED BY <1>o, <2>2, <2>7, <2>8, <3>1, <3>3 DEF OthersStay
  <2>10. CASE ~Synthetic1(i)
    <3>1. u = Yielding(o, c)
      BY <2>2, <2>6, <2>7, <2>10 DEF Shown
    <3>2. TextTold(u, x)
      BY <1>o, <2>6, <3>1, TextStays
    <3>3. EndsTold(u, x)
      <4>1. c.n \in 1..x
        BY <2>4, <2>6
      <4>2. Begun(o, c.n) /\ ~Over(o, c.n) /\ Lists(c.args, PiecesOf(c.n)) /\ Closed(c.n)
        BY <2>4, <2>5, <2>6, <2>10
      <4> QED BY <1>o, <3>1, <4>1, <4>2, EndsStay
    <3>4. Over(u, call.n)
      <4>1. PICK l \in Nat : l = Len(o)
        BY DEF Outs
      <4> QED BY <2>6, <3>1, <4>1, PutFacts
    <3>5. CallTold(e.active[i], i, u, x)
      BY <1>1, <2>5, <2>8, <3>4 DEF CallTold, GoneAt
    <3>6. ASSUME NEW j \in Indexes, j # i, NEW l, CallTold(acc.active[j], j, o, l)
          PROVE  CallTold(e.active[j], j, u, l)
      <4>1. acc.active[j] # NoBlock => sent[acc.active[j].n] = Payload("start", j)
        BY <3>6 DEF CallTold, OpenAt
      <4>2. Payload("start", j) # Payload("start", i)
        BY <3>6 DEF Payload
      <4>3. acc.active[j] # NoBlock => c.n # acc.active[j].n
        BY <2>4, <2>6, <4>1, <4>2
      <4>4. CallTold(acc.active[j], j, u, l)
        BY <3>1, <3>6, <4>3, CallStays
      <4> QED BY <2>8, <3>6, <4>4
    <3> QED BY <1>o, <2>2, <2>7, <3>2, <3>3, <3>5, <3>6 DEF OthersStay
  <2> QED BY <2>9, <2>10
<1> QED
  BY <1>3, <1>4
LEMMA YieldingIn ==
  ASSUME NEW o \in Outs, NEW c \in Chunks
  PROVE  Yielding(o, c) \in Outs
  BY DEF Yielding, Outs

LEMMA TellStop ==
  ASSUME SentFine, NEW acc \in Accs, NEW m \in Nat, NEW x \in 1..Len(sent), x = m + 1,
         Tale(acc.active, acc.out, m), sent[x].type = "stop", NEW e, e = Ended(acc, sent[x].index)
  PROVE  e \in Accs /\ Like(e, acc) /\ Tale(e.active, e.out, x)
<1>i. PICK i : i = sent[x].index
  OBVIOUS
<1>0. x \in Nat /\ i \in Indexes /\ sent[x] = Payload("stop", i)
  BY <1>i, SentIndex, SentFacts DEF OfCalls
<1>1. TextTold(acc.out, x) /\ EndsTold(acc.out, x)
  <2>1. ~IsText(x)
    BY TypedText
  <2> QED BY <1>0, <2>1, TextLifts, EndsLift DEF Tale
<1>2. CallTold(acc.active[i], i, acc.out, m)
  BY <1>0 DEF Tale, CallsTold
<1>3. /\ e \in Accs /\ Like(e, acc) /\ TextTold(e.out, x) /\ EndsTold(e.out, x)
      /\ CallTold(e.active[i], i, e.out, x)
      /\ OthersStay(acc, e, i)
  <2>1. e = Ended(acc, i)
    BY <1>i
  <2>2. sent[x] = Payload("stop", i) \/ sent[x].type = "finish"
    BY <1>0
  <2> QED BY <1>0, <1>1, <1>2, <2>1, <2>2, Ending
<1>4. \A j \in Indexes : j # i => CallTold(acc.active[j], j, acc.out, x)
  BY <1>0, <1>i, OthersLift DEF Tale
<1>5. CallsTold(e.active, e.out, x)
  BY <1>3, <1>4 DEF CallsTold, OthersStay
<1> QED
  BY <1>3, <1>5 DEF Tale

LEMMA TellFinish ==
  ASSUME SentFine, NEW acc \in Accs, NEW m \in Nat, NEW x \in 1..Len(sent), x = m + 1,
         Tale(acc.active, acc.out, m), sent[x].type = "finish", NEW e, e = Ended(Ended(acc, 1), 2)
  PROVE  e \in Accs /\ Like(e, acc) /\ Tale(e.active, e.out, x)
<1>0. x \in Nat /\ 1 \in Indexes /\ 2 \in Indexes /\ \A j \in Indexes : j = 1 \/ j = 2
  BY DEF Indexes
<1>1. TextTold(acc.out, x) /\ EndsTold(acc.out, x)
  <2>1. ~IsText(x)
    BY TypedText
  <2> QED BY <1>0, <2>1, TextLifts, EndsLift DEF Tale
<1>2. CallTold(acc.active[1], 1, acc.out, m) /\ CallTold(acc.active[2], 2, acc.out, m)
  BY <1>0 DEF Tale, CallsTold
<1>d. PICK d : d = Ended(acc, 1)
  OBVIOUS
<1>3. /\ d \in Accs /\ Like(d, acc) /\ TextTold(d.out, x) /\ EndsTold(d.out, x)
      /\ CallTold(d.active[1], 1, d.out, x)
      /\ OthersStay(acc, d, 1)
  BY <1>0, <1>1, <1>2, <1>d, Ending
<1>4. CallTold(d.active[2], 2, d.out, m)
  BY <1>0, <1>2, <1>3 DEF OthersStay
<1>5. e = Ended(d, 2)
  BY <1>d
<1>6. /\ e \in Accs /\ Like(e, d) /\ TextTold(e.out, x) /\ EndsTold(e.out, x)
      /\ CallTold(e.active[2], 2, e.out, x)
      /\ OthersStay(d, e, 2)
  BY <1>0, <1>3, <1>4, <1>5, Ending
<1>7. CallTold(e.active[1], 1, e.out, x)
  BY <1>0, <1>3, <1>6 DEF OthersStay
<1>8. CallsTold(e.active, e.out, x)
  BY <1>0, <1>6, <1>7 DEF CallsTold
<1>9. Like(e, acc)
  BY <1>3, <1>6 DEF Like
<1> QED
  BY <1>6, <1>8, <1>9 DEF Tale

(* What else is sent changes no call: *)
LEMMA CallsLift ==
  ASSUME NEW a, NEW o, NEW m \in Nat, NEW x \in Nat, x = m + 1, CallsTold(a, o, m),
         sent[x].type # "finish", sent[x].type \notin OfCalls
  PROVE  CallsTold(a, o, x)
<1>1. \A j \in Indexes : sent[x] # Payload("start", j) /\ sent[x] # Piece(j) /\ sent[x] # Payload("stop", j)
  BY DEF Payload, Piece, OfCalls
<1>2. ASSUME NEW j \in Indexes PROVE CallTold(a[j], j, o, x)
  <2>1. CallTold(a[j], j, o, m)
    BY DEF CallsTold
  <2> QED BY <1>1, <2>1, CallLifts
<1> QED
  BY <1>2 DEF CallsTold

LEMMA TellNothing ==
  ASSUME NEW a, NEW o, NEW m \in Nat, NEW x \in Nat, x = m + 1, Tale(a, o, m),
         sent[x].type \notin OfCalls, sent[x].type # "finish", sent[x].type # "text"
  PROVE  Tale(a, o, x)
<1>1. ~IsText(x)
  BY TypedText
<1> QED
  BY <1>1, TextLifts, EndsLift, CallsLift DEF Tale

Passing(acc, n) == [acc EXCEPT !.out = Append(@, Chunk(sent[n].type, n, <<>>))]
LEMMA TellOther ==
  ASSUME SentFine, NEW acc \in Accs, NEW m \in Nat, NEW x \in 1..Len(sent), x = m + 1,
         Tale(acc.active, acc.out, m), sent[x].type \notin OfCalls, sent[x].type # "finish",
         NEW e, e = Passing(acc, x)
  PROVE  e \in Accs /\ Like(e, acc) /\ Tale(e.active, e.out, x)
<1>1. PICK o \in Outs : o = acc.out
  BY AccIs
<1>2. PICK t \in OutTypes : t = sent[x].type /\ t \in PayloadTypes /\ t # "start" /\ t # "end"
  <2>1. sent[x].type \in OutTypes /\ sent[x].type # "end" /\ sent[x] \in Payloads
    BY SentIndex
  <2> QED BY <2>1 DEF Payloads, OfCalls
<1>3. x \in Nat
  OBVIOUS
<1>c. PICK c \in Chunks : c = Chunk(t, x, <<>>) /\ c.type = t /\ c.n = x
  BY <1>3, PlainChunk
<1>4. PICK u \in Outs : u = Yielding(o, c)
  BY YieldingIn
<1>5. PICK a \in Actives : a = acc.active
  BY AccIs
<1>6. e = Having(acc, a, u)
  BY <1>1, <1>2, <1>c, <1>4, <1>5 DEF Passing, Having, Yielding, Accs
<1>7. e \in Accs /\ e.active = a /\ e.out = u /\ Like(e, acc)
  BY <1>6, HavingFacts
<1>8. TextTold(u, x)
  <2>1. CASE t = "text"
    <3>1. c = TextChunk(x)
      BY <1>c, <2>1 DEF TextChunk
    <3>2. IsText(x)
      <4>1. sent[x] \in Payloads /\ sent[x].index \notin Indexes
        BY <1>2, <2>1, SentIndex DEF SentFine
      <4>2. sent[x].index = 0 /\ sent[x].type = "text"
        BY <1>2, <2>1, <4>1 DEF Payloads, Indexes
      <4>3. sent[x] = [type |-> sent[x].type, index |-> sent[x].index]
        BY <4>1 DEF Payloads
      <4> QED BY <4>2, <4>3 DEF IsText, Payload
    <3> QED BY <1>1, <1>3, <1>c, <1>4, <3>1, <3>2, TextAdds DEF Tale
  <2>2. CASE t # "text"
    <3>1. TextTold(o, x)
      BY <1>1, <1>2, <1>3, <2>2, TypedText, TextLifts DEF Tale
    <3> QED BY <1>c, <1>4, <2>2, <3>1, TextStays
  <2> QED BY <2>1, <2>2
<1>9. EndsTold(u, x)
  <2>1. EndsTold(o, x)
    BY <1>1, <1>3, EndsLift DEF Tale
  <2> QED BY <1>2, <1>c, <1>4, <2>1, EndsStay
<1>10. CallsTold(a, u, x)
  <2>1. CallsTold(a, o, x)
    BY <1>1, <1>3, <1>5, CallsLift DEF Tale
  <2>2. \A j \in Indexes : CallTold(a[j], j, o, x)
    BY <2>1 DEF CallsTold
  <2>3. \A j \in Indexes : CallTold(a[j], j, u, x)
    BY <1>2, <1>c, <1>4, <2>2, CallStays
  <2> QED BY <2>3 DEF CallsTold
<1> QED
  BY <1>7, <1>8, <1>9, <1>10 DEF Tale

(* and Gemini's calls come whole. *)
CallPassing(acc, n) == [acc EXCEPT !.out = Append(Append(@, Chunk("start", n, <<>>)), Chunk("end", n, <<>>))]
LEMMA TellCall ==
  ASSUME SentFine, source = "google", NEW acc \in Accs, NEW m \in Nat, NEW x \in 1..Len(sent), x = m + 1,
         Tale(acc.active, acc.out, m), sent[x].type = "call", NEW e, e = CallPassing(acc, x)
  PROVE  e \in Accs /\ Like(e, acc) /\ Tale(e.active, e.out, x)
<1>1. PICK o \in Outs : o = acc.out
  BY AccIs
<1>3. x \in Nat
  OBVIOUS
<1>c. PICK c \in Chunks : c = Chunk("start", x, <<>>) /\ c.type = "start" /\ c.n = x
  BY <1>3, OutNames, PlainChunk
<1>d. PICK d \in Chunks : d = Chunk("end", x, <<>>) /\ d.type = "end" /\ d.n = x /\ Lists(d.args, {})
  <2>1. PICK call : call = CallOf(x, <<>>) 
    OBVIOUS
  <2>2. call.args = <<>> /\ Lists(call.args, {})
    BY <1>3, <2>1, StartedCall DEF CallOf
  <2>3. PICK d \in Chunks : d = Chunk("end", x, <<>>) /\ d.type = "end" /\ d.n = x
    BY <1>3, OutNames, PlainChunk
  <2>4. d.args = call.args
    BY <2>2, <2>3 DEF Chunk
  <2> QED BY <2>2, <2>3, <2>4
<1>4. PICK u \in Outs : u = Yielding(o, c)
  BY YieldingIn
<1>w. PICK w \in Outs : w = Yielding(u, d)
  BY YieldingIn
<1>5. PICK a \in Actives : a = acc.active
  BY AccIs
<1>6. e = Having(acc, a, w)
  BY <1>1, <1>c, <1>d, <1>4, <1>w, <1>5 DEF CallPassing, Having, Yielding, Accs
<1>7. e \in Accs /\ e.active = a /\ e.out = w /\ Like(e, acc)
  BY <1>6, HavingFacts
<1>8. TextTold(o, x) /\ EndsTold(o, x) /\ CallsTold(a, o, x) /\ ~Over(o, x)
  <2>1. ~IsText(x) /\ sent[x].type \notin OfCalls
    BY TypedText DEF OfCalls
  <2> QED BY <1>1, <1>3, <1>5, <2>1, TextLifts, EndsLift, CallsLift DEF Tale
<1>9. TextTold(u, x) /\ EndsTold(u, x) /\ \A j, k : CallTold(k, j, o, x) => CallTold(k, j, u, x)
  BY <1>c, <1>4, <1>8, OutKeeps
<1>10. Begun(u, x) /\ ~Over(u, x)
  <2>1. PICK l \in Nat : l = Len(o)
    BY DEF Outs
  <2> QED BY <1>c, <1>4, <1>8, <2>1, PutFacts
<1>11. TextTold(w, x)
  BY <1>d, <1>w, <1>9, TextStays
<1>12. EndsTold(w, x)
  <2>1. Lists(d.args, PiecesOf(d.n)) /\ Closed(d.n) /\ x \in 1..x
    BY <1>3, <1>d DEF PiecesOf, Closed
  <2> QED BY <1>d, <1>w, <1>9, <1>10, <2>1, EndsStay
<1>13. ASSUME NEW j \in Indexes PROVE CallTold(a[j], j, w, x)
  <2>1. CallTold(a[j], j, u, x)
    BY <1>8, <1>9 DEF CallsTold
  <2>2. a[j] # NoBlock => sent[a[j].n] = Payload("start", j)
    BY <2>1 DEF CallTold, OpenAt
  <2>3. a[j] # NoBlock => a[j].n # x
    BY <2>2 DEF Payload
  <2> QED BY <1>d, <1>w, <2>1, <2>3, CallStays
<1>14. CallsTold(a, w, x)
  BY <1>13 DEF CallsTold
<1> QED
  BY <1>7, <1>11, <1>12, <1>14 DEF Tale
LEMMA PassingIn ==
  ASSUME SentFine, NEW acc \in Accs, NEW x \in 1..Len(sent)
  PROVE  Passing(acc, x) \in Accs
<1>1. PICK t \in OutTypes : t = sent[x].type
  BY SentIndex
<1>2. PICK c \in Chunks : c = Chunk(t, x, <<>>)
  <2>1. x \in Nat
    OBVIOUS
  <2> QED BY <2>1, PlainChunk
<1>3. PICK u \in Outs : u = Yielding(acc.out, c)
  BY AccIs, YieldingIn
<1>4. Passing(acc, x) = [acc EXCEPT !.out = u]
  BY <1>1, <1>2, <1>3 DEF Passing, Yielding
<1> QED
  BY <1>4 DEF Accs

LEMMA WholeIn ==
  ASSUME NEW acc \in Accs, NEW x \in Nat
  PROVE  CallPassing(acc, x) \in Accs
<1>1. PICK c, d \in Chunks : c = Chunk("start", x, <<>>) /\ d = Chunk("end", x, <<>>)
  BY OutNames, PlainChunk
<1>2. PICK u \in Outs : u = Yielding(acc.out, c)
  BY AccIs, YieldingIn
<1>3. PICK w \in Outs : w = Yielding(u, d)
  BY YieldingIn
<1>4. CallPassing(acc, x) = [acc EXCEPT !.out = w]
  BY <1>1, <1>2, <1>3 DEF CallPassing, Yielding
<1> QED
  BY <1>4 DEF Accs

LEMMA EndedIn ==
  ASSUME NEW acc \in Accs, NEW i \in Indexes
  PROVE  Ended(acc, i) \in Accs
  BY EndedFacts

(* Which payload is told how. *)
LEMMA ToldCases ==
  ASSUME SentFine, NEW acc, acc.stage = "reading", NEW x \in 1..Len(sent), NEW e, e = Told(acc, x)
  PROVE  \/ sent[x].type = "start" /\ e = Started(acc, x)
         \/ sent[x].type = "delta" /\ e = Grown(acc, x)
         \/ sent[x].type = "stop" /\ e = Ended(acc, sent[x].index)
         \/ sent[x].type = "finish" /\ e = Ended(Ended(acc, 1), 2)
         \/ sent[x].type = "length" /\ e = acc
         \/ sent[x].type = "call" /\ source = "google" /\ e = CallPassing(acc, x)
         \/ sent[x].type = "error" /\ source = "ollama" /\ e = [acc EXCEPT !.stage = "threw"]
         \/ sent[x].type \notin OfCalls /\ sent[x].type # "finish" /\ e = Passing(acc, x)
<1>t. sent[x].type \in TypesFrom(source)
  BY DEF SentFine
<1>1. CASE source = "anthropic"
  <2>1. e = AnthropicPayload(acc, x)
    BY <1>1 DEF Told
  <2>2. sent[x].type \in {"text", "start", "delta", "stop", "usage"}
    BY <1>t, <1>1, TypesFromFacts
  <2> QED BY <2>1, <2>2 DEF AnthropicPayload, Passing, OfCalls
<1>2. CASE source \in Completions
  <2>1. e = OpenAIPayload(acc, x)
    BY <1>2 DEF Told, Completions, OpenRouterPayload
  <2>2. sent[x].type \in {"text", "start", "delta", "finish", "length", "usage", "done"}
    BY <1>t, <1>2, TypesFromFacts
  <2> QED BY <2>1, <2>2 DEF OpenAIPayload, Passing, OfCalls
<1>3. CASE source = "google"
  <2>1. e = GooglePayload(acc, x)
    BY <1>3 DEF Told
  <2>2. sent[x].type \in {"text", "call", "usage"}
    BY <1>t, <1>3, TypesFromFacts
  <2> QED BY <1>3, <2>1, <2>2 DEF GooglePayload, Passing, OfCalls, CallPassing
<1>4. CASE source = "ollama"
  <2>1. e = OllamaPayload(acc, x)
    BY <1>4 DEF Told
  <2>2. sent[x].type \in {"text", "usage", "error"}
    BY <1>t, <1>4, TypesFromFacts
  <2> QED BY <1>4, <2>1, <2>2 DEF OllamaPayload, Passing, OfCalls
<1> QED
  BY <1>1, <1>2, <1>3, <1>4, TypesFromFacts DEF SentFine

Numbers == 1..Len(sent)
LEMMA ToldKeeps ==
  ASSUME SentFine, NEW acc \in Accs, NEW x \in Numbers
  PROVE  Told(acc, x) \in Accs
<1>1. CASE acc.stage # "reading"
  BY <1>1 DEF Told
<1>2. CASE acc.stage = "reading"
  <2>0. x \in 1..Len(sent) /\ 1 \in Indexes /\ 2 \in Indexes /\ x \in Nat
    BY DEF Numbers, Indexes
  <2>e. PICK e : e = Told(acc, x)
    OBVIOUS
  <2>1. CASE sent[x].type = "start" /\ e = Started(acc, x)
    <3>1. PICK i : i = sent[x].index
      OBVIOUS
    <3> QED BY <2>0, <2>e, <2>1, <3>1, StartedFacts
  <2>2. CASE sent[x].type = "delta" /\ e = Grown(acc, x)
    <3>1. PICK i : i = sent[x].index
      OBVIOUS
    <3> QED BY <2>0, <2>e, <2>2, <3>1, GrownFacts
  <2>3. CASE sent[x].type = "stop" /\ e = Ended(acc, sent[x].index)
    <3>1. sent[x].index \in Indexes
      BY <2>0, <2>3, SentIndex DEF OfCalls
    <3> QED BY <2>e, <2>3, <3>1, EndedIn
  <2>4. CASE e = Ended(Ended(acc, 1), 2)
    BY <2>0, <2>e, <2>4, EndedIn
  <2>5. CASE e = acc \/ e = [acc EXCEPT !.stage = "threw"]
    BY <2>e, <2>5 DEF Accs
  <2>6. CASE e = CallPassing(acc, x) \/ e = Passing(acc, x)
    BY <2>0, <2>e, <2>6, WholeIn, PassingIn
  <2> QED BY <1>2, <2>0, <2>e, <2>1, <2>2, <2>3, <2>4, <2>5, <2>6, ToldCases
<1> QED
  BY <1>1, <1>2

(* Whatever the payload, the tale goes on or the reader stops.             *)
LEMMA ToldTells ==
  ASSUME SentFine, NEW acc \in Accs, acc.stage = "reading", NEW m \in Nat, NEW x \in 1..Len(sent), x = m + 1,
         Tale(acc.active, acc.out, m), NEW e, e = Told(acc, x)
  PROVE  /\ e.line = acc.line /\ e.lines = acc.lines
         /\ \/ e.stage = "reading" /\ Tale(e.active, e.out, x)
            \/ e.stage = "threw" /\ source = "ollama" /\ Tale(e.active, e.out, m)
<1>0. x \in Nat
  OBVIOUS
<1>1. CASE sent[x].type = "start" /\ e = Started(acc, x)
  BY <1>1, TellStart DEF Like
<1>2. CASE sent[x].type = "delta" /\ e = Grown(acc, x)
  BY <1>2, TellDelta DEF Like
<1>3. CASE sent[x].type = "stop" /\ e = Ended(acc, sent[x].index)
  BY <1>3, TellStop DEF Like
<1>4. CASE sent[x].type = "finish" /\ e = Ended(Ended(acc, 1), 2)
  BY <1>4, TellFinish DEF Like
<1>5. CASE sent[x].type = "length" /\ e = acc
  <2>1. sent[x].type \notin OfCalls
    BY <1>5 DEF OfCalls
  <2> QED BY <1>0, <1>5, <2>1, TellNothing
<1>6. CASE sent[x].type = "call" /\ source = "google" /\ e = CallPassing(acc, x)
  BY <1>6, TellCall DEF Like
<1>7. CASE source = "ollama" /\ e = [acc EXCEPT !.stage = "threw"]
  BY <1>7 DEF Accs
<1>8. CASE sent[x].type \notin OfCalls /\ sent[x].type # "finish" /\ e = Passing(acc, x)
  BY <1>8, TellOther DEF Like
<1> QED
  BY <1>1, <1>2, <1>3, <1>4, <1>5, <1>6, <1>7, <1>8, ToldCases

ToldAll(b, s) == FoldLeft(Told, b, s)
(* The fold over the numbers of the payloads of an event.                  *)
ToldOf(g, b, s) ==
  g = [p \in Subsets(Len(s)) |-> IF p = {} THEN b ELSE Told(g[Rest(p)], s[Max(p)])]

LEMMA ToldRuns ==
  ASSUME SentFine, NEW n \in Nat, NEW s \in Seq(Numbers), n = Len(s), NEW b \in Accs
  PROVE  \E r \in [0..n -> Accs] :
           /\ r[0] = b /\ r[n] = ToldAll(b, s)
           /\ \A k \in 0..(n - 1) : r[k + 1] = Told(r[k], s[k + 1])
<1> DEFINE h == [x \in Accs \X (1..n) |-> Told(x[1], s[x[2]])]
<1>1. DOMAIN s = 1..n /\ \A i \in 1..n : s[i] \in Numbers
  OBVIOUS
<1>2. \A a \in Accs : \A i \in 1..n : Take(h, a, i) = Told(a, s[i])
  BY DEF Take
<1>3. \A a \in Accs : \A i \in 1..n : Told(a, s[i]) \in Accs
  BY <1>1, ToldKeeps
<1> HIDE DEF h
<1>t. \A a \in Accs : \A i \in 1..n : Take(h, a, i) \in Accs
  BY <1>2, <1>3
<1>4. PICK f \in [Subsets(n) -> Accs] : FoldsOn(f, h, b, n)
  BY <1>t, FoldExists
<1> DEFINE taken(g, p) == IF p = {} THEN b ELSE Told(g[Rest(p)], s[Max(p)])
<1>5. ToldOf(f, b, s)
  <2>1. \A p \in Subsets(n) : f[p] = taken(f, p)
    <3> TAKE p \in Subsets(n)
    <3>1. f[{}] = b /\ (p # {} => f[p] = Take(h, f[Rest(p)], Max(p)))
      BY <1>4, FoldAt
    <3>2. p # {} => Max(p) \in 1..n /\ Rest(p) \in Subsets(n)
      BY MaxIn
    <3>3. p # {} => Take(h, f[Rest(p)], Max(p)) = Told(f[Rest(p)], s[Max(p)])
      BY <1>2, <1>4, <3>2
    <3> QED BY <3>1, <3>3
  <2> HIDE DEF taken
  <2>2. f = [p \in Subsets(n) |-> taken(f, p)]
    BY <1>4, <2>1
  <2> QED BY <2>2 DEF taken, ToldOf
<1> DEFINE g == CHOOSE g : ToldOf(g, b, s)
<1>6. ToldOf(g, b, s) /\ ToldAll(b, s) = g[UpTo(n)]
  <2>1. ToldOf(g, b, s)
    BY <1>5
  <2>2. ToldAll(b, s) = g[DOMAIN s]
    BY <1>1 DEF ToldAll, FoldLeft, MapThenFoldSet, ToldOf, Subsets, Rest
  <2> QED BY <1>1, <2>1, <2>2 DEF UpTo
<1> HIDE DEF g
<1> DEFINE V == Accs \cup {g[p] : p \in Subsets(n)}
           k == [x \in V \X (1..n) |-> Told(x[1], s[x[2]])]
<1>7. \A a \in V : \A i \in 1..n : Take(k, a, i) = Told(a, s[i])
  <2> HIDE DEF V
  <2> QED BY DEF Take
<1>8. FoldsOn(g, k, b, n)
  <2> DEFINE stepped(p) == IF p = {} THEN b ELSE Take(k, g[Rest(p)], Max(p))
  <2>1. g = [p \in Subsets(n) |-> taken(g, p)]
    BY <1>6 DEF ToldOf
  <2>2. \A p \in Subsets(n) : taken(g, p) = stepped(p)
    <3> TAKE p \in Subsets(n)
    <3>1. p # {} => Max(p) \in 1..n /\ Rest(p) \in Subsets(n)
      BY MaxIn
    <3>2. p # {} => g[Rest(p)] \in V
      BY <3>1
    <3>3. p # {} => Take(k, g[Rest(p)], Max(p)) = Told(g[Rest(p)], s[Max(p)])
      <4> HIDE DEF V, k
      <4> QED BY <1>7, <3>1, <3>2
    <3> HIDE DEF V, k
    <3> QED BY <3>3
  <2> HIDE DEF taken, stepped
  <2>3. g = [p \in Subsets(n) |-> stepped(p)]
    BY <2>1, <2>2
  <2> HIDE DEF k
  <2> QED BY <2>3 DEF stepped, FoldsOn
<1>9. \A a \in Accs : \A i \in 1..n : Take(k, a, i) = Told(a, s[i]) /\ Take(k, a, i) \in Accs
  <2>1. \A a \in Accs : a \in V
    OBVIOUS
  <2> HIDE DEF V, k
  <2> QED BY <1>3, <1>7, <2>1
<1> HIDE DEF k
<1>w. Within(k, Accs, n)
  BY <1>9 DEF Within
<1>10. PICK r \in [0..n -> Accs] : r[0] = b /\ r[n] = g[UpTo(n)] /\ Goes(r, k, n)
  BY <1>8, <1>w, FoldRuns
<1>11. ASSUME NEW i \in 0..(n - 1) PROVE r[i + 1] = Told(r[i], s[i + 1])
  <2>1. r[i] \in Accs /\ i + 1 \in 1..n
    BY <1>10
  <2> QED BY <1>9, <1>10, <2>1 DEF Goes
<1> QED
  BY <1>6, <1>10, <1>11

-----------------------------------------------------------------------------
(* Lines and events. *)
Half(n, h) == [n |-> n, half |-> h]
WholeLine(n) == <<Half(n, 1), Half(n, 2)>>
NoHalves == <<>>
NoLines == <<>>
(* The lines, or numbers, after m up to q.                                 *)
LinesAre(lines, m, q) ==
  m <= q /\ Len(lines) = q - m /\ \A k \in 1..(q - m) : lines[k] = WholeLine(m + k)
NumbersAre(s, m, q) == Len(s) = q - m /\ \A k \in 1..(q - m) : s[k] = m + k
Clear(acc) == [acc EXCEPT !.lines = NoLines]

LEMMA WholeFacts ==
  ASSUME NEW n \in Numbers, NEW line, line = WholeLine(n)
  PROVE  line \in HalfLines /\ Whole(line) /\ line[1].n = n /\ line # NoHalves
<1>1. Half(n, 1) \in Halves /\ Half(n, 2) \in Halves /\ Half(n, 1).n = n
  BY DEF Half, Halves, Numbers
<1>2. line \in HalfLines
  BY <1>1 DEF WholeLine, HalfLines
<1>3. Len(line) = 2 /\ line[1] = Half(n, 1)
  BY DEF WholeLine
<1> QED
  BY <1>1, <1>2, <1>3 DEF Whole, NoHalves

LEMMA ParsedIn ==
  ASSUME NEW lines \in LineLists
  PROVE  ParsedStream(lines) \in Seq(Numbers)
<1>1. <<>> \in Seq(Numbers)
  OBVIOUS
<1>2. ASSUME \A k \in DOMAIN lines : Whole(lines[k]) PROVE NumbersOf(lines) \in Seq(Numbers)
  <2>1. PICK n \in Nat : n = Len(lines) /\ DOMAIN lines = 1..n
    BY DEF LineLists
  <2>2. ASSUME NEW k \in 1..n PROVE lines[k][1].n \in Numbers
    <3>1. lines[k] \in HalfLines /\ Len(lines[k]) = 2
      BY <1>2, <2>1 DEF LineLists, Whole
    <3>2. lines[k][1] \in Halves
      BY <3>1 DEF HalfLines
    <3> QED BY <3>2 DEF Halves, Numbers
  <2>3. [k \in 1..n |-> lines[k][1].n] \in [1..n -> Numbers]
    BY <2>2
  <2>4. \A f \in [1..n -> Numbers] : f \in Seq(Numbers)
    OBVIOUS
  <2> QED BY <2>1, <2>3, <2>4 DEF NumbersOf
<1> QED
  BY <1>1, <1>2 DEF ParsedStream

LEMMA ClearIn ==
  ASSUME NEW acc \in Accs, NEW b, b = Clear(acc)
  PROVE  b \in Accs /\ b.line = acc.line /\ b.lines = NoLines /\ b.active = acc.active /\ b.out = acc.out
         /\ b.stage = acc.stage
<1>1. NoLines \in LineLists
  BY DEF NoLines, LineLists
<1> QED
  BY <1>1 DEF Clear, Accs

(* An event tells the lines it has.                                        *)
LEMMA EventKeeps ==
  ASSUME SentFine, NEW acc \in Accs
  PROVE  EventOf(acc) \in Accs
<1>1. CASE acc.lines = <<>>
  BY <1>1 DEF EventOf
<1>2. CASE acc.lines # <<>>
  <2>1. PICK b \in Accs : b = Clear(acc)
    BY ClearIn
  <2>2. PICK s \in Seq(Numbers) : s = ParsedStream(acc.lines)
    BY ParsedIn DEF Accs
  <2>3. PICK n \in Nat : n = Len(s)
    OBVIOUS
  <2>4. PICK r \in [0..n -> Accs] : r[n] = ToldAll(b, s)
    BY <2>3, ToldRuns
  <2>5. EventOf(acc) = r[n]
    BY <1>2, <2>1, <2>2, <2>4 DEF EventOf, Clear, NoLines, ToldAll
  <2> QED BY <2>5
<1> QED
  BY <1>1, <1>2

LEMMA ParsedWhole ==
  ASSUME NEW m \in Nat, NEW q \in Nat, q <= Len(sent), NEW lines \in LineLists, LinesAre(lines, m, q),
         SentFine, q = m + 1 \/ source \in Completions
  PROVE  \E s \in Seq(Numbers) : s = ParsedStream(lines) /\ NumbersAre(s, m, q)
<1>1. PICK n \in Nat : n = q - m /\ n = Len(lines) /\ DOMAIN lines = 1..n
  BY DEF LinesAre, LineLists
<1>2. ASSUME NEW k \in 1..n PROVE Whole(lines[k]) /\ lines[k][1].n = m + k
  <2>1. PICK x \in Numbers : x = m + k
    <3>1. PICK L \in Nat : L = Len(sent)
      BY DEF SentFine
    <3> QED BY <1>1, <3>1 DEF Numbers
  <2>2. lines[k] = WholeLine(x)
    BY <1>1, <2>1 DEF LinesAre
  <2> QED BY <2>1, <2>2, WholeFacts
<1>3. PICK s \in Seq(Numbers) : s = ParsedStream(lines)
  BY ParsedIn
<1>4. s = [k \in 1..n |-> lines[k][1].n]
  <2>1. \A k \in DOMAIN lines : Whole(lines[k])
    BY <1>1, <1>2
  <2>2. Len(lines) = 1 \/ source \in Completions
    BY <1>1
  <2>3. s = NumbersOf(lines)
    BY <1>3, <2>1, <2>2 DEF ParsedStream
  <2> QED BY <1>1, <2>3 DEF NumbersOf
<1>5. DOMAIN s = 1..n /\ \A k \in 1..n : s[k] = m + k
  BY <1>2, <1>4
<1>6. Len(s) = n
  BY <1>5
<1> QED
  BY <1>1, <1>3, <1>5, <1>6 DEF NumbersAre

(* What an event, told from the first m payloads on, has told. *)
Telling(e, m, q) ==
  \/ e.stage = "reading" /\ Tale(e.active, e.out, q)
  \/ e.stage = "threw" /\ source = "ollama" /\ \E p \in m..q : Tale(e.active, e.out, p)

(* A number of payloads, read one after the other, are told up to the      *)
(* last.                                                                   *)
LEMMA FoldTells ==
  ASSUME SentFine, NEW m \in Nat, NEW q \in Nat, m <= q, q <= Len(sent), NEW b \in Accs, b.stage = "reading",
         Tale(b.active, b.out, m), NEW s \in Seq(Numbers), NumbersAre(s, m, q), NEW e, e = ToldAll(b, s)
  PROVE  e \in Accs /\ e.line = b.line /\ e.lines = b.lines /\ Telling(e, m, q)
<1>s. PICK n \in Nat : n = Len(s)
  BY DEF NumbersAre
<1>1. n = Len(s) /\ n = q - m
  BY <1>s DEF NumbersAre
<1>2. PICK r \in [0..n -> Accs] : /\ r[0] = b /\ r[n] = ToldAll(b, s)
                                  /\ \A k \in 0..(n - 1) : r[k + 1] = Told(r[k], s[k + 1])
  BY <1>s, ToldRuns
<1> DEFINE Good == {k \in 0..n : r[k].line = b.line /\ r[k].lines = b.lines /\ Telling(r[k], m, m + k)}
<1>3. 0 \in Good
  <2>1. 0 \in 0..n /\ m + 0 = m
    OBVIOUS
  <2> QED BY <1>2, <2>1 DEF Telling
<1>4. ASSUME NEW k \in 0..(n - 1), k \in Good PROVE k + 1 \in Good
  <2>1. k + 1 \in 0..n /\ k \in 0..n /\ m + (k + 1) = (m + k) + 1 /\ \A p \in m..(m + k) : p \in m..(m + (k + 1))
    BY <1>1
  <2>p. PICK p \in Nat, x \in 1..Len(sent) : p = m + k /\ x = p + 1 /\ s[k + 1] = x
    <3>1. PICK L \in Nat : L = Len(sent)
      BY DEF SentFine
    <3>2. s[k + 1] = m + (k + 1)
      BY <1>1 DEF NumbersAre
    <3> QED BY <1>1, <3>1, <3>2
  <2>2. PICK d \in Accs : d = r[k] /\ d.line = b.line /\ d.lines = b.lines /\ Telling(d, m, p)
    BY <1>2, <1>4, <2>1, <2>p
  <2>3. PICK f : f = r[k + 1] /\ f = Told(d, x)
    BY <1>2, <2>p, <2>2
  <2>4. f.line = b.line /\ f.lines = b.lines /\ Telling(f, m, x)
    <3>1. CASE d.stage = "reading"
      <4>1. Tale(d.active, d.out, p)
        BY <2>2, <3>1 DEF Telling
      <4>2. /\ f.line = d.line /\ f.lines = d.lines
            /\ \/ f.stage = "reading" /\ Tale(f.active, f.out, x)
               \/ f.stage = "threw" /\ source = "ollama" /\ Tale(f.active, f.out, p)
        BY <2>p, <2>3, <3>1, <4>1, ToldTells
      <4>3. p \in m..x
        BY <2>p
      <4> QED BY <2>2, <4>2, <4>3 DEF Telling
    <3>2. CASE d.stage # "reading"
      <4>1. f = d
        BY <2>3, <3>2 DEF Told
      <4>2. d.stage = "threw" /\ source = "ollama" /\ \E y \in m..p : Tale(d.active, d.out, y)
        BY <2>2, <3>2 DEF Telling
      <4>3. \A y \in m..p : y \in m..x
        BY <2>p
      <4> QED BY <2>2, <4>1, <4>2, <4>3 DEF Telling
    <3> QED BY <3>1, <3>2
  <2>5. m + (k + 1) = x
    BY <2>p
  <2> QED BY <2>1, <2>3, <2>4, <2>5
<1>5. 0..n \subseteq Good
  <2> HIDE DEF Good
  <2> QED BY <1>3, <1>4, Inducts
<1>6. n \in Good /\ m + n = q
  <2> HIDE DEF Good
  <2> QED BY <1>1, <1>5
<1>7. e = r[n] /\ r[n] \in Accs
  BY <1>2
<1> QED
  BY <1>6, <1>7

(* An event of whole lines tells all of them, *)
LEMMA EventTells ==
  ASSUME SentFine, NEW m \in Nat, NEW q \in Nat, q <= Len(sent), q <= m + 1 \/ source \in Completions,
         NEW acc \in Accs, acc.stage = "reading", LinesAre(acc.lines, m, q), Tale(acc.active, acc.out, m),
         NEW e, e = EventOf(acc)
  PROVE  e \in Accs /\ e.line = acc.line /\ e.lines = NoLines /\ Telling(e, m, q)
<1>0. m <= q /\ acc.lines \in LineLists
  BY DEF LinesAre, Accs
<1>1. CASE acc.lines = <<>>
  <2>1. e = acc
    BY <1>1 DEF EventOf
  <2>2. q = m
    BY <1>0, <1>1 DEF LinesAre
  <2> QED BY <1>1, <2>1, <2>2 DEF NoLines, Telling
<1>2. CASE acc.lines # <<>>
  <2>1. PICK b \in Accs : b = Clear(acc)
    BY ClearIn
  <2>2. b.line = acc.line /\ b.lines = NoLines /\ b.active = acc.active /\ b.out = acc.out /\ b.stage = acc.stage
    BY <2>1, ClearIn
  <2>3. q = m + 1 \/ source \in Completions
    <3>1. q # m
      <4>1. acc.lines = <<>> <=> Len(acc.lines) = 0
        BY <1>0 DEF LineLists
      <4> QED BY <1>2, <4>1 DEF LinesAre
    <3> QED BY <1>0, <3>1
  <2>4. PICK s \in Seq(Numbers) : s = ParsedStream(acc.lines) /\ NumbersAre(s, m, q)
    BY <1>0, <2>3, ParsedWhole
  <2>5. e = ToldAll(b, s)
    BY <1>2, <2>1, <2>4 DEF EventOf, Clear, NoLines, ToldAll
  <2>6. e \in Accs /\ e.line = b.line /\ e.lines = b.lines /\ Telling(e, m, q)
    BY <1>0, <2>2, <2>4, <2>5, FoldTells
  <2> QED BY <2>2, <2>6
<1> QED
  BY <1>1, <1>2

LEMMA ToldNone ==
  ASSUME SentFine, NEW b \in Accs, NEW s \in Seq(Numbers)
  PROVE  Len(s) = 0 => ToldAll(b, s) = b
<1>1. PICK n \in Nat : n = Len(s)
  OBVIOUS
<1>2. PICK r \in [0..n -> Accs] : /\ r[0] = b /\ r[n] = ToldAll(b, s)
                                  /\ \A k \in 0..(n - 1) : r[k + 1] = Told(r[k], s[k + 1])
  BY <1>1, ToldRuns
<1> QED
  BY <1>1, <1>2

(* and one with a line that lost its end nothing. *)
LEMMA EventLoses ==
  ASSUME SentFine, NEW acc \in Accs, NEW k \in DOMAIN acc.lines, ~Whole(acc.lines[k]), NEW e, e = EventOf(acc)
  PROVE  e = Clear(acc)
<1>1. acc.lines # <<>>
  OBVIOUS
<1>2. ParsedStream(acc.lines) = <<>>
  BY DEF ParsedStream
<1>3. PICK b \in Accs : b = Clear(acc)
  BY ClearIn
<1>4. PICK s \in Seq(Numbers) : s = <<>> /\ Len(s) = 0
  <2>1. <<>> \in Seq(Numbers) /\ Len(<<>>) = 0
    OBVIOUS
  <2> QED BY <2>1
<1>5. ToldAll(b, s) = b
  BY <1>4, ToldNone
<1> QED
  BY <1>1, <1>2, <1>3, <1>4, <1>5 DEF EventOf, Clear, NoLines, ToldAll
-----------------------------------------------------------------------------
(* What is read of the wire: n lines, and of the next one nothing (0), one *)
(* half (1), both (2), or both and the line break, but not the blank line  *)
(* that ends the event (3).                                                *)
Signs == Halves \cup {LineBreak}
FirstHalf(n) == <<Half(n, 1)>>
Blanks == source \in {"anthropic", "google"}
(* What the buffer has of the line after n, and the places there are.      *)
LineAt(line, n, h) ==
  /\ h = 0 \/ h = 3 => line = NoHalves
  /\ h = 1 => line = FirstHalf(n + 1)
  /\ h = 2 => line = WholeLine(n + 1)
PlaceOk(n, h) == n \in 0..Len(sent) /\ h \in 0..3 /\ (h # 0 => n + 1 <= Len(sent)) /\ (h = 3 => Blanks)
Upto(n, h) == IF h = 3 THEN n + 1 ELSE n
(* Up to line m it is told, and from there on it is kept for the event.    *)
LinesTold(acc, m, n, h) ==
  /\ LinesAre(acc.lines, m, Upto(n, h)) /\ Tale(acc.active, acc.out, m)
  /\ source \notin Completions => m = n
(* What was read ends at the place (n, h).                                 *)
Reads(acc, n, h) ==
  /\ acc \in Accs /\ acc.stage = "reading" /\ PlaceOk(n, h) /\ LineAt(acc.line, n, h)
  /\ \E m \in 0..n : LinesTold(acc, m, n, h)
(* The whole reply is told, but for the mark at its end; or some of it is. *)
AllTold(a, o) == \E p \in 0..Len(sent) : Tale(a, o, p) /\ \A y \in (p + 1)..Len(sent) : sent[y].type = "done"
SomeTold(a, o) == \E p \in 0..Len(sent) : Tale(a, o, p)
(* The reader stopped, by an error or as all was told.                     *)
Halted(acc) ==
  /\ acc \in Accs /\ acc.lines = NoLines /\ SomeTold(acc.active, acc.out)
  /\ acc.stage = "threw" \/ (acc.stage = "ended" /\ AllTold(acc.active, acc.out))

(* A half of a line or a line break leads from a place to the next.        *)
Stepping(src, L, n, h, s, n2, h2) ==
  \/ h = 0 /\ s = LineBreak /\ src \in Completions /\ n2 = n /\ h2 = 0
  \/ h = 0 /\ n < L /\ s = Half(n + 1, 1) /\ n2 = n /\ h2 = 1
  \/ h = 1 /\ s = Half(n + 1, 2) /\ n2 = n /\ h2 = 2
  \/ h = 2 /\ s = LineBreak /\ src \in {"anthropic", "google"} /\ n2 = n /\ h2 = 3
  \/ h = 2 /\ s = LineBreak /\ src \notin {"anthropic", "google"} /\ n2 = n + 1 /\ h2 = 0
  \/ h = 3 /\ s = LineBreak /\ n2 = n + 1 /\ h2 = 0
Moves(n, h, s, n2, h2) == Stepping(source, Len(sent), n, h, s, n2, h2)

Unread(acc) == [acc EXCEPT !.line = NoHalves]
LEMMA UnreadIn ==
  ASSUME NEW acc \in Accs, NEW b, b = Unread(acc)
  PROVE  b \in Accs /\ b.line = NoHalves /\ b.lines = acc.lines /\ b.active = acc.active /\ b.out = acc.out
         /\ b.stage = acc.stage
<1>1. NoHalves \in HalfLines
  BY DEF NoHalves, HalfLines
<1> QED
  BY <1>1 DEF Unread, Accs

Putting(lines, line) == Append(lines, line)
WithLines(acc, lines) == [acc EXCEPT !.lines = lines]
LEMMA PuttingIn ==
  ASSUME NEW lines \in LineLists, NEW line \in HalfLines
  PROVE  Putting(lines, line) \in LineLists
  BY DEF Putting, LineLists
LEMMA WithLinesIn ==
  ASSUME NEW acc \in Accs, NEW lines \in LineLists, NEW b, b = WithLines(acc, lines)
  PROVE  b \in Accs /\ b.line = acc.line /\ b.lines = lines /\ b.active = acc.active /\ b.out = acc.out
         /\ b.stage = acc.stage
  BY DEF WithLines, Accs

HaltedAt(acc) == [acc EXCEPT !.stage = "ended"]
LEMMA HaltedAtIn ==
  ASSUME NEW acc \in Accs, NEW e, e = HaltedAt(acc)
  PROVE  e \in Accs /\ e.lines = acc.lines /\ e.active = acc.active /\ e.out = acc.out /\ e.stage = "ended"
  BY DEF HaltedAt, Accs

LEMMA TwoHalves ==
  ASSUME NEW x \in Halves, NEW y \in Halves
  PROVE  Append(<<x>>, y) = <<x, y>>
<1>a. <<x>> \in Seq(Halves) /\ <<x, y>> \in Seq(Halves)
  OBVIOUS
<1>1. PICK u \in Seq(Halves) : u = <<x>>
  BY <1>a
<1>2. PICK v \in Seq(Halves) : v = <<x, y>>
  BY <1>a
<1>b. Append(u, y) \in Seq(Halves)
  OBVIOUS
<1>3. PICK w \in Seq(Halves) : w = Append(u, y)
  BY <1>b
<1>4. Len(w) = 2 /\ w[1] = x /\ w[2] = y
  BY <1>1, <1>3
<1>5. Len(v) = 2 /\ v[1] = x /\ v[2] = y
  BY <1>2
<1>6. \A i \in 1..2 : i = 1 \/ i = 2
  OBVIOUS
<1>7. w = v
  BY <1>4, <1>5, <1>6, SeqEqual
<1> QED
  BY <1>1, <1>2, <1>3, <1>7

(* The three ways in which the end of a line is taken. *)
LEMMA LineEndCases ==
  ASSUME NEW acc \in Accs, NEW e, e = LineEnds(acc), NEW b, b = Unread(acc)
  PROVE  \/ acc.line = NoHalves /\ source = "ollama" /\ e = b
         \/ acc.line # NoHalves /\ source = "ollama" /\ e = EventOf(WithLines(b, Putting(NoLines, acc.line)))
         \/ acc.line = NoHalves /\ source # "ollama" /\ e = EventOf(b)
         \/ acc.line # NoHalves /\ source # "ollama" /\ IsDone(acc.line) /\ e = HaltedAt(EventOf(b))
         \/ acc.line # NoHalves /\ source # "ollama" /\ ~IsDone(acc.line) /\ e = WithLines(b, Putting(b.lines, acc.line))
<1>1. e = IF source = "ollama" THEN NdjsonLine(b, acc.line) ELSE DataLine(b, acc.line)
  BY DEF LineEnds, Unread, NoHalves
<1>2. CASE source = "ollama"
  <2>1. Append(<<>>, acc.line) = <<acc.line>>
    OBVIOUS
  <2> QED BY <1>1, <1>2, <2>1 DEF NdjsonLine, NoHalves, WithLines, Putting, NoLines
<1>3. CASE source # "ollama"
  <2>1. e = DataLine(b, acc.line)
    BY <1>1, <1>3
  <2> QED BY <1>3, <2>1 DEF DataLine, NoHalves, WithLines, Putting, HaltedAt
<1> QED
  BY <1>2, <1>3

LEMMA LineEndsKeeps ==
  ASSUME SentFine, NEW acc \in Accs
  PROVE  LineEnds(acc) \in Accs
<1>1. PICK b \in Accs : b = Unread(acc)
  BY UnreadIn
<1>2. PICK e : e = LineEnds(acc)
  OBVIOUS
<1>3. acc.line \in HalfLines /\ b.lines \in LineLists /\ NoLines \in LineLists
  BY DEF Accs, NoLines, LineLists
<1>4. WithLines(b, Putting(NoLines, acc.line)) \in Accs /\ WithLines(b, Putting(b.lines, acc.line)) \in Accs
  BY <1>3, PuttingIn, WithLinesIn
<1>5. EventOf(b) \in Accs /\ EventOf(WithLines(b, Putting(NoLines, acc.line))) \in Accs
  BY <1>4, EventKeeps
<1>6. \A d \in Accs : HaltedAt(d) \in Accs
  BY HaltedAtIn
<1> QED
  BY <1>1, <1>2, <1>4, <1>5, <1>6, LineEndCases

HalfMore(acc, s) == [acc EXCEPT !.line = Append(@, s)]
Drawn(line, s) == Append(line, s)
LEMMA DrawnIn ==
  ASSUME NEW line \in HalfLines, NEW s \in Halves
  PROVE  Drawn(line, s) \in HalfLines
  BY DEF Drawn, HalfLines
LEMMA HalfRead ==
  ASSUME NEW acc \in Accs, NEW s \in Halves, NEW e, e = HalfMore(acc, s)
  PROVE  e \in Accs /\ e.line = Drawn(acc.line, s) /\ e.lines = acc.lines /\ e.active = acc.active
         /\ e.out = acc.out /\ e.stage = acc.stage
<1>1. acc.line \in HalfLines
  BY DEF Accs
<1>2. PICK line \in HalfLines : line = Drawn(acc.line, s)
  BY <1>1, DrawnIn
<1>3. e = [acc EXCEPT !.line = line]
  BY <1>2 DEF HalfMore, Drawn
<1> QED
  BY <1>2, <1>3 DEF Accs

LEMMA SymbolKeeps ==
  ASSUME SentFine, NEW acc \in Accs, NEW s \in Signs
  PROVE  Symbol(acc, s) \in Accs
<1>1. CASE acc.stage # "reading"
  BY <1>1 DEF Symbol
<1>2. CASE acc.stage = "reading" /\ s = LineBreak
  BY <1>2, LineEndsKeeps DEF Symbol
<1>3. CASE acc.stage = "reading" /\ s # LineBreak
  <2>1. s \in Halves /\ Symbol(acc, s) = HalfMore(acc, s)
    BY <1>3 DEF Signs, Symbol, HalfMore
  <2> QED BY <2>1, HalfRead
<1> QED
  BY <1>1, <1>2, <1>3
SymbolAll(b, s) == FoldLeft(Symbol, b, s)

(* The fold over the halves and line breaks of a chunk.                    *)
SymbolOf(g, b, s) ==
  g = [p \in Subsets(Len(s)) |-> IF p = {} THEN b ELSE Symbol(g[Rest(p)], s[Max(p)])]

LEMMA SymbolRuns ==
  ASSUME SentFine, NEW n \in Nat, NEW s \in Seq(Signs), n = Len(s), NEW b \in Accs
  PROVE  \E r \in [0..n -> Accs] :
           /\ r[0] = b /\ r[n] = SymbolAll(b, s)
           /\ \A k \in 0..(n - 1) : r[k + 1] = Symbol(r[k], s[k + 1])
<1> DEFINE h == [x \in Accs \X (1..n) |-> Symbol(x[1], s[x[2]])]
<1>1. DOMAIN s = 1..n /\ \A i \in 1..n : s[i] \in Signs
  OBVIOUS
<1>2. \A a \in Accs : \A i \in 1..n : Take(h, a, i) = Symbol(a, s[i])
  BY DEF Take
<1>3. \A a \in Accs : \A i \in 1..n : Symbol(a, s[i]) \in Accs
  BY <1>1, SymbolKeeps
<1> HIDE DEF h
<1>t. \A a \in Accs : \A i \in 1..n : Take(h, a, i) \in Accs
  BY <1>2, <1>3
<1>4. PICK f \in [Subsets(n) -> Accs] : FoldsOn(f, h, b, n)
  BY <1>t, FoldExists
<1> DEFINE taken(g, p) == IF p = {} THEN b ELSE Symbol(g[Rest(p)], s[Max(p)])
<1>5. SymbolOf(f, b, s)
  <2>1. \A p \in Subsets(n) : f[p] = taken(f, p)
    <3> TAKE p \in Subsets(n)
    <3>1. f[{}] = b /\ (p # {} => f[p] = Take(h, f[Rest(p)], Max(p)))
      BY <1>4, FoldAt
    <3>2. p # {} => Max(p) \in 1..n /\ Rest(p) \in Subsets(n)
      BY MaxIn
    <3>3. p # {} => Take(h, f[Rest(p)], Max(p)) = Symbol(f[Rest(p)], s[Max(p)])
      BY <1>2, <1>4, <3>2
    <3> QED BY <3>1, <3>3
  <2> HIDE DEF taken
  <2>2. f = [p \in Subsets(n) |-> taken(f, p)]
    BY <1>4, <2>1
  <2> QED BY <2>2 DEF taken, SymbolOf
<1> DEFINE g == CHOOSE g : SymbolOf(g, b, s)
<1>6. SymbolOf(g, b, s) /\ SymbolAll(b, s) = g[UpTo(n)]
  <2>1. SymbolOf(g, b, s)
    BY <1>5
  <2>2. SymbolAll(b, s) = g[DOMAIN s]
    BY <1>1 DEF SymbolAll, FoldLeft, MapThenFoldSet, SymbolOf, Subsets, Rest
  <2> QED BY <1>1, <2>1, <2>2 DEF UpTo
<1> HIDE DEF g
<1> DEFINE V == Accs \cup {g[p] : p \in Subsets(n)}
           k == [x \in V \X (1..n) |-> Symbol(x[1], s[x[2]])]
<1>7. \A a \in V : \A i \in 1..n : Take(k, a, i) = Symbol(a, s[i])
  <2> HIDE DEF V
  <2> QED BY DEF Take
<1>8. FoldsOn(g, k, b, n)
  <2> DEFINE stepped(p) == IF p = {} THEN b ELSE Take(k, g[Rest(p)], Max(p))
  <2>1. g = [p \in Subsets(n) |-> taken(g, p)]
    BY <1>6 DEF SymbolOf
  <2>2. \A p \in Subsets(n) : taken(g, p) = stepped(p)
    <3> TAKE p \in Subsets(n)
    <3>1. p # {} => Max(p) \in 1..n /\ Rest(p) \in Subsets(n)
      BY MaxIn
    <3>2. p # {} => g[Rest(p)] \in V
      BY <3>1
    <3>3. p # {} => Take(k, g[Rest(p)], Max(p)) = Symbol(g[Rest(p)], s[Max(p)])
      <4> HIDE DEF V, k
      <4> QED BY <1>7, <3>1, <3>2
    <3> HIDE DEF V, k
    <3> QED BY <3>3
  <2> HIDE DEF taken, stepped
  <2>3. g = [p \in Subsets(n) |-> stepped(p)]
    BY <2>1, <2>2
  <2> HIDE DEF k
  <2> QED BY <2>3 DEF stepped, FoldsOn
<1>9. \A a \in Accs : \A i \in 1..n : Take(k, a, i) = Symbol(a, s[i]) /\ Take(k, a, i) \in Accs
  <2>1. \A a \in Accs : a \in V
    OBVIOUS
  <2> HIDE DEF V, k
  <2> QED BY <1>3, <1>7, <2>1
<1> HIDE DEF k
<1>w. Within(k, Accs, n)
  BY <1>9 DEF Within
<1>10. PICK r \in [0..n -> Accs] : r[0] = b /\ r[n] = g[UpTo(n)] /\ Goes(r, k, n)
  BY <1>8, <1>w, FoldRuns
<1>11. ASSUME NEW i \in 0..(n - 1) PROVE r[i + 1] = Symbol(r[i], s[i + 1])
  <2>1. r[i] \in Accs /\ i + 1 \in 1..n
    BY <1>10
  <2> QED BY <1>9, <1>10, <2>1 DEF Goes
<1> QED
  BY <1>6, <1>10, <1>11

LEMMA LinesMore ==
  ASSUME NEW m \in Nat, NEW q \in Nat, NEW lines \in LineLists, LinesAre(lines, m, q), NEW line \in HalfLines,
         line = WholeLine(q + 1)
  PROVE  LinesAre(Putting(lines, line), m, q + 1)
<1>1. PICK n \in Nat : n = q - m /\ n = Len(lines)
  BY DEF LinesAre
<1>2. PICK t \in LineLists : t = Putting(lines, line)
  BY PuttingIn
<1>3. Len(t) = n + 1 /\ t[n + 1] = line /\ \A k \in 1..n : t[k] = lines[k]
  BY <1>1, <1>2 DEF Putting, LineLists
<1>4. (q + 1) - m = n + 1 /\ m + (n + 1) = q + 1 /\ m <= q + 1
      /\ \A k \in 1..(n + 1) : k = n + 1 \/ k \in 1..n
  BY <1>1 DEF LinesAre
<1>5. \A k \in 1..n : lines[k] = WholeLine(m + k)
  BY <1>1 DEF LinesAre
<1>6. \A k \in 1..(n + 1) : t[k] = WholeLine(m + k)
  BY <1>3, <1>4, <1>5
<1> QED
  BY <1>2, <1>3, <1>4, <1>6 DEF LinesAre

LEMMA NoneAre ==
  ASSUME NEW n \in Nat
  PROVE  LinesAre(NoLines, n, n) /\ NoLines \in LineLists
  BY DEF LinesAre, NoLines, LineLists

(* A break after a whole line, or where there is none. *)
LEMMA EventReads ==
  ASSUME SentFine, NEW acc \in Accs, NEW m \in Nat, NEW q \in Nat, q <= Len(sent), acc.line = NoHalves,
         q <= m + 1 \/ source \in Completions,
         acc.stage = "reading", LinesAre(acc.lines, m, q), Tale(acc.active, acc.out, m), NEW e, e = EventOf(acc)
  PROVE  Reads(e, q, 0) \/ Halted(e)
<1>L. PICK L \in Nat : L = Len(sent)
  BY DEF SentFine
<1>1. e \in Accs /\ e.line = NoHalves /\ e.lines = NoLines /\ Telling(e, m, q)
  BY EventTells
<1>2. CASE e.stage = "reading" /\ Tale(e.active, e.out, q)
  <2>1. Upto(q, 0) = q
    BY DEF Upto
  <2>2. LinesTold(e, q, q, 0)
    BY <1>1, <1>2, <2>1, NoneAre DEF LinesTold
  <2>3. q \in 0..q /\ q \in 0..L
    BY <1>L
  <2> QED BY <1>1, <1>2, <1>L, <2>2, <2>3 DEF Reads, PlaceOk, LineAt
<1>3. CASE e.stage = "threw" /\ \E p \in m..q : Tale(e.active, e.out, p)
  <2>1. \A p \in m..q : p \in 0..L
    BY <1>L
  <2> QED BY <1>1, <1>3, <1>L, <2>1 DEF Halted, SomeTold
<1> QED
  BY <1>1, <1>2, <1>3 DEF Telling

LEMMA PlaceFacts ==
  ASSUME SentFine, NEW n, NEW h, PlaceOk(n, h)
  PROVE  /\ n \in Nat /\ n \in 0..Len(sent) /\ h \in 0..3 /\ Len(sent) \in Nat
         /\ h # 0 => n + 1 \in Numbers
<1>1. PICK L \in Nat : L = Len(sent)
  BY DEF SentFine
<1>2. n \in 0..L /\ h \in 0..3 /\ (h # 0 => n + 1 <= L)
  BY <1>1 DEF PlaceOk
<1> QED
  BY <1>1, <1>2 DEF Numbers

LEMMA ReadsHalf ==
  ASSUME SentFine, NEW acc, NEW n, NEW h, Reads(acc, n, h), NEW s \in Signs, NEW h2, NEW e, e = Symbol(acc, s),
         \/ h = 0 /\ n < Len(sent) /\ s = Half(n + 1, 1) /\ h2 = 1
         \/ h = 1 /\ s = Half(n + 1, 2) /\ h2 = 2
  PROVE  Reads(e, n, h2)
<1>1. acc \in Accs /\ acc.stage = "reading" /\ PlaceOk(n, h) /\ LineAt(acc.line, n, h)
  BY DEF Reads
<1>2. PICK m \in 0..n : LinesTold(acc, m, n, h)
  BY DEF Reads
<1>3. n \in Nat /\ n \in 0..Len(sent) /\ Len(sent) \in Nat
  BY <1>1, PlaceFacts
<1>4. s # LineBreak /\ s \in Halves
  <2>1. s.half # 0
    BY DEF Half
  <2>2. s # LineBreak
    BY <2>1 DEF LineBreak
  <2> QED BY <2>2 DEF Signs
<1>5. e = HalfMore(acc, s)
  BY <1>1, <1>4 DEF Symbol, HalfMore
<1>6. e \in Accs /\ e.line = Drawn(acc.line, s) /\ e.lines = acc.lines /\ e.active = acc.active
      /\ e.out = acc.out /\ e.stage = acc.stage
  BY <1>1, <1>4, <1>5, HalfRead
<1>7. LineAt(e.line, n, h2)
  <2>1. CASE h = 0
    <3>1. acc.line = NoHalves /\ s = Half(n + 1, 1) /\ h2 = 1
      BY <1>1, <2>1 DEF LineAt
    <3>2. e.line = FirstHalf(n + 1)
      BY <1>6, <3>1 DEF Drawn, NoHalves, FirstHalf
    <3> QED BY <3>1, <3>2 DEF LineAt
  <2>2. CASE h = 1
    <3>1. acc.line = FirstHalf(n + 1) /\ s = Half(n + 1, 2) /\ h2 = 2
      BY <1>1, <2>2 DEF LineAt
    <3>2. e.line = WholeLine(n + 1)
      <4>1. Append(<<Half(n + 1, 1)>>, Half(n + 1, 2)) = <<Half(n + 1, 1), Half(n + 1, 2)>>
        <5>1. n + 1 \in Numbers
          BY <1>1, <2>2, PlaceFacts
        <5>2. Half(n + 1, 1) \in Halves /\ Half(n + 1, 2) \in Halves
          BY <5>1 DEF Half, Halves, Numbers
        <5> QED BY <5>2, TwoHalves
      <4>2. e.line = Append(<<Half(n + 1, 1)>>, Half(n + 1, 2))
        BY <1>6, <3>1 DEF Drawn, FirstHalf
      <4> QED BY <4>1, <4>2 DEF WholeLine
    <3> QED BY <3>1, <3>2 DEF LineAt
  <2> QED BY <2>1, <2>2
<1>8. PlaceOk(n, h2) /\ h2 # 3 /\ h # 3
  <2>1. n + 1 <= Len(sent)
    BY <1>1, <1>3 DEF PlaceOk
  <2> QED BY <1>3, <2>1 DEF PlaceOk
<1>9. LinesTold(e, m, n, h2)
  BY <1>2, <1>6, <1>8 DEF LinesTold, Upto
<1> QED
  BY <1>1, <1>2, <1>6, <1>7, <1>8, <1>9 DEF Reads

LEMMA ReadsBreak ==
  ASSUME SentFine, NEW acc, NEW n, NEW h, Reads(acc, n, h), NEW n2, NEW h2, NEW e, e = Symbol(acc, LineBreak),
         Moves(n, h, LineBreak, n2, h2)
  PROVE  Reads(e, n2, h2) \/ Halted(e)
<1>1. acc \in Accs /\ acc.stage = "reading" /\ PlaceOk(n, h) /\ LineAt(acc.line, n, h)
  BY DEF Reads
<1>2. PICK m \in 0..n : LinesTold(acc, m, n, h)
  BY DEF Reads
<1>3. n \in Nat /\ n \in 0..Len(sent) /\ h \in 0..3 /\ Len(sent) \in Nat /\ (h # 0 => n + 1 \in Numbers) /\ m \in Nat
  BY <1>1, PlaceFacts
<1>4. PICK b \in Accs : /\ b = Unread(acc) /\ b.line = NoHalves /\ b.lines = acc.lines /\ b.active = acc.active
                        /\ b.out = acc.out /\ b.stage = acc.stage
  BY <1>1, UnreadIn
<1>5. e = LineEnds(acc)
  BY <1>1 DEF Symbol
<1>6. \A x \in Nat : LineBreak # Half(x, 1) /\ LineBreak # Half(x, 2)
  BY DEF LineBreak, Half
<1>7. source # "ollama" \/ source \notin Completions
  BY DEF Completions
<1>8. LinesAre(b.lines, m, Upto(n, h)) /\ Tale(b.active, b.out, m) /\ (source \notin Completions => m = n)
  BY <1>2, <1>4 DEF LinesTold
<1>9. CASE h = 0 \/ h = 3
  <2>1. acc.line = NoHalves
    BY <1>1, <1>9 DEF LineAt
  <2>2. h2 = 0 /\ n2 = Upto(n, h) /\ source # "ollama" /\ (h = 3 => source \notin Completions)
    <3>1. h = 3 => Blanks
      BY <1>1 DEF PlaceOk
    <3>2. Blanks => source \notin Completions /\ source # "ollama"
      BY DEF Blanks, Completions
    <3> QED BY <1>3, <1>6, <1>7, <1>9, <3>1, <3>2 DEF Moves, Stepping, Upto
  <2>3. e = EventOf(b)
    BY <1>1, <1>4, <1>5, <2>1, <2>2, LineEndCases
  <2>4. PICK q \in Nat : q = Upto(n, h) /\ q <= Len(sent) /\ (q <= m + 1 \/ source \in Completions)
    <3>1. h = 3 => n + 1 \in Nat /\ n + 1 <= Len(sent)
      BY <1>3 DEF Numbers
    <3> QED BY <1>3, <1>8, <2>2, <3>1 DEF Upto
  <2> QED BY <1>1, <1>3, <1>4, <1>8, <2>2, <2>3, <2>4, EventReads
<1>10. CASE h = 2
  <2>x. PICK x \in Numbers : x = n + 1
    BY <1>3, <1>10
  <2>0. x \in Nat /\ x <= Len(sent) /\ x \in 1..Len(sent) /\ x \in 0..Len(sent) /\ n + 1 = x
    BY <1>3, <2>x DEF Numbers
  <2>1. PICK line \in HalfLines : line = acc.line /\ line = WholeLine(x) /\ line # NoHalves /\ Whole(line) /\ line[1].n = x
    BY <1>1, <1>10, <2>x, WholeFacts DEF LineAt
  <2>2. LinesAre(b.lines, m, n) /\ b.lines \in LineLists
    BY <1>8, <1>10 DEF Upto, Accs
  <2>3. LinesAre(Putting(b.lines, line), m, x) /\ Putting(b.lines, line) \in LineLists
    BY <1>3, <2>1, <2>2, <2>x, LinesMore, PuttingIn
  <2>4. CASE source = "ollama"
    <3>1. e = EventOf(WithLines(b, Putting(NoLines, line)))
      BY <1>1, <1>4, <1>5, <2>1, <2>4, LineEndCases
    <3>2. Putting(NoLines, line) \in LineLists /\ LinesAre(Putting(NoLines, line), n, x)
      BY <1>3, <2>1, <2>x, NoneAre, LinesMore, PuttingIn
    <3>3. PICK d \in Accs : /\ d = WithLines(b, Putting(NoLines, line)) /\ d.line = b.line /\ d.active = b.active
                            /\ d.lines = Putting(NoLines, line) /\ d.out = b.out /\ d.stage = b.stage
      BY <3>2, WithLinesIn
    <3>4. m = n
      BY <1>7, <1>8, <2>4
    <3>5. Reads(e, x, 0) \/ Halted(e)
      BY <1>1, <1>3, <1>4, <1>8, <2>0, <3>1, <3>2, <3>3, <3>4, EventReads
    <3>6. n2 = x /\ h2 = 0
      BY <1>3, <1>6, <1>10, <2>4, <2>x DEF Moves, Stepping, Blanks
    <3> QED BY <3>5, <3>6
  <2>5. CASE source # "ollama" /\ IsDone(line)
    <3>1. PICK d : d = EventOf(b)
      OBVIOUS
    <3>2. e = HaltedAt(d)
      <4>1. e = HaltedAt(EventOf(b))
        BY <1>1, <1>4, <1>5, <2>1, <2>5, LineEndCases
      <4> QED BY <3>1, <4>1
    <3>3. sent[x].type = "done"
      BY <2>1, <2>5 DEF IsDone
    <3>4. source \in Completions /\ x = Len(sent)
      <4>1. sent[x].type \in TypesFrom(source) /\ x = Len(sent)
        BY <2>0, <3>3 DEF SentFine
      <4> QED BY <3>3, <4>1, TypesFromFacts DEF SentFine
    <3>5. d \in Accs /\ d.lines = NoLines /\ Telling(d, m, n)
      <4>1. n <= Len(sent) /\ (n <= m + 1 \/ source \in Completions)
        BY <1>3, <3>4
      <4>2. b.stage = "reading"
        BY <1>1, <1>4
      <4> QED BY <1>3, <1>8, <2>2, <3>1, <4>1, <4>2, EventTells
    <3>6. Tale(d.active, d.out, n)
      BY <2>5, <3>5 DEF Telling
    <3>7. e \in Accs /\ e.lines = NoLines /\ e.active = d.active /\ e.out = d.out /\ e.stage = "ended"
      BY <3>2, <3>5, HaltedAtIn
    <3>8. \A y \in (n + 1)..Len(sent) : y = x
      BY <1>3, <2>x, <3>4
    <3> QED BY <1>3, <3>3, <3>6, <3>7, <3>8 DEF Halted, AllTold, SomeTold
  <2>6. CASE source # "ollama" /\ ~IsDone(line)
    <3>1. e = WithLines(b, Putting(b.lines, line))
      BY <1>1, <1>4, <1>5, <2>1, <2>6, LineEndCases
    <3>2. e \in Accs /\ e.line = NoHalves /\ e.active = b.active /\ e.lines = Putting(b.lines, line)
          /\ e.out = b.out /\ e.stage = "reading"
      BY <1>1, <1>4, <2>3, <3>1, WithLinesIn
    <3>3. CASE Blanks
      <4>1. n2 = n /\ h2 = 3
        BY <1>3, <1>6, <1>10, <3>3 DEF Moves, Stepping, Blanks
      <4>2. LinesTold(e, m, n, 3)
        BY <1>8, <2>3, <2>x, <3>2 DEF LinesTold, Upto
      <4>3. PlaceOk(n, 3) /\ LineAt(e.line, n, 3)
        BY <1>3, <2>0, <3>2, <3>3 DEF PlaceOk, LineAt
      <4> QED BY <3>2, <4>1, <4>2, <4>3 DEF Reads
    <3>4. CASE ~Blanks
      <4>1. n2 = x /\ h2 = 0
        BY <1>3, <1>6, <1>10, <2>x, <3>4 DEF Moves, Stepping, Blanks
      <4>2. source \in Completions
        BY <2>6, <3>4 DEF Blanks, SentFine, Completions
      <4>3. LinesTold(e, m, x, 0)
        BY <1>8, <2>3, <3>2, <4>2 DEF LinesTold, Upto
      <4>4. PlaceOk(x, 0) /\ LineAt(e.line, x, 0) /\ m \in 0..x
        BY <1>3, <2>0, <2>x, <3>2 DEF PlaceOk, LineAt
      <4> QED BY <3>2, <4>1, <4>3, <4>4 DEF Reads
    <3> QED BY <3>3, <3>4
  <2> QED BY <2>4, <2>5, <2>6
<1>11. CASE h = 1
  BY <1>3, <1>6, <1>11 DEF Moves, Stepping, Blanks
<1> QED
  BY <1>3, <1>9, <1>10, <1>11

(* One half or line break read moves the place by one step.                *)
LEMMA SymbolReads ==
  ASSUME SentFine, NEW acc, NEW n, NEW h, Reads(acc, n, h), NEW s \in Signs, NEW n2, NEW h2, Moves(n, h, s, n2, h2),
         NEW e, e = Symbol(acc, s)
  PROVE  Reads(e, n2, h2) \/ Halted(e)
<1>1. CASE s = LineBreak
  BY <1>1, ReadsBreak
<1>2. CASE s # LineBreak
  <2>1. n2 = n /\ \/ h = 0 /\ n < Len(sent) /\ s = Half(n + 1, 1) /\ h2 = 1
                  \/ h = 1 /\ s = Half(n + 1, 2) /\ h2 = 2
    BY <1>2 DEF Moves, Stepping, Blanks
  <2>2. Reads(e, n, h2)
    BY <2>1, ReadsHalf
  <2> QED BY <2>1, <2>2
<1> QED
  BY <1>1, <1>2
-----------------------------------------------------------------------------
(* The way that is left on the wire, from one place to another. *)
SignsTo(L) == [n : 1..L, half : {1, 2}] \cup {LineBreak}
WayBy(src, L, w, l, N, H) == \A j \in 0..(l - 1) : Stepping(src, L, N[j], H[j], w[j + 1], N[j + 1], H[j + 1])
(* The sequence w leads from place (n, h) to (n2, h2).                     *)
Way(src, L, w, n, h, n2, h2) ==
  \E l \in Nat : l = Len(w) /\ \E N, H \in [0..l -> Nat] :
    N[0] = n /\ H[0] = h /\ N[l] = n2 /\ H[l] = h2 /\ WayBy(src, L, w, l, N, H)

LEMMA StepsWider ==
  ASSUME NEW src, NEW L \in Nat, NEW M \in Nat, L <= M, NEW n \in Nat, NEW h, NEW s, NEW n2, NEW h2,
         Stepping(src, L, n, h, s, n2, h2)
  PROVE  Stepping(src, M, n, h, s, n2, h2)
  BY DEF Stepping

LEMMA WayWider ==
  ASSUME NEW src, NEW L \in Nat, NEW M \in Nat, L <= M, NEW w, NEW n, NEW h, NEW n2, NEW h2,
         Way(src, L, w, n, h, n2, h2)
  PROVE  Way(src, M, w, n, h, n2, h2)
<1>1. PICK l \in Nat : l = Len(w) /\ \E N, H \in [0..l -> Nat] :
        N[0] = n /\ H[0] = h /\ N[l] = n2 /\ H[l] = h2 /\ WayBy(src, L, w, l, N, H)
  BY DEF Way
<1>2. PICK N, H \in [0..l -> Nat] :
        N[0] = n /\ H[0] = h /\ N[l] = n2 /\ H[l] = h2 /\ WayBy(src, L, w, l, N, H)
  BY <1>1
<1>3. WayBy(src, M, w, l, N, H)
  <2>1. ASSUME NEW j \in 0..(l - 1) PROVE Stepping(src, M, N[j], H[j], w[j + 1], N[j + 1], H[j + 1])
    <3>1. N[j] \in Nat /\ Stepping(src, L, N[j], H[j], w[j + 1], N[j + 1], H[j + 1])
      BY <1>2 DEF WayBy
    <3> QED BY <3>1, StepsWider
  <2> QED BY <2>1 DEF WayBy
<1> QED
  BY <1>1, <1>2, <1>3 DEF Way

LEMMA WayMore ==
  ASSUME NEW src, NEW L, NEW S, NEW w \in Seq(S), NEW s \in S, NEW u \in Seq(S), u = Append(w, s),
         NEW n, NEW h, NEW n2 \in Nat, NEW h2 \in Nat, NEW n3 \in Nat, NEW h3 \in Nat,
         Way(src, L, w, n, h, n2, h2), Stepping(src, L, n2, h2, s, n3, h3)
  PROVE  Way(src, L, u, n, h, n3, h3)
<1>1. PICK l \in Nat : l = Len(w) /\ \E N, H \in [0..l -> Nat] :
        N[0] = n /\ H[0] = h /\ N[l] = n2 /\ H[l] = h2 /\ WayBy(src, L, w, l, N, H)
  BY DEF Way
<1>2. PICK N, H \in [0..l -> Nat] :
        N[0] = n /\ H[0] = h /\ N[l] = n2 /\ H[l] = h2 /\ WayBy(src, L, w, l, N, H)
  BY <1>1
<1>3. Len(u) = l + 1 /\ u[l + 1] = s /\ \A k \in 1..l : u[k] = w[k]
  BY <1>1
<1>x. PICK x \in Nat : x = l + 1
  OBVIOUS
<1>4. (\A j \in 0..x : j = x \/ j \in 0..l) /\ (\A j \in 0..l : j \in 0..x /\ j # x) /\ x \in 0..x /\ 0 \in 0..l
      /\ (\A j \in 0..(x - 1) : j = l \/ j \in 0..(l - 1)) /\ (\A j \in 0..(l - 1) : j + 1 \in 1..l /\ j \in 0..l /\ j + 1 \in 0..l)
      /\ l \in 0..l
  BY <1>x
<1>5. PICK P \in [0..x -> Nat] : P[x] = n3 /\ \A j \in 0..l : P[j] = N[j]
  <2> DEFINE P == [j \in 0..x |-> IF j = x THEN n3 ELSE N[j]]
  <2>1. P \in [0..x -> Nat]
    BY <1>2, <1>4
  <2>2. P[x] = n3 /\ \A j \in 0..l : P[j] = N[j]
    BY <1>4
  <2> HIDE DEF P
  <2> QED BY <2>1, <2>2
<1>6. PICK Q \in [0..x -> Nat] : Q[x] = h3 /\ \A j \in 0..l : Q[j] = H[j]
  <2> DEFINE Q == [j \in 0..x |-> IF j = x THEN h3 ELSE H[j]]
  <2>1. Q \in [0..x -> Nat]
    BY <1>2, <1>4
  <2>2. Q[x] = h3 /\ \A j \in 0..l : Q[j] = H[j]
    BY <1>4
  <2> HIDE DEF Q
  <2> QED BY <2>1, <2>2
<1>7. ASSUME NEW j \in 0..(x - 1) PROVE Stepping(src, L, P[j], Q[j], u[j + 1], P[j + 1], Q[j + 1])
  <2>1. CASE j = l
    BY <1>2, <1>3, <1>x, <1>4, <1>5, <1>6, <2>1
  <2>2. CASE j \in 0..(l - 1)
    <3>1. Stepping(src, L, N[j], H[j], w[j + 1], N[j + 1], H[j + 1])
      BY <1>2, <2>2 DEF WayBy
    <3>2. P[j] = N[j] /\ P[j + 1] = N[j + 1] /\ Q[j] = H[j] /\ Q[j + 1] = H[j + 1] /\ u[j + 1] = w[j + 1]
      BY <1>3, <1>4, <1>5, <1>6, <2>2
    <3> QED BY <3>1, <3>2
  <2> QED BY <1>4, <2>1, <2>2
<1>8. WayBy(src, L, u, x, P, Q)
  BY <1>7 DEF WayBy
<1>9. P[0] = n /\ Q[0] = h /\ x = Len(u)
  BY <1>2, <1>3, <1>x, <1>4, <1>5, <1>6
<1> QED
  BY <1>5, <1>6, <1>8, <1>9 DEF Way

(* The wire leads to the last line sent.                                   *)
Path(w, n, h) == Way(source, Len(sent), w, n, h, Len(sent), 0)
Arrived(e, t) == \E n \in 0..Len(sent), h \in 0..3 : Reads(e, n, h) /\ Path(t, n, h)

LEMMA HaltedStays ==
  ASSUME NEW acc, Halted(acc), NEW s
  PROVE  Symbol(acc, s) = acc
<1>1. acc.stage # "reading"
  BY DEF Halted
<1> QED
  BY <1>1 DEF Symbol

LeftOver(t, w, k, d) == Len(t) = d /\ \A j \in 1..d : t[j] = w[k + j]

(* What is left of a way leads from where it was left.                     *)
LEMMA PathRest ==
  ASSUME NEW src, NEW L, NEW w, NEW l \in Nat, NEW N \in [0..l -> Nat], NEW H \in [0..l -> Nat],
         WayBy(src, L, w, l, N, H), NEW k \in 0..l, NEW d \in Nat, d = l - k, NEW t, LeftOver(t, w, k, d)
  PROVE  Way(src, L, t, N[k], H[k], N[l], H[l])
<1>0. (\A j \in 0..d : k + j \in 0..l) /\ k + d = l /\ k + 0 = k /\ 0 \in 0..d /\ d \in 0..d
      /\ (\A j \in 0..(d - 1) : k + j \in 0..(l - 1) /\ j + 1 \in 1..d /\ j + 1 \in 0..d /\ j \in 0..d /\ (k + j) + 1 = k + (j + 1))
  OBVIOUS
<1>1. PICK P \in [0..d -> Nat] : \A j \in 0..d : P[j] = N[k + j]
  <2> DEFINE P == [j \in 0..d |-> N[k + j]]
  <2>1. P \in [0..d -> Nat] /\ \A j \in 0..d : P[j] = N[k + j]
    BY <1>0
  <2> HIDE DEF P
  <2> QED BY <2>1
<1>2. PICK Q \in [0..d -> Nat] : \A j \in 0..d : Q[j] = H[k + j]
  <2> DEFINE Q == [j \in 0..d |-> H[k + j]]
  <2>1. Q \in [0..d -> Nat] /\ \A j \in 0..d : Q[j] = H[k + j]
    BY <1>0
  <2> HIDE DEF Q
  <2> QED BY <2>1
<1>3. ASSUME NEW j \in 0..(d - 1) PROVE Stepping(src, L, P[j], Q[j], t[j + 1], P[j + 1], Q[j + 1])
  <2>1. Stepping(src, L, N[k + j], H[k + j], w[(k + j) + 1], N[(k + j) + 1], H[(k + j) + 1])
    BY <1>0 DEF WayBy
  <2>2. P[j] = N[k + j] /\ Q[j] = H[k + j] /\ P[j + 1] = N[k + (j + 1)] /\ Q[j + 1] = H[k + (j + 1)]
    BY <1>0, <1>1, <1>2
  <2>3. t[j + 1] = w[k + (j + 1)]
    BY <1>0 DEF LeftOver
  <2>4. (k + j) + 1 = k + (j + 1)
    BY <1>0
  <2> QED BY <2>1, <2>2, <2>3, <2>4
<1>4. WayBy(src, L, t, d, P, Q)
  BY <1>3 DEF WayBy
<1>5. P[0] = N[k] /\ Q[0] = H[k] /\ P[d] = N[l] /\ Q[d] = H[l]
  BY <1>0, <1>1, <1>2
<1>6. d = Len(t)
  BY DEF LeftOver
<1> QED
  BY <1>1, <1>2, <1>4, <1>5, <1>6 DEF Way

SplitAt(w, k, s, t) ==
  /\ k \in 0..Len(w) /\ Len(s) = k /\ (\A j \in 1..k : s[j] = w[j])
  /\ Len(t) = Len(w) - k /\ \A j \in 1..(Len(w) - k) : t[j] = w[k + j]

(* A chunk read moves the place by its length, or the reader stops.        *)
LEMMA ChunkReads ==
  ASSUME SentFine, NEW b, NEW n, NEW h, Reads(b, n, h), NEW w \in Seq(Signs), Path(w, n, h),
         NEW k \in Nat, NEW s \in Seq(Signs), NEW t \in Seq(Signs), SplitAt(w, k, s, t), NEW e, e = SymbolAll(b, s)
  PROVE  e \in Accs /\ (Halted(e) \/ Arrived(e, t))
<1>l. PICK l \in Nat : l = Len(w) /\ k \in 0..l
  BY DEF SplitAt
<1>d. PICK d \in Nat : d = l - k
  <2>1. l - k \in Nat
    BY <1>l
  <2> QED BY <2>1
<1>s. Len(s) = k /\ (\A j \in 1..k : s[j] = w[j]) /\ LeftOver(t, w, k, d)
  BY <1>l, <1>d DEF SplitAt, LeftOver
<1>1. PICK N, H \in [0..l -> Nat] :
        N[0] = n /\ H[0] = h /\ N[l] = Len(sent) /\ H[l] = 0 /\ WayBy(source, Len(sent), w, l, N, H)
  BY <1>l DEF Path, Way
<1>b. b \in Accs
  BY DEF Reads
<1>2. PICK r \in [0..k -> Accs] : /\ r[0] = b /\ r[k] = SymbolAll(b, s)
                                  /\ \A j \in 0..(k - 1) : r[j + 1] = Symbol(r[j], s[j + 1])
  <2>1. k \in Nat
    BY <1>l
  <2> QED BY <1>b, <1>s, <2>1, SymbolRuns
<1> DEFINE Good == {j \in 0..k : Halted(r[j]) \/ Reads(r[j], N[j], H[j])}
<1>3. 0 \in Good
  BY <1>1, <1>2
<1>4. ASSUME NEW j \in 0..(k - 1), j \in Good PROVE j + 1 \in Good
  <2>1. j + 1 \in 0..k /\ j + 1 \in 1..k /\ j \in 0..(l - 1)
    BY <1>l
  <2>2. r[j + 1] = Symbol(r[j], s[j + 1]) /\ s[j + 1] = w[j + 1] /\ s[j + 1] \in Signs
    BY <1>2, <1>s, <2>1
  <2>3. CASE Halted(r[j])
    <3>1. r[j + 1] = r[j]
      BY <2>2, <2>3, HaltedStays
    <3> QED BY <2>1, <2>3, <3>1
  <2>4. CASE Reads(r[j], N[j], H[j])
    <3>1. Moves(N[j], H[j], s[j + 1], N[j + 1], H[j + 1])
      BY <1>1, <2>1, <2>2 DEF WayBy, Moves
    <3>2. Reads(r[j + 1], N[j + 1], H[j + 1]) \/ Halted(r[j + 1])
      BY <2>2, <2>4, <3>1, SymbolReads
    <3> QED BY <2>1, <3>2
  <2> QED BY <1>4, <2>3, <2>4
<1>5. 0..k \subseteq Good
  <2> HIDE DEF Good
  <2>1. k \in Nat
    OBVIOUS
  <2> QED BY <1>3, <1>4, <2>1, Inducts
<1>6. Halted(r[k]) \/ Reads(r[k], N[k], H[k])
  <2>1. k \in 0..k
    OBVIOUS
  <2> QED BY <1>5, <2>1
<1>7. Reads(r[k], N[k], H[k]) => Arrived(r[k], t)
  <2>1. Path(t, N[k], H[k])
    <3>1. Way(source, Len(sent), t, N[k], H[k], N[l], H[l])
      BY <1>1, <1>d, <1>l, <1>s, PathRest
    <3> QED BY <1>1, <3>1 DEF Path
  <2>2. Reads(r[k], N[k], H[k]) => N[k] \in 0..Len(sent) /\ H[k] \in 0..3
    BY DEF Reads, PlaceOk
  <2> QED BY <2>1, <2>2 DEF Arrived
<1>8. e = r[k] /\ r[k] \in Accs
  <2>1. k \in 0..k
    OBVIOUS
  <2> QED BY <1>2, <2>1
<1> QED
  BY <1>6, <1>7, <1>8
-----------------------------------------------------------------------------
(* A payload more is sent: what was told stays told, *)
LEMMA TaleKept ==
  ASSUME SentFine, NEW p \in NextPayloads, sent' = Append(sent, p), UNCHANGED <<source, format>>,
         NEW a, NEW o, NEW m \in Nat, m <= Len(sent), Tale(a, o, m)
  PROVE  Tale(a, o, m)'
<1>l. PICK l \in Nat : l = Len(sent)
  BY DEF SentFine
<1>g. Len(sent') = l + 1 /\ sent'[l + 1] = p /\ \A x \in 1..l : sent'[x] = sent[x]
  BY <1>l, SentGrows
<1>d. DOMAIN sent = 1..l /\ DOMAIN sent' = 1..(l + 1) /\ (\A x \in 1..(l + 1) : x = l + 1 \/ x \in 1..l)
      /\ (\A x \in 1..l : x \in 1..(l + 1)) /\ (\A x \in 1..m : x \in 1..l)
  <2>1. SentFine'
    BY SentGrows
  <2> QED BY <1>l, <1>g, <2>1 DEF SentFine
<1>1. \A n \in 1..m : sent'[n] = sent[n]
  BY <1>g, <1>d
<1>2. TextTold(o, m)'
  <2>1. \A n \in 1..m : IsText(n)' <=> IsText(n)
    BY <1>1 DEF IsText, Payload
  <2>2. TextTold(o, m)
    BY DEF Tale
  <2> QED BY <2>1, <2>2 DEF TextTold, AllText, TextAt, TextChunk, Chunk
<1>3. EndsTold(o, m)'
  <2>1. ASSUME NEW n \in 1..m, Closed(n) PROVE PiecesOf(n)' = PiecesOf(n) /\ Closed(n)'
    <3>1. PICK i : i = sent[n].index /\ i = sent'[n].index
      BY <1>1
    <3>2. CASE source = "google"
      BY <3>2 DEF PiecesOf, Closed
    <3>3. CASE source # "google"
      <4>1. PICK x \in 1..l : sent[x] = Payload("stop", i) \/ sent[x].type = "finish"
        BY <1>l, <2>1, <3>1, <3>3 DEF Closed, Closing
      <4>2. p # Payload("delta", i)
        <5>1. ASSUME p = Payload("delta", i) PROVE FALSE
          <6>1. p.type = "delta" /\ p.index = i
            BY <5>1 DEF Payload
          <6>2. sent[x] # Payload("stop", p.index) /\ sent[x].type # "finish"
            BY <1>l, <6>1, NextFacts
          <6> QED BY <4>1, <6>1, <6>2
        <5> QED BY <5>1
      <4>3. {x2 \in DOMAIN sent' : sent'[x2] = Payload("delta", i)} = {x2 \in DOMAIN sent : sent[x2] = Payload("delta", i)}
        BY <1>g, <1>d, <4>2
      <4>4. PiecesOf(n)' = PiecesOf(n)
        BY <3>1, <3>3, <4>3 DEF PiecesOf, SentAs, Payload
      <4>5. x \in 1..(l + 1) /\ sent'[x] = sent[x]
        BY <1>g, <1>d
      <4>6. Closed(n)'
        BY <1>g, <3>1, <4>1, <4>5 DEF Closed, Closing, Payload
      <4> QED BY <4>4, <4>6
    <3> QED BY <3>2, <3>3
  <2>2. EndsTold(o, m)
    BY DEF Tale
  <2> QED BY <2>1, <2>2 DEF EndsTold, EndAt
<1>4. CallsTold(a, o, m)'
  <2>1. ASSUME NEW i PROVE (Pieces(i, m)' = Pieces(i, m)) /\ (Closing(i, m)' <=> Closing(i, m))
    BY <1>1 DEF Pieces, Piece, Closing, Payload
  <2>2. ASSUME NEW i, NEW call, CallTold(call, i, o, m) PROVE CallTold(call, i, o, m)'
    BY <1>1, <2>1, <2>2 DEF CallTold, OpenAt, GoneAt, Synthetic1, Begun, Over, Payload
  <2>3. CallsTold(a, o, m)
    BY DEF Tale
  <2> QED BY <2>2, <2>3 DEF CallsTold
<1> QED
  BY <1>2, <1>3, <1>4 DEF Tale

(* what was read stays where it was, *)
LEMMA AccsGrow ==
  ASSUME NEW l \in Nat, l = Len(sent), Len(sent') = l + 1
  PROVE  Accs \subseteq Accs' /\ Signs \subseteq Signs'
<1>1. Halves \subseteq Halves'
  BY DEF Halves
<1>2. HalfLines \subseteq HalfLines'
  <2>1. ASSUME NEW line \in HalfLines PROVE line \in HalfLines'
    <3>1. line \in Seq(Halves')
      BY <1>1, SeqMonotonic DEF HalfLines
    <3> QED BY <3>1 DEF HalfLines
  <2> QED BY <2>1
<1>3. LineLists \subseteq LineLists'
  <2>1. ASSUME NEW lines \in LineLists PROVE lines \in LineLists'
    <3>1. lines \in Seq(HalfLines')
      BY <1>2, SeqMonotonic DEF LineLists
    <3> QED BY <3>1 DEF LineLists
  <2> QED BY <2>1
<1>4. Actives' = Actives /\ Outs' = Outs
  BY DEF Actives, Outs, OpenCalls, Chunks, OutTypes, PayloadTypes, Indexes
<1>5. Accs \subseteq Accs'
  BY <1>2, <1>3, <1>4 DEF Accs
<1> QED
  BY <1>1, <1>5 DEF Signs, LineBreak

LEMMA ReadsGrow ==
  ASSUME SentFine, NEW p \in NextPayloads, sent' = Append(sent, p), UNCHANGED <<source, format>>,
         NEW acc, NEW n, NEW h, Reads(acc, n, h)
  PROVE  Reads(acc, n, h)'
<1>l. PICK l \in Nat : l = Len(sent) /\ Len(sent') = l + 1
  BY SentGrows DEF SentFine
<1>1. acc \in Accs'
  BY <1>l, AccsGrow DEF Reads
<1>2. n \in 0..l /\ h \in 0..3 /\ (h # 0 => n + 1 <= l) /\ (h = 3 => Blanks)
  BY <1>l DEF Reads, PlaceOk
<1>3. PlaceOk(n, h)'
  BY <1>l, <1>2 DEF PlaceOk, Blanks
<1>4. LineAt(acc.line, n, h)'
  BY DEF Reads, LineAt, NoHalves, FirstHalf, WholeLine, Half
<1>5. PICK m \in 0..n : LinesTold(acc, m, n, h)
  BY DEF Reads
<1>6. PICK a, o : a = acc.active /\ o = acc.out
  OBVIOUS
<1>7. Tale(a, o, m)'
  <2>1. m \in Nat /\ m <= Len(sent) /\ Tale(a, o, m)
    BY <1>l, <1>2, <1>5, <1>6 DEF LinesTold
  <2> QED BY <2>1, TaleKept
<1>8. LinesTold(acc, m, n, h)'
  BY <1>5, <1>6, <1>7 DEF LinesTold, LinesAre, Upto, WholeLine, Half, Completions
<1> QED
  BY <1>1, <1>3, <1>4, <1>5, <1>8 DEF Reads

(* and the way on the wire gets longer. *)
LEMMA WireMore ==
  ASSUME NEW S, NEW w \in Seq(S), NEW x \in S, NEW y \in S, NEW z \in S,
         NEW u, u = Append(Append(Append(w, x), y), z)
  PROVE  w \o <<x, y, z>> = u /\ u \in Seq(S)
<1>1. u \in Seq(S) /\ Len(u) = Len(w) + 3
  OBVIOUS
<1>2. PICK t \in Seq(S) : t = <<x, y, z>> /\ Len(t) = 3 /\ t[1] = x /\ t[2] = y /\ t[3] = z
  <2>1. <<x, y, z>> \in Seq(S)
    OBVIOUS
  <2> QED BY <2>1
<1>3. /\ w \o t \in Seq(S) /\ Len(w \o t) = Len(w) + 3
      /\ \A i \in 1..(Len(w) + 3) : (w \o t)[i] = IF i <= Len(w) THEN w[i] ELSE t[i - Len(w)]
  <2>1. /\ w \o t \in Seq(S) /\ Len(w \o t) = Len(w) + Len(t)
        /\ \A i \in 1..(Len(w) + Len(t)) : (w \o t)[i] = IF i <= Len(w) THEN w[i] ELSE t[i - Len(w)]
    BY ConcatProperties
  <2> QED BY <1>2, <2>1
<1>4. PICK l \in Nat : l = Len(w)
  OBVIOUS
<1>5. (\A i \in 1..l : u[i] = w[i]) /\ u[l + 1] = x /\ u[l + 2] = y /\ u[l + 3] = z
  BY <1>4
<1>6. ASSUME NEW i \in 1..(l + 3) PROVE (w \o t)[i] = u[i]
  <2>1. i \in 1..l \/ i = l + 1 \/ i = l + 2 \/ i = l + 3
    OBVIOUS
  <2>2. (l + 1) - l = 1 /\ (l + 2) - l = 2 /\ (l + 3) - l = 3
    OBVIOUS
  <2> QED BY <1>2, <1>3, <1>4, <1>5, <2>1, <2>2
<1>7. w \o t = u
  BY <1>1, <1>3, <1>4, <1>6, SeqEqual
<1> QED
  BY <1>1, <1>2, <1>7

LEMMA OneMore ==
  ASSUME NEW S, NEW w \in Seq(S), NEW s \in S
  PROVE  \E u \in Seq(S) : u = Append(w, s)
<1>1. Append(w, s) \in Seq(S)
  OBVIOUS
<1> QED
  BY <1>1

(* The wire with one line more, and the way with it.                       *)
WireWith(w, x, src, blank) == w \o LineOf(x) \o (IF blank /\ src # "ollama" THEN <<LineBreak>> ELSE <<>>)

LEMMA WayGrows ==
  ASSUME NEW src \in {"anthropic", "openai", "openrouter", "google", "ollama"}, NEW L \in Nat, NEW x \in Nat, x = L + 1,
         NEW w \in Seq(SignsTo(L)), NEW n, NEW h, Way(src, L, w, n, h, L, 0),
         NEW blank \in BOOLEAN, blank \/ src \in Completions \cup {"ollama"},
         NEW u, u = WireWith(w, x, src, blank)
  PROVE  u \in Seq(SignsTo(x)) /\ Way(src, x, u, n, h, x, 0)
<1>1. SignsTo(L) \subseteq SignsTo(x)
  BY DEF SignsTo
<1>s. PICK S : S = SignsTo(x)
  OBVIOUS
<1>2. w \in Seq(S)
  BY <1>1, <1>s, SeqMonotonic
<1>3. Half(x, 1) \in S /\ Half(x, 2) \in S /\ LineBreak \in S
  BY <1>s DEF SignsTo, Half
<1>a. PICK s1 \in S : s1 = Half(x, 1)
  BY <1>3
<1>b. PICK s2 \in S : s2 = Half(x, 2)
  BY <1>3
<1>c. PICK br \in S : br = LineBreak
  BY <1>3
<1>4. Way(src, x, w, n, h, L, 0)
  BY WayWider
<1>5. PICK w1 \in Seq(S) : w1 = Append(w, s1)
  BY <1>2, OneMore
<1>6. PICK w2 \in Seq(S) : w2 = Append(w1, s2)
  BY OneMore
<1>7. PICK w3 \in Seq(S) : w3 = Append(w2, br)
  BY OneMore
<1>8. w \o LineOf(x) = w3
  BY <1>2, <1>a, <1>b, <1>c, <1>5, <1>6, <1>7, WireMore DEF LineOf, Half
<1>9. Stepping(src, x, L, 0, s1, L, 1) /\ Stepping(src, x, L, 1, s2, L, 2)
  BY <1>a, <1>b DEF Stepping
<1>10. 0 \in Nat /\ 1 \in Nat /\ 2 \in Nat /\ 3 \in Nat
  OBVIOUS
<1>11. Way(src, x, w1, n, h, L, 1)
  BY <1>2, <1>4, <1>5, <1>9, <1>10, WayMore
<1>12. Way(src, x, w2, n, h, L, 2)
  BY <1>6, <1>9, <1>10, <1>11, WayMore
<1>13. CASE src \in {"anthropic", "google"}
  <2>t. PICK h3 \in Nat : h3 = 3
    OBVIOUS
  <2>1. Stepping(src, x, L, 2, br, L, h3)
    BY <1>c, <1>13, <2>t DEF Stepping
  <2>7. Stepping(src, x, L, h3, br, x, 0)
    BY <1>c, <1>13, <2>t DEF Stepping
  <2>2. Way(src, x, w3, n, h, L, h3)
    BY <1>7, <1>10, <1>12, <2>1, WayMore
  <2>3. blank /\ src # "ollama"
    BY <1>13 DEF Completions
  <2>4. PICK w4 \in Seq(S) : w4 = Append(w3, br)
    BY OneMore
  <2>5. w3 \o <<LineBreak>> = w4
    BY <1>c, <2>4, AppendIsConcat
  <2>6. Way(src, x, w4, n, h, x, 0)
    BY <1>10, <2>2, <2>4, <2>7, WayMore
  <2> QED BY <1>8, <2>3, <2>4, <2>5, <2>6, <1>s DEF WireWith
<1>14. CASE src \notin {"anthropic", "google"}
  <2>1. Stepping(src, x, L, 2, br, x, 0)
    BY <1>c, <1>14 DEF Stepping
  <2>2. Way(src, x, w3, n, h, x, 0)
    BY <1>7, <1>10, <1>12, <2>1, WayMore
  <2>3. CASE blank /\ src # "ollama"
    <3>1. Stepping(src, x, x, 0, br, x, 0)
      BY <1>c, <1>14, <2>3 DEF Stepping, Completions
    <3>2. PICK w4 \in Seq(S) : w4 = Append(w3, br)
      BY OneMore
    <3>3. w3 \o <<LineBreak>> = w4
      BY <1>c, <3>2, AppendIsConcat
    <3>4. Way(src, x, w4, n, h, x, 0)
      BY <1>10, <2>2, <3>1, <3>2, WayMore
    <3> QED BY <1>8, <2>3, <3>2, <3>3, <3>4, <1>s DEF WireWith
  <2>4. CASE ~(blank /\ src # "ollama")
    <3>1. u = w3 \o <<>>
      BY <1>8, <2>4 DEF WireWith
    <3>2. w3 \o <<>> = w3
      BY ConcatEmptySeq
    <3> QED BY <2>2, <3>1, <3>2, <1>s
  <2> QED BY <2>3, <2>4
<1> QED
  BY <1>13, <1>14
-----------------------------------------------------------------------------
(* The body ends: what is in the buffer is a line, and the lines an event. *)
Finishing(b) == EventOf(IF b.line = NoHalves THEN b ELSE LineEnds(b))
FarTold(e, n, h) == e \in Accs /\ SomeTold(e.active, e.out) /\
  (n = Len(sent) /\ h = 0 => e.stage = "threw" \/ AllTold(e.active, e.out))

LEMMA TellingSome ==
  ASSUME SentFine, NEW e \in Accs, NEW m \in Nat, NEW q \in Nat, m <= q, q <= Len(sent), Telling(e, m, q)
  PROVE  SomeTold(e.active, e.out) /\ (q = Len(sent) => e.stage = "threw" \/ AllTold(e.active, e.out))
<1>L. PICK L \in Nat : L = Len(sent)
  BY DEF SentFine
<1>1. (\A p \in m..q : p \in 0..L) /\ q \in 0..L /\ (q = L => \A y \in (q + 1)..L : FALSE)
  BY <1>L
<1>2. CASE e.stage = "reading" /\ Tale(e.active, e.out, q)
  BY <1>L, <1>1, <1>2 DEF SomeTold, AllTold
<1>3. CASE e.stage = "threw" /\ \E p \in m..q : Tale(e.active, e.out, p)
  BY <1>L, <1>1, <1>3 DEF SomeTold
<1> QED
  BY <1>2, <1>3 DEF Telling

(* No line is being read. *)
LEMMA EndsBetween ==
  ASSUME SentFine, NEW b, NEW n, NEW h, Reads(b, n, h), h = 0 \/ h = 3, NEW f, f = EventOf(b)
  PROVE  FarTold(f, n, h) /\ (f.stage = "reading" \/ f.stage = "threw")
<1>1. b \in Accs /\ b.stage = "reading" /\ PlaceOk(n, h)
  BY DEF Reads
<1>2. n \in Nat /\ n \in 0..Len(sent) /\ Len(sent) \in Nat /\ (h # 0 => n + 1 \in Numbers)
  BY <1>1, PlaceFacts
<1>3. PICK m \in 0..n : LinesTold(b, m, n, h)
  BY DEF Reads
<1>4. PICK q \in Nat : q = Upto(n, h) /\ q <= Len(sent) /\ n <= q /\ (h = 0 => q = n)
                       /\ (q <= m + 1 \/ source \in Completions)
  <2>1. h = 3 => n + 1 \in Nat /\ n + 1 <= Len(sent) /\ n <= n + 1
    BY <1>2 DEF Numbers
  <2>2. source \notin Completions => m = n
    BY <1>3 DEF LinesTold
  <2> QED BY <1>2, <2>1, <2>2 DEF Upto
<1>5. LinesAre(b.lines, m, q) /\ Tale(b.active, b.out, m) /\ m \in Nat /\ m <= q
  BY <1>2, <1>3, <1>4 DEF LinesTold
<1>6. f \in Accs /\ Telling(f, m, q)
  BY <1>1, <1>4, <1>5, EventTells
<1>7. SomeTold(f.active, f.out) /\ (q = Len(sent) => f.stage = "threw" \/ AllTold(f.active, f.out))
  BY <1>4, <1>5, <1>6, TellingSome
<1> QED
  BY <1>4, <1>6, <1>7 DEF FarTold, Telling

(* The line is whole but for its break. *)
LEMMA EndsUnbroken ==
  ASSUME SentFine, NEW b, NEW n, NEW h, Reads(b, n, h), h = 2, NEW f, f = EventOf(LineEnds(b))
  PROVE  FarTold(f, n, h)
<1>1. b \in Accs /\ b.stage = "reading" /\ PlaceOk(n, h)
  BY DEF Reads
<1>2. n \in Nat /\ n + 1 \in Nat
  BY <1>1, PlaceFacts
<1>3. PICK e : e = LineEnds(b)
  OBVIOUS
<1>4. e = Symbol(b, LineBreak)
  BY <1>1, <1>3 DEF Symbol
<1>5. PICK n2 \in Nat, h2 \in {0, 3} : Moves(n, h, LineBreak, n2, h2)
  <2>1. CASE source \in {"anthropic", "google"}
    <3>1. Moves(n, h, LineBreak, n, 3)
      BY <2>1 DEF Moves, Stepping
    <3> QED BY <1>2, <3>1
  <2>2. CASE source \notin {"anthropic", "google"}
    <3>1. Moves(n, h, LineBreak, n + 1, 0)
      BY <2>2 DEF Moves, Stepping
    <3> QED BY <1>2, <3>1
  <2> QED BY <2>1, <2>2
<1>6. Reads(e, n2, h2) \/ Halted(e)
  BY <1>4, <1>5, ReadsBreak
<1>7. f = EventOf(e)
  BY <1>3
<1>8. CASE Reads(e, n2, h2)
  <2>1. FarTold(f, n2, h2)
    BY <1>5, <1>7, <1>8, EndsBetween
  <2> QED BY <2>1 DEF FarTold
<1>9. CASE Halted(e)
  <2>1. f = e
    BY <1>7, <1>9 DEF Halted, EventOf, NoLines
  <2> QED BY <1>9, <2>1 DEF Halted, FarTold
<1> QED
  BY <1>6, <1>8, <1>9

(* The line lost its end: nothing of its event is told. *)
LEMMA EndsCut ==
  ASSUME SentFine, NEW b, NEW n, NEW h, Reads(b, n, h), h = 1, NEW f, f = EventOf(LineEnds(b))
  PROVE  FarTold(f, n, h)
<1>1. b \in Accs /\ b.stage = "reading" /\ PlaceOk(n, h) /\ LineAt(b.line, n, h)
  BY DEF Reads
<1>2. n \in Nat /\ n \in 0..Len(sent) /\ n + 1 \in Numbers
  BY <1>1, PlaceFacts
<1>3. PICK m \in 0..n : LinesTold(b, m, n, h)
  BY DEF Reads
<1>4. SomeTold(b.active, b.out)
  <2>1. m \in 0..Len(sent)
    <3>1. PICK L \in Nat : L = Len(sent)
      BY DEF SentFine
    <3> QED BY <1>2, <3>1
  <2> QED BY <1>3, <2>1 DEF LinesTold, SomeTold
<1>5. PICK line \in HalfLines : line = b.line /\ line # NoHalves /\ ~Whole(line)
  <2>1. b.line \in HalfLines /\ b.line = FirstHalf(n + 1)
    BY <1>1 DEF LineAt, Accs
  <2>2. PICK one : one = Half(n + 1, 1)
    OBVIOUS
  <2>3. FirstHalf(n + 1) = <<one>>
    BY <2>2 DEF FirstHalf
  <2>4. Len(<<one>>) = 1
    OBVIOUS
  <2>5. Len(NoHalves) = 0
    BY DEF NoHalves
  <2>6. Len(b.line) = 1
    BY <2>1, <2>3, <2>4
  <2>7. b.line # NoHalves /\ ~Whole(b.line)
    BY <2>5, <2>6 DEF Whole
  <2> QED BY <2>1, <2>7
<1>6. PICK a \in Accs : /\ a = Unread(b) /\ a.line = NoHalves /\ a.lines = b.lines /\ a.active = b.active
                        /\ a.out = b.out /\ a.stage = b.stage
  BY <1>1, UnreadIn
<1>7. PICK e : e = LineEnds(b)
  OBVIOUS
<1>8. ASSUME NEW lines \in LineLists, NEW d, d = WithLines(a, Putting(lines, line))
      PROVE  d \in Accs /\ d.active = b.active /\ d.out = b.out /\ EventOf(d) = Clear(d)
  <2>1. PICK more \in LineLists : more = Putting(lines, line)
    BY PuttingIn
  <2>2. d \in Accs /\ d.lines = more /\ d.active = b.active /\ d.out = b.out
    BY <1>6, <1>8, <2>1, WithLinesIn
  <2>3. PICK k \in DOMAIN more : more[k] = line
    <3>1. more = Append(lines, line)
      BY <2>1 DEF Putting
    <3>2. PICK l \in Nat : l = Len(lines)
      BY DEF LineLists
    <3>3. l + 1 \in DOMAIN more /\ more[l + 1] = line
      BY <3>1, <3>2 DEF LineLists
    <3> QED BY <3>3
  <2>4. k \in DOMAIN d.lines /\ ~Whole(d.lines[k])
    BY <1>5, <2>2, <2>3
  <2> QED BY <2>2, <2>4, EventLoses
<1>9. ASSUME NEW d \in Accs, d.active = b.active, d.out = b.out, NEW c, c = Clear(d)
      PROVE  FarTold(c, n, h) /\ c \in Accs /\ c.lines = NoLines
  <2>1. c \in Accs /\ c.lines = NoLines /\ c.active = d.active /\ c.out = d.out
    BY <1>9, ClearIn
  <2> QED BY <1>4, <1>9, <2>1 DEF FarTold
<1>10. CASE source = "ollama"
  <2>1. e = EventOf(WithLines(a, Putting(NoLines, line)))
    BY <1>1, <1>5, <1>6, <1>7, <1>10, LineEndCases
  <2>2. NoLines \in LineLists
    BY NoneAre
  <2>3. PICK d : d = WithLines(a, Putting(NoLines, line))
    OBVIOUS
  <2>4. d \in Accs /\ d.active = b.active /\ d.out = b.out /\ EventOf(d) = Clear(d)
    BY <1>8, <2>2, <2>3
  <2>5. e = Clear(d)
    BY <2>1, <2>3, <2>4
  <2>6. FarTold(e, n, h) /\ e.lines = NoLines
    BY <1>9, <2>4, <2>5
  <2>7. f = e
    BY <1>7, <2>6 DEF EventOf, NoLines
  <2> QED BY <2>6, <2>7
<1>11. CASE source # "ollama"
  <2>1. ~IsDone(line)
    BY <1>5 DEF IsDone
  <2>2. e = WithLines(a, Putting(a.lines, line))
    BY <1>1, <1>5, <1>6, <1>7, <1>11, <2>1, LineEndCases
  <2>3. a.lines \in LineLists
    BY DEF Accs
  <2>4. e \in Accs /\ e.active = b.active /\ e.out = b.out /\ EventOf(e) = Clear(e)
    BY <1>8, <2>2, <2>3
  <2>5. f = Clear(e)
    BY <1>7, <2>4
  <2> QED BY <1>9, <2>4, <2>5
<1> QED
  BY <1>10, <1>11

(* At the end of a body that came whole all is told.                       *)
LEMMA BodyTold ==
  ASSUME SentFine, NEW b, NEW n, NEW h, Reads(b, n, h), NEW f, f = Finishing(b)
  PROVE  FarTold(f, n, h)
<1>1. h \in 0..3 /\ LineAt(b.line, n, h) /\ b \in Accs /\ b.stage = "reading"
  BY DEF Reads, PlaceOk
<1>2. h = 0 \/ h = 1 \/ h = 2 \/ h = 3
  BY <1>1
<1>3. CASE h = 0 \/ h = 3
  <2>1. f = EventOf(b)
    BY <1>1, <1>3 DEF LineAt, Finishing
  <2> QED BY <1>3, <2>1, EndsBetween
<1>4. CASE h = 1 \/ h = 2
  <2>1. b.line # NoHalves
    <3>1. b.line = FirstHalf(n + 1) \/ b.line = WholeLine(n + 1)
      BY <1>1, <1>4 DEF LineAt
    <3>2. Len(FirstHalf(n + 1)) = 1 /\ Len(WholeLine(n + 1)) = 2 /\ Len(NoHalves) = 0
      BY DEF FirstHalf, WholeLine, NoHalves
    <3> QED BY <3>1, <3>2
  <2>2. f = EventOf(LineEnds(b))
    BY <2>1 DEF Finishing
  <2> QED BY <1>4, <2>2, EndsUnbroken, EndsCut
<1> QED
  BY <1>2, <1>3, <1>4
-----------------------------------------------------------------------------
(* Nothing more is sent: what was told and read is the same. *)
LEMMA TaleSame ==
  ASSUME UNCHANGED <<source, format, sent>>, NEW a, NEW o, NEW m
  PROVE  Tale(a, o, m)' <=> Tale(a, o, m)
<1>1. \A n : IsText(n)' <=> IsText(n)
  BY DEF IsText, Payload
<1>2. TextTold(o, m)' <=> TextTold(o, m)
  BY <1>1 DEF TextTold, AllText, TextAt, TextChunk, Chunk
<1>3. ASSUME NEW i, NEW k PROVE (Pieces(i, k)' = Pieces(i, k)) /\ (Closing(i, k)' <=> Closing(i, k))
  BY DEF Pieces, Piece, Closing, Payload
<1>4. ASSUME NEW n PROVE (PiecesOf(n)' = PiecesOf(n)) /\ (Closed(n)' <=> Closed(n))
  <2>1. PICK i, l : i = sent[n].index /\ l = Len(sent)
    OBVIOUS
  <2>2. SentAs("delta", i)' = SentAs("delta", i)
    BY DEF SentAs, Payload
  <2>3. Closing(i, l)' <=> Closing(i, l)
    BY <1>3
  <2> QED BY <2>1, <2>2, <2>3 DEF PiecesOf, Closed
<1>5. EndsTold(o, m)' <=> EndsTold(o, m)
  BY <1>4 DEF EndsTold, EndAt
<1>6. ASSUME NEW i, NEW call PROVE CallTold(call, i, o, m)' <=> CallTold(call, i, o, m)
  <2>1. OpenAt(call, i, o, m)' <=> OpenAt(call, i, o, m)
    BY <1>3 DEF OpenAt, Synthetic1, Begun, Over, Payload
  <2>2. GoneAt(i, o, m)' <=> GoneAt(i, o, m)
    BY <1>3 DEF GoneAt, Synthetic1, Over, Payload
  <2> QED BY <2>1, <2>2 DEF CallTold
<1>7. CallsTold(a, o, m)' <=> CallsTold(a, o, m)
  BY <1>6 DEF CallsTold
<1> QED
  BY <1>2, <1>5, <1>7 DEF Tale

LEMMA AccsSame ==
  ASSUME UNCHANGED <<source, format, sent>>
  PROVE  Accs' = Accs /\ Signs' = Signs /\ (SentFine => SentFine')
<1>1. Halves' = Halves
  BY DEF Halves
<1>2. HalfLines' = HalfLines /\ LineLists' = LineLists
  BY <1>1 DEF HalfLines, LineLists
<1>3. Actives' = Actives /\ Outs' = Outs
  BY DEF Actives, Outs, OpenCalls, Chunks, OutTypes, PayloadTypes, Indexes
<1>4. SentFine => SentFine'
  BY DEF SentFine
<1> QED
  BY <1>1, <1>2, <1>3, <1>4 DEF Accs, Signs, LineBreak

LEMMA ReadsSame ==
  ASSUME UNCHANGED <<source, format, sent>>, NEW acc, NEW n, NEW h
  PROVE  /\ Reads(acc, n, h) => Reads(acc, n, h)'
         /\ SomeTold(acc.active, acc.out) => SomeTold(acc.active, acc.out)'
         /\ AllTold(acc.active, acc.out) => AllTold(acc.active, acc.out)'
<1>1. PICK a, o : a = acc.active /\ o = acc.out
  OBVIOUS
<1>2. \A m : Tale(a, o, m)' <=> Tale(a, o, m)
  BY TaleSame
<1>3. acc \in Accs => acc \in Accs'
  BY AccsSame
<1>4. Reads(acc, n, h) => Reads(acc, n, h)'
  BY <1>1, <1>2, <1>3
     DEF Reads, PlaceOk, LineAt, LinesTold, LinesAre, Upto, NoHalves, FirstHalf, WholeLine, Half, Blanks, Completions
<1>5. SomeTold(acc.active, acc.out) => SomeTold(acc.active, acc.out)'
  BY <1>1, <1>2 DEF SomeTold
<1>6. AllTold(acc.active, acc.out) => AllTold(acc.active, acc.out)'
  BY <1>1, <1>2 DEF AllTold
<1> QED
  BY <1>4, <1>5, <1>6
-----------------------------------------------------------------------------
(* While the body is read there is a way on the wire from what was read to *)
(* the last line sent, unless the rest was lost.                           *)
Waiting(acc, w, broken) ==
  \E n \in 0..Len(sent), h \in 0..3 : Reads(acc, n, h) /\ (IF broken THEN w = <<>> ELSE Path(w, n, h))
Resting(acc, broken) ==
  /\ acc \in Accs /\ acc.stage # "reading" /\ SomeTold(acc.active, acc.out)
  /\ acc.stage = "ended" /\ ~broken => AllTold(acc.active, acc.out)
StreamInv == SentFine /\ wire \in Seq(Signs) /\ (Waiting(Reading, wire, lost) \/ Resting(Reading, lost))

LEMMA WaitingSome ==
  ASSUME SentFine, NEW acc, NEW w, NEW broken, Waiting(acc, w, broken)
  PROVE  acc \in Accs /\ acc.stage = "reading" /\ SomeTold(acc.active, acc.out)
<1>1. PICK n \in 0..Len(sent), h \in 0..3 : Reads(acc, n, h)
  BY DEF Waiting
<1>2. PICK m \in 0..n : LinesTold(acc, m, n, h)
  BY <1>1 DEF Reads
<1>3. m \in 0..Len(sent)
  <2>1. PICK L \in Nat : L = Len(sent)
    BY DEF SentFine
  <2> QED BY <1>1, <1>2, <2>1
<1> QED
  BY <1>1, <1>2, <1>3 DEF Reads, SomeTold, LinesTold

LEMMA StandsSame ==
  ASSUME UNCHANGED <<source, format, sent>>, NEW acc, NEW w, NEW broken
  PROVE  /\ Waiting(acc, w, broken) => Waiting(acc, w, broken)'
         /\ Resting(acc, broken) => Resting(acc, broken)'
<1>1. ASSUME NEW n, NEW h, Path(w, n, h) PROVE Path(w, n, h)'
  <2>1. PICK src, L : src = source /\ L = Len(sent) /\ src = source' /\ L = Len(sent')
    OBVIOUS
  <2>2. Way(src, L, w, n, h, L, 0)
    BY <1>1, <2>1 DEF Path
  <2> QED BY <2>1, <2>2 DEF Path
<1>2. ASSUME Waiting(acc, w, broken) PROVE Waiting(acc, w, broken)'
  <2>1. PICK n \in 0..Len(sent), h \in 0..3 : Reads(acc, n, h) /\ (IF broken THEN w = <<>> ELSE Path(w, n, h))
    BY <1>2 DEF Waiting
  <2>2. Reads(acc, n, h)'
    BY <2>1, ReadsSame
  <2>3. n \in 0..Len(sent')
    OBVIOUS
  <2> QED BY <1>1, <2>1, <2>2, <2>3 DEF Waiting
<1>3. ASSUME Resting(acc, broken) PROVE Resting(acc, broken)'
  BY <1>3, AccsSame, ReadsSame DEF Resting
<1> QED
  BY <1>2, <1>3

LEMMA NowReads ==
  ASSUME NEW e \in Accs, Becomes(e)
  PROVE  Reading' = e
  BY DEF Becomes, Kept, Reading, Accs

LEMMA EmptyWay ==
  ASSUME NEW src, NEW L, NEW n \in Nat, NEW h \in Nat
  PROVE  Way(src, L, <<>>, n, h, n, h)
<1>1. PICK N \in [0..0 -> Nat] : N[0] = n
  <2>1. [j \in 0..0 |-> n] \in [0..0 -> Nat] /\ [j \in 0..0 |-> n][0] = n
    OBVIOUS
  <2> QED BY <2>1
<1>2. PICK H \in [0..0 -> Nat] : H[0] = h
  <2>1. [j \in 0..0 |-> h] \in [0..0 -> Nat] /\ [j \in 0..0 |-> h][0] = h
    OBVIOUS
  <2> QED BY <2>1
<1>3. WayBy(src, L, <<>>, 0, N, H)
  BY DEF WayBy
<1>4. 0 \in Nat /\ 0 = Len(<<>>)
  OBVIOUS
<1> QED
  BY <1>1, <1>2, <1>3, <1>4 DEF Way

LEMMA StreamInitially == StreamInit => StreamInv
<1> SUFFICES ASSUME StreamInit PROVE StreamInv
  OBVIOUS
<1>1. SentFine
  <2>1. Len(<<>>) = 0 /\ <<>> \in Seq(Payloads)
    OBVIOUS
  <2>2. source \in {"anthropic", "openai", "openrouter", "google", "ollama"}
    BY StreamAssumption DEF StreamInit
  <2> QED BY <2>1, <2>2 DEF StreamInit, SentFine
<1>2. wire \in Seq(Signs)
  <2>1. <<>> \in Seq(Signs)
    OBVIOUS
  <2> QED BY <2>1 DEF StreamInit
<1>3. PICK b : b = Reading
  OBVIOUS
<1>4. b.line = NoHalves /\ b.lines = NoLines /\ b.active = [i \in Indexes |-> NoBlock] /\ b.out = <<>>
      /\ b.stage = "reading" /\ Len(sent) = 0
  BY <1>3 DEF StreamInit, Reading, NoHalves, NoLines
<1>5. b \in Accs
  <2>1. buffer \in HalfLines /\ dataLines \in LineLists /\ active \in Actives /\ out \in Outs /\ stage = "reading"
    <3>1. <<>> \in Seq(Halves) /\ <<>> \in Seq(HalfLines) /\ <<>> \in Seq(Chunks)
      OBVIOUS
    <3> QED BY <3>1 DEF StreamInit, HalfLines, LineLists, Actives, Outs
  <2> QED BY <1>3, <2>1 DEF Reading, Accs
<1>6. Tale(b.active, b.out, 0)
  <2>1. 1..0 = {} /\ Len(<<>>) = 0
    OBVIOUS
  <2>2. TextTold(b.out, 0) /\ EndsTold(b.out, 0)
    BY <1>4, <2>1 DEF TextTold, AllText, EndsTold
  <2>3. CallsTold(b.active, b.out, 0)
    BY <1>4, <2>1 DEF CallsTold, CallTold, GoneAt
  <2> QED BY <2>2, <2>3 DEF Tale
<1>7. LinesTold(b, 0, 0, 0)
  BY <1>4, <1>6, NoneAre DEF LinesTold, Upto
<1>8. Reads(b, 0, 0)
  BY <1>4, <1>5, <1>7 DEF Reads, PlaceOk, LineAt
<1>9. Path(wire, 0, 0)
  BY <1>4, EmptyWay DEF StreamInit, Path
<1>10. 0 \in 0..Len(sent) /\ 0 \in 0..3 /\ ~lost
  BY <1>4 DEF StreamInit
<1> QED
  BY <1>1, <1>2, <1>3, <1>8, <1>9, <1>10 DEF StreamInv, Waiting
-----------------------------------------------------------------------------
(* The steps: the provider sends, a chunk comes, the body ends or breaks   *)
(* off.                                                                    *)
LEMMA SendKeeps ==
  ASSUME StreamInv, NEW p \in NextPayloads, NEW blank \in BOOLEAN, ProviderSends(p, blank)
  PROVE  StreamInv'
<1>1. /\ stage = "reading" /\ ~lost /\ (blank \/ source \in Completions \cup {"ollama"})
      /\ sent' = Append(sent, p) /\ UNCHANGED <<source, format>>
      /\ wire' = wire \o LineOf(Len(sent')) \o (IF blank /\ source # "ollama" THEN <<LineBreak>> ELSE <<>>)
      /\ UNCHANGED <<buffer, dataLines, active, out, stage, lost>>
  BY DEF ProviderSends
<1>2. SentFine
  BY DEF StreamInv
<1>L. PICK L \in Nat : L = Len(sent)
  BY <1>2 DEF SentFine
<1>3. SentFine' /\ Len(sent') = L + 1
  BY <1>1, <1>2, <1>L, SentGrows
<1>x. PICK x \in Nat : x = L + 1
  OBVIOUS
<1>4. PICK b, broken : b = Reading /\ broken = lost
  OBVIOUS
<1>5. Reading' = b /\ b.stage = "reading" /\ ~broken /\ lost' = broken
  BY <1>1, <1>4 DEF Reading
<1>6. Waiting(b, wire, broken)
  <2>1. ~Resting(b, lost)
    BY <1>5 DEF Resting
  <2> QED BY <1>1, <1>4, <2>1 DEF StreamInv
<1>7. PICK n \in 0..Len(sent), h \in 0..3 : Reads(b, n, h) /\ Path(wire, n, h)
  BY <1>5, <1>6 DEF Waiting
<1>8. Reads(b, n, h)'
  BY <1>1, <1>2, <1>7, ReadsGrow
<1>9. PICK src \in {"anthropic", "openai", "openrouter", "google", "ollama"} : src = source
  BY <1>2 DEF SentFine
<1>10. PICK w \in Seq(SignsTo(L)) : w = wire
  BY <1>L DEF StreamInv, Signs, SignsTo, Halves
<1>11. Way(src, L, w, n, h, L, 0)
  BY <1>7, <1>9, <1>10, <1>L DEF Path
<1>12. PICK u : u = WireWith(w, x, src, blank)
  OBVIOUS
<1>13. wire' = u
  BY <1>1, <1>3, <1>9, <1>10, <1>12, <1>x DEF WireWith
<1>14. blank \/ src \in Completions \cup {"ollama"}
  BY <1>1, <1>9
<1>15. u \in Seq(SignsTo(x)) /\ Way(src, x, u, n, h, x, 0)
  BY <1>x, <1>11, <1>12, <1>14, WayGrows
<1>16. Path(u, n, h)'
  <2>1. source' = src /\ Len(sent') = x
    BY <1>1, <1>3, <1>9, <1>x
  <2> QED BY <1>15, <2>1 DEF Path
<1>17. u \in Seq(Signs)'
  BY <1>3, <1>15, <1>x DEF Signs, SignsTo, Halves
<1>18. n \in 0..Len(sent')
  BY <1>3, <1>L
<1>19. Waiting(b, u, broken)'
  BY <1>5, <1>8, <1>16, <1>18 DEF Waiting
<1> QED
  BY <1>1, <1>3, <1>5, <1>13, <1>17, <1>19 DEF StreamInv

LEMMA ChunkKeeps ==
  ASSUME StreamInv, NEW k \in DOMAIN wire, ChunkArrives(k)
  PROVE  StreamInv'
<1>1. /\ stage = "reading" /\ UNCHANGED <<source, format, sent>> /\ lost' = lost
      /\ Becomes(FoldLeft(Symbol, Reading, SubSeq(wire, 1, k)))
      /\ wire' = SubSeq(wire, k + 1, Len(wire))
  BY DEF ChunkArrives
<1>2. SentFine
  BY DEF StreamInv
<1>b. PICK b : b = Reading
  OBVIOUS
<1>3. b = Reading /\ b.stage = "reading"
  BY <1>1, <1>b DEF Reading
<1>4. PICK w \in Seq(Signs) : w = wire
  BY DEF StreamInv
<1>l. PICK l \in Nat : l = Len(w) /\ k \in 1..l
  BY <1>4
<1>5. Waiting(b, w, lost) /\ w # <<>>
  <2>1. ~Resting(b, lost)
    BY <1>3 DEF Resting
  <2>2. w # <<>>
    BY <1>l
  <2> QED BY <1>3, <1>4, <2>1, <2>2 DEF StreamInv
<1>6. PICK n \in 0..Len(sent), h \in 0..3 : Reads(b, n, h) /\ Path(w, n, h)
  BY <1>5 DEF Waiting
<1>7. PICK s \in Seq(Signs) : s = SubSeq(wire, 1, k) /\ Len(s) = k /\ \A j \in 1..k : s[j] = w[j]
  <2>1. \A i \in 1..k : w[i] \in Signs
    BY <1>l, ElementOfSeq
  <2>2. 1 \in Int /\ k \in Int /\ 1 <= k /\ k - 1 + 1 = k /\ \A j \in 1..k : 1 + j - 1 = j
    BY <1>l
  <2>3. /\ SubSeq(w, 1, k) \in Seq(Signs) /\ Len(SubSeq(w, 1, k)) = k
        /\ \A j \in 1..k : SubSeq(w, 1, k)[j] = w[j]
    BY <2>1, <2>2, SubSeqProperties
  <2> QED BY <1>4, <2>3
<1>8. PICK t \in Seq(Signs) : t = SubSeq(wire, k + 1, Len(wire)) /\ Len(t) = l - k /\ \A j \in 1..(l - k) : t[j] = w[k + j]
  <2>0. PICK d \in Nat : d = l - k
    BY <1>l
  <2>1. \A i \in (k + 1)..l : w[i] \in Signs
    BY <1>l, ElementOfSeq
  <2>2. /\ k + 1 \in Int /\ l \in Int /\ l - (k + 1) + 1 = d /\ (k + 1 <= l => d = l - (k + 1) + 1) /\ (~(k + 1 <= l) => d = 0)
        /\ \A j \in 1..d : (k + 1) + j - 1 = k + j
    BY <1>l, <2>0
  <2>3. /\ SubSeq(w, k + 1, l) \in Seq(Signs) /\ Len(SubSeq(w, k + 1, l)) = d
        /\ \A j \in 1..d : SubSeq(w, k + 1, l)[j] = w[k + j]
    BY <2>1, <2>2, SubSeqProperties
  <2> QED BY <1>4, <1>l, <2>0, <2>3
<1>9. PICK e : e = SymbolAll(b, s)
  OBVIOUS
<1>10. e \in Accs /\ (Halted(e) \/ Arrived(e, t))
  <2>1. k \in Nat /\ k \in 0..Len(w) /\ Len(t) = Len(w) - k
    BY <1>8, <1>l
  <2>2. \A j \in 1..(Len(w) - k) : t[j] = w[k + j]
    BY <1>8, <1>l
  <2>3. SplitAt(w, k, s, t)
    BY <1>7, <2>1, <2>2 DEF SplitAt
  <2> QED BY <1>2, <1>6, <1>9, <2>1, <2>3, ChunkReads
<1>11. Reading' = e
  <2>1. Becomes(e)
    BY <1>1, <1>3, <1>7, <1>9 DEF SymbolAll
  <2> QED BY <1>10, <2>1, NowReads
<1>12. CASE Halted(e)
  <2>1. Resting(e, lost)
    BY <1>12 DEF Halted, Resting
  <2>2. PICK broken : broken = lost
    OBVIOUS
  <2>3. Resting(e, broken)'
    BY <1>1, <2>1, <2>2, StandsSame
  <2>4. Resting(Reading, lost)'
    BY <1>1, <1>11, <2>2, <2>3
  <2> QED BY <1>1, <1>2, <1>8, <2>4, AccsSame DEF StreamInv
<1>13. CASE Arrived(e, t)
  <2>1. PICK broken : broken = lost /\ ~broken
    BY <1>5 DEF Waiting
  <2>2. Waiting(e, t, broken)
    BY <1>13, <2>1 DEF Arrived, Waiting
  <2>3. Waiting(e, t, broken)'
    BY <1>1, <2>2, StandsSame
  <2> QED BY <1>1, <1>2, <1>8, <1>11, <2>1, <2>3, AccsSame DEF StreamInv
<1> QED
  BY <1>10, <1>12, <1>13

StageOf(f, stage2) == [f EXCEPT !.stage = stage2]

LEMMA StageIn ==
  ASSUME NEW f \in Accs, NEW st \in {"reading", "ended", "threw", "left"}, NEW g, g = StageOf(f, st)
  PROVE  g \in Accs /\ g.active = f.active /\ g.out = f.out /\ g.stage = st
  BY DEF StageOf, Accs

LEMMA EndKeeps == StreamInv /\ BodyEnds => StreamInv'
<1> SUFFICES ASSUME StreamInv, BodyEnds PROVE StreamInv'
  OBVIOUS
<1>1. stage = "reading" /\ wire = <<>> /\ UNCHANGED <<source, format, sent>> /\ lost' = lost /\ wire' = wire
  BY DEF BodyEnds
<1>2. SentFine
  BY DEF StreamInv
<1>b. PICK b : b = Reading
  OBVIOUS
<1>3. b = Reading /\ b.stage = "reading" /\ b.line = buffer
  BY <1>1, <1>b DEF Reading
<1>4. Waiting(b, wire, lost)
  <2>1. ~Resting(b, lost)
    BY <1>3 DEF Resting
  <2> QED BY <1>3, <2>1 DEF StreamInv
<1>5. PICK n \in 0..Len(sent), h \in 0..3 : Reads(b, n, h) /\ (IF lost THEN wire = <<>> ELSE Path(wire, n, h))
  BY <1>4 DEF Waiting
<1>6. PICK f : f = Finishing(b)
  OBVIOUS
<1>7. FarTold(f, n, h)
  BY <1>2, <1>5, <1>6, BodyTold
<1>8. PICK st \in {"reading", "ended", "threw", "left"} : st = IF f.stage = "threw" THEN f.stage ELSE "ended"
  OBVIOUS
<1>9. PICK g : g = StageOf(f, st)
  OBVIOUS
<1>10. g \in Accs /\ g.active = f.active /\ g.out = f.out /\ g.stage = st
  BY <1>7, <1>9, StageIn DEF FarTold
<1>11. Becomes(g)
  <2>1. Finishing(b) = EventOf(IF buffer = <<>> THEN Reading ELSE LineEnds(Reading))
    BY <1>3 DEF Finishing, NoHalves
  <2> QED BY <1>6, <1>8, <1>9, <2>1 DEF BodyEnds, StageOf
<1>12. Reading' = g
  BY <1>10, <1>11, NowReads
<1>13. ~lost => n = Len(sent) /\ h = 0
  <2>1. ASSUME ~lost PROVE n = Len(sent) /\ h = 0
    <3>1. Way(source, Len(sent), <<>>, n, h, Len(sent), 0)
      BY <1>1, <1>5, <2>1 DEF Path
    <3>2. PICK l \in Nat : l = Len(<<>>) /\ \E N, H \in [0..l -> Nat] :
            N[0] = n /\ H[0] = h /\ N[l] = Len(sent) /\ H[l] = 0
      BY <3>1 DEF Way
    <3>3. l = 0
      BY <3>2
    <3> QED BY <3>2, <3>3
  <2> QED BY <2>1
<1>14. Resting(g, lost)
  <2>1. SomeTold(g.active, g.out)
    BY <1>7, <1>10 DEF FarTold
  <2>2. g.stage = "ended" /\ ~lost => AllTold(g.active, g.out)
    BY <1>7, <1>8, <1>10, <1>13 DEF FarTold
  <2>3. g.stage # "reading"
    BY <1>8, <1>10
  <2> QED BY <1>10, <2>1, <2>2, <2>3 DEF Resting
<1>15. Resting(Reading, lost)'
  <2>1. PICK broken : broken = lost
    OBVIOUS
  <2>2. Resting(g, broken)'
    BY <1>1, <1>14, <2>1, StandsSame
  <2> QED BY <1>1, <1>12, <2>1, <2>2
<1> QED
  BY <1>1, <1>2, <1>15, AccsSame DEF StreamInv

LEMMA BreakKeeps == StreamInv /\ (ConnectionBreaks \/ ConsumerLeaves) => StreamInv'
<1> SUFFICES ASSUME StreamInv, ConnectionBreaks \/ ConsumerLeaves PROVE StreamInv'
  OBVIOUS
<1>1. /\ stage = "reading" /\ UNCHANGED <<source, format, sent, buffer, dataLines, active, out>>
      /\ \/ stage' = "reading" /\ wire' = <<>> /\ lost'
         \/ stage' = "threw" /\ wire' = <<>>
         \/ stage' = "left" /\ wire' = wire
  BY DEF ConnectionBreaks, ConsumerLeaves
<1>2. SentFine
  BY DEF StreamInv
<1>b. PICK b : b = Reading
  OBVIOUS
<1>3. b = Reading /\ b.stage = "reading"
  BY <1>1, <1>b DEF Reading
<1>4. Waiting(b, wire, lost)
  <2>1. ~Resting(b, lost)
    BY <1>3 DEF Resting
  <2> QED BY <1>3, <2>1 DEF StreamInv
<1>5. b \in Accs /\ SomeTold(b.active, b.out)
  BY <1>2, <1>4, WaitingSome
<1>6. wire' \in Seq(Signs)'
  <2>1. <<>> \in Seq(Signs)
    OBVIOUS
  <2> QED BY <1>1, <2>1, AccsSame DEF StreamInv
<1>7. CASE stage' = "reading" /\ wire' = <<>> /\ lost'
  <2>1. Reading' = b
    BY <1>1, <1>3, <1>7 DEF Reading
  <2>2. Waiting(b, <<>>, TRUE)
    BY <1>4 DEF Waiting
  <2>3. Waiting(b, <<>>, TRUE)'
    BY <1>1, <2>2, StandsSame
  <2> QED BY <1>1, <1>2, <1>6, <1>7, <2>1, <2>3, AccsSame DEF StreamInv
<1>8. CASE stage' \in {"threw", "left"}
  <2>1. PICK st \in {"reading", "ended", "threw", "left"} : st = stage'
    BY <1>8
  <2>2. PICK g : g = StageOf(b, st)
    OBVIOUS
  <2>3. g \in Accs /\ g.active = b.active /\ g.out = b.out /\ g.stage = st
    BY <1>5, <2>2, StageIn
  <2>4. Reading' = g
    BY <1>1, <1>3, <2>1, <2>2 DEF Reading, StageOf
  <2>5. ASSUME NEW broken PROVE Resting(g, broken)
    BY <1>5, <1>8, <2>1, <2>3 DEF Resting
  <2>6. PICK broken : broken = lost'
    OBVIOUS
  <2>7. Resting(g, broken)'
    BY <1>1, <2>5, StandsSame
  <2> QED BY <1>1, <1>2, <1>6, <2>4, <2>6, <2>7, AccsSame DEF StreamInv
<1> QED
  BY <1>1, <1>7, <1>8

LEMMA StreamStep == StreamInv /\ [StreamNext]_streamVars => StreamInv'
<1> SUFFICES ASSUME StreamInv, [StreamNext]_streamVars PROVE StreamInv'
  OBVIOUS
<1>1. CASE \E p \in NextPayloads, blank \in BOOLEAN : ProviderSends(p, blank)
  BY <1>1, SendKeeps
<1>2. CASE \E k \in DOMAIN wire : ChunkArrives(k)
  BY <1>2, ChunkKeeps
<1>3. CASE BodyEnds \/ ConnectionBreaks \/ ConsumerLeaves
  BY <1>3, EndKeeps, BreakKeeps
<1>4. CASE UNCHANGED streamVars
  <2>1. UNCHANGED <<source, format, sent>> /\ wire' = wire /\ lost' = lost /\ Reading' = Reading
    BY <1>4 DEF streamVars, Reading
  <2>2. PICK b, w, broken : b = Reading /\ w = wire /\ broken = lost
    OBVIOUS
  <2>3. Waiting(b, w, broken) \/ Resting(b, broken)
    BY <2>2 DEF StreamInv
  <2>4. Waiting(b, w, broken)' \/ Resting(b, broken)'
    BY <2>1, <2>3, StandsSame
  <2> QED BY <2>1, <2>2, <2>4, AccsSame DEF StreamInv
<1> QED
  BY <1>1, <1>2, <1>3, <1>4 DEF StreamNext
(* What was read and told so is what the checked property says.            *)
LEMMA StreamHolds == StreamInv => StreamTellsReply
<1> SUFFICES ASSUME StreamInv PROVE StreamTellsReply
  OBVIOUS
<1>1. SentFine
  BY DEF StreamInv
<1>L. PICK L \in Nat : L = Len(sent)
  BY <1>1 DEF SentFine
<1>2. out \in Outs /\ active \in Actives /\ SomeTold(active, out) /\ (stage = "ended" /\ ~lost => AllTold(active, out))
  <2>1. Reading.active = active /\ Reading.out = out /\ Reading.stage = stage
    BY DEF Reading
  <2>2. CASE Waiting(Reading, wire, lost)
    <3>1. Reading \in Accs /\ Reading.stage = "reading" /\ SomeTold(Reading.active, Reading.out)
      BY <1>1, <2>2, WaitingSome
    <3> QED BY <2>1, <3>1 DEF Accs
  <2>3. CASE Resting(Reading, lost)
    <3>1. Reading \in Accs
      BY <2>3 DEF Resting
    <3>2. out \in Outs /\ active \in Actives
      BY <2>1, <3>1 DEF Accs
    <3> QED BY <2>1, <2>3, <3>2 DEF Resting
  <2> QED BY <2>2, <2>3 DEF StreamInv
<1>3. PICK p \in 0..L : Tale(active, out, p)
  BY <1>2, <1>L DEF SomeTold
<1>4. PICK l \in Nat : l = Len(out) /\ DOMAIN out = 1..l
  BY <1>2 DEF Outs
<1>5. \A n : n \in Texts <=> n \in 1..L /\ IsText(n)
  <2>1. DOMAIN sent = 1..L
    BY <1>1, <1>L DEF SentFine
  <2> QED BY <2>1 DEF Texts, SentAs, IsText
<1>6. (\A n \in 1..p : n \in 1..L) /\ \A n \in 1..L : \A x \in 1..p : n < x => n \in 1..p
  OBVIOUS
<1>7. ASSUME NEW k \in DOMAIN out, out[k].type = "text"
      PROVE  /\ out[k].n \in Texts
             /\ \A j \in 1..(k - 1) : out[j].type = "text" => out[j].n < out[k].n
             /\ \A n \in Texts : n < out[k].n => \E j \in 1..(k - 1) : out[j] = Chunk("text", n, <<>>)
  <2>1. TextAt(out, k, p)
    BY <1>3, <1>4 DEF Tale, TextTold
  <2>2. /\ out[k].n \in 1..p /\ IsText(out[k].n)
        /\ \A j \in 1..(k - 1) : out[j].type = "text" => out[j].n < out[k].n
        /\ \A n \in 1..p : IsText(n) /\ n < out[k].n => \E j \in 1..(k - 1) : out[j] = TextChunk(n)
    BY <1>7, <2>1 DEF TextAt
  <2>3. out[k].n \in Texts
    BY <1>5, <1>6, <2>2
  <2>4. ASSUME NEW n \in Texts, n < out[k].n PROVE \E j \in 1..(k - 1) : out[j] = Chunk("text", n, <<>>)
    <3>1. n \in 1..L /\ IsText(n)
      BY <1>5
    <3>2. n \in 1..p
      BY <1>6, <2>2, <2>4, <3>1
    <3> QED BY <2>2, <2>4, <3>1, <3>2 DEF TextChunk
  <2> QED BY <2>2, <2>3, <2>4
<1>8. ASSUME NEW k \in DOMAIN out, out[k].type = "end"
      PROVE  /\ \E j \in 1..(k - 1) : out[j].type = "start" /\ out[j].n = out[k].n
             /\ \A j \in 1..(k - 1) : ~(out[j].type = "end" /\ out[j].n = out[k].n)
             /\ Lists(out[k].args, PiecesOf(out[k].n))
  <2>1. EndAt(out, k, p)
    BY <1>3, <1>4 DEF Tale, EndsTold
  <2> QED BY <1>8, <2>1 DEF EndAt
<1>9. ASSUME stage = "ended", ~lost
      PROVE  /\ \A n \in Texts : \E k \in DOMAIN out : out[k] = Chunk("text", n, <<>>)
             /\ \A n \in DOMAIN sent :
                  sent[n].type = "start" /\ ~Synthetic1(sent[n].index) /\ CallsEndWith(n)
                    => \E k \in DOMAIN out : out[k].type = "end" /\ out[k].n = n
  <2>1. PICK q \in 0..L : Tale(active, out, q) /\ \A y \in (q + 1)..L : sent[y].type = "done"
    BY <1>2, <1>9, <1>L DEF AllTold
  <2>2. \A n \in 1..L : sent[n].type = "done" \/ n \in 1..q
    <3>1. \A n \in 1..L : n \in 1..q \/ n \in (q + 1)..L
      OBVIOUS
    <3> QED BY <2>1, <3>1
  <2>3. ASSUME NEW n \in Texts PROVE \E k \in DOMAIN out : out[k] = Chunk("text", n, <<>>)
    <3>1. n \in 1..L /\ IsText(n)
      BY <1>5
    <3>2. sent[n].type # "done"
      BY <3>1 DEF IsText, Payload
    <3>3. n \in 1..q
      BY <2>2, <3>1, <3>2
    <3>4. AllText(out, q)
      BY <2>1 DEF Tale, TextTold
    <3> QED BY <1>4, <3>1, <3>3, <3>4 DEF AllText, TextChunk
  <2>4. ASSUME NEW n \in DOMAIN sent, sent[n].type = "start", ~Synthetic1(sent[n].index), CallsEndWith(n)
        PROVE  \E k \in DOMAIN out : out[k].type = "end" /\ out[k].n = n
    <3>1. n \in 1..L /\ DOMAIN sent = 1..L
      BY <1>1, <1>L DEF SentFine
    <3>2. n \in 1..q
      BY <2>2, <2>4, <3>1
    <3>3. PICK i \in Indexes : i = sent[n].index
      BY <1>1, <1>L, <2>4, <3>1, SentIndex DEF OfCalls
    <3>4. sent[n] = Payload("start", i)
      BY <1>1, <1>L, <2>4, <3>1, <3>3, SentIndex DEF Payload, Payloads
    <3>5. sent[n].type \in TypesFrom(source)
      BY <1>1, <1>L, <3>1 DEF SentFine
    <3>6. source = "anthropic" \/ source \in Completions
      BY <1>1, <2>4, <3>5, TypesFromFacts DEF SentFine
    <3>7. PICK x \in 1..L : sent[x] = Payload("stop", i) \/ sent[x].type = "finish"
      <4>1. CASE source = "anthropic"
        <5>1. SentAs("stop", i) # {}
          BY <2>4, <3>3, <4>1 DEF CallsEndWith, Completions
        <5> QED BY <3>1, <5>1 DEF SentAs
      <4>2. CASE source \in Completions
        <5>1. HasSent({"finish"})
          BY <2>4, <4>2 DEF CallsEndWith, Completions
        <5> QED BY <3>1, <5>1 DEF HasSent
      <4> QED BY <3>6, <4>1, <4>2
    <3>8. sent[x].type # "done"
      BY <3>7 DEF Payload
    <3>9. Closing(i, q)
      BY <2>2, <3>7, <3>8 DEF Closing
    <3>10. CallTold(active[i], i, out, q)
      BY <2>1 DEF Tale, CallsTold
    <3>11. GoneAt(i, out, q)
      BY <3>9, <3>10 DEF CallTold, OpenAt
    <3>12. Over(out, n)
      BY <2>4, <3>2, <3>3, <3>4, <3>11 DEF GoneAt
    <3> QED BY <1>4, <3>12 DEF Over
  <2> QED BY <2>3, <2>4
<1> QED
  BY <1>7, <1>8, <1>9 DEF StreamTellsReply
-----------------------------------------------------------------------------
(* The services. *)
RepliesInv == RequestInv /\ StreamInv

LEMMA RepliesInitially == ServicesInit => RepliesInv
  BY RequestInitially, StreamInitially DEF ServicesInit, RepliesInv

LEMMA RepliesStep == RepliesInv /\ [ServicesNext]_servicesVars => RepliesInv'
<1> SUFFICES ASSUME RepliesInv, [ServicesNext]_servicesVars PROVE RepliesInv'
  OBVIOUS
<1>1. [RequestNext]_requestVars /\ [StreamNext]_streamVars
  BY DEF ServicesNext, servicesVars, modelVars
<1> QED
  BY <1>1, RequestStep, StreamStep DEF RepliesInv

(* Whatever the conversation, the provider, its answer and the chunks in   *)
(* which it arrives: each call in a request is followed by its results and *)
(* no instruction, result or call is left out or told out of order; a      *)
(* response that stops for calls has calls, none of them the synthetic     *)
(* one, and calls only come when tools were offered; and the reader of a   *)
(* stream is told what was sent, in order and once, all of it when the     *)
(* body was read to its end (models/anthropic.ts:105,                      *)
(* models/openai.ts:438, models/sse.ts:25).                                *)
THEOREM RepliesStaySound == ServicesSpec => []RepliesSound
<1>1. RepliesInv => RepliesSound
  BY RequestHolds, StreamHolds DEF RepliesInv, RequestInv, RepliesSound
<1> QED
  BY <1>1, RepliesInitially, RepliesStep, PTL DEF ServicesSpec
=============================================================================
