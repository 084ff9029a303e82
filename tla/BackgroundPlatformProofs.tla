----------------------- MODULE BackgroundPlatformProofs -----------------------
(***************************************************************************)
(* Proofs about BackgroundPlatform: the slots, the queue and the resources *)
(* of the sessions are accounted for, for every set of sessions and of     *)
(* calls, every capacity and every provider that fails, and the status of  *)
(* a session only moves forward unless a review and another call meet on   *)
(* it.                                                                     *)
(***************************************************************************)
EXTENDS BackgroundPlatform, FiniteSetTheorems, SequenceTheorems, TLAPS

(* A queue holds each of the sessions Q once, and nothing else.             *)
Enumerates(q, Q) ==
  /\ q \in Seq(Sessions)
  /\ \A i \in 1..Len(q) : q[i] \in Q
  /\ \A i, j \in 1..Len(q) : q[i] = q[j] => i = j
  /\ \A s \in Q : \E i \in 1..Len(q) : q[i] = s

PCs == Executing \cup {"new", "refused", "creating", "queued", "withdrawn", "done", "rejected"}

Running == {s \in Sessions : pc[s] \in Executing}
Waiting == {s \in Sessions : pc[s] = "queued"}

SlotInv ==
  /\ pc \in [Sessions -> PCs]
  /\ active = Running /\ Cardinality(active) <= MaxConcurrent
  /\ Enumerates(queue, Waiting)
  /\ NoIdleSlot

(* How far the stored status may be behind or ahead of executeSession.      *)
StageOf(s) ==
  /\ pc[s] = "new" => stored[s] = NoRecord
  /\ pc[s] \in {"creating", "queued", "loading"} =>
       stored[s].status = "queued" /\ stored[s].freed = {}
  /\ pc[s] = "loading" => snap[s] = stored[s]
  /\ pc[s] \in {"routing", "environment", "identity", "grant"} => stored[s].status = "provisioning"
  /\ pc[s] \in {"running", "publishing", "review"} \/ (pc[s] = "releasing" /\ releasing[s] = "finished") =>
       stored[s].status = "running"
  /\ pc[s] \in {"releasing", "rejected"} => stored[s].status \in {"provisioning", "running"}
  /\ pc[s] \in {"saving", "done"} => IsSettled(stored[s].status)
  /\ pc[s] = "withdrawn" => stored[s].status \in {"queued", "cancelled"}
  /\ pc[s] = "refused" => stored[s].status = "none"

(* What the providers hold is in the copy that the release works from.      *)
HeldOf(s) ==
  /\ pc[s] \in {"new", "refused", "creating", "queued", "loading", "withdrawn", "review"} =>
       live[s] = {}
  /\ pc[s] \in {"routing", "environment", "identity", "grant"} =>
       live[s] \subseteq snap[s].held /\ snap[s].freed = {}
  /\ pc[s] = "running" => live[s] \subseteq stored[s].held /\ stored[s].freed = {}
  /\ pc[s] = "publishing" \/ (pc[s] = "releasing" /\ releasing[s] = "finished") =>
       live[s] \subseteq Pending(s)
  /\ stored[s].status \in {"completed", "awaiting_review"} => live[s] = {}

(* A call only writes back where executeSession no longer does.             *)
CallSafe(c) ==
  /\ cpc[c] = "dequeued" => pc[Target[c]] = "withdrawn"
  /\ cpc[c] = "loaded" /\ csnap[c].status = "awaiting_review" => pc[Target[c]] \in {"saving", "done"}
  /\ cpc[c] = "deciding" => pc[Target[c]] \in {"saving", "done"} /\ live[Target[c]] = {}

RecordInv ==
  /\ \A s \in Sessions : StageOf(s) /\ HeldOf(s)
  /\ \A c \in Calls : CallSafe(c)

PlatformInv == TypeOK /\ SlotInv /\ RecordInv

-----------------------------------------------------------------------------
(* Queues. *)
LEMMA EnumeratesElements ==
  ASSUME NEW q, NEW Q, Enumerates(q, Q)
  PROVE  /\ q \in Seq(Sessions) /\ Len(q) \in Nat
         /\ \A i \in 1..Len(q) : q[i] \in Q
         /\ q = <<>> <=> Len(q) = 0
<1>1. q \in Seq(Sessions) /\ \A i \in 1..Len(q) : q[i] \in Q
  BY DEF Enumerates
<1> QED
  BY <1>1, LenProperties, EmptySeq

(* The sessions of a queue, and those of a part of it, are as many as it is *)
(* long.                                                                    *)
LEMMA PrefixCount ==
  ASSUME NEW q, NEW Q, Enumerates(q, Q), NEW n \in 0..Len(q)
  PROVE  LET first == {q[i] : i \in 1..n}
         IN  IsFiniteSet(first) /\ Cardinality(first) = n /\ first \subseteq Q
<1> DEFINE first == {q[i] : i \in 1..n}
           f == [i \in 1..n |-> q[i]]
<1>1. Len(q) \in Nat /\ n \in Nat /\ first \subseteq Q
  BY EnumeratesElements
<1>2. \A i, j \in 1..n : q[i] = q[j] => i = j
  BY <1>1 DEF Enumerates
<1>3. f \in Bijection(1..n, first)
  <2>1. f \in [1..n -> first]
    OBVIOUS
  <2>2. \A i, j \in 1..n : f[i] = f[j] => i = j
    BY <1>2
  <2>3. \A s \in first : \E i \in 1..n : f[i] = s
    OBVIOUS
  <2> HIDE DEF f, first
  <2>4. f \in Injection(1..n, first)
    BY <2>1, <2>2 DEF Injection, IsInjective
  <2>5. f \in Surjection(1..n, first)
    BY <2>1, <2>3 DEF Surjection
  <2> QED
    BY <2>4, <2>5 DEF Bijection
<1>4. IsFiniteSet(1..n) /\ Cardinality(1..n) = n
  BY <1>1, FS_Interval
<1>5. ExistsBijection(1..n, first)
  BY <1>3 DEF ExistsBijection
<1> HIDE DEF first
<1>6. IsFiniteSet(first) /\ Cardinality(first) = n
  BY <1>4, <1>5, FS_Bijection
<1> QED
  BY <1>1, <1>6 DEF first

LEMMA QueueCount ==
  ASSUME NEW q, NEW Q, Enumerates(q, Q)
  PROVE  IsFiniteSet(Q) /\ Cardinality(Q) = Len(q)
<1>1. Len(q) \in 0..Len(q)
  BY EnumeratesElements
<1>2. {q[i] : i \in 1..Len(q)} = Q
  BY DEF Enumerates
<1> QED
  BY <1>1, <1>2, PrefixCount

LEMMA AppendAdds ==
  ASSUME NEW Q \in SUBSET Sessions, NEW q, Enumerates(q, Q), NEW s \in Sessions \ Q
  PROVE  Enumerates(Append(q, s), Q \cup {s})
<1>1. q \in Seq(Sessions) /\ Len(q) \in Nat /\ \A i \in 1..Len(q) : q[i] \in Q
  BY EnumeratesElements
<1>2. /\ Append(q, s) \in Seq(Sessions) /\ Len(Append(q, s)) = Len(q) + 1
      /\ \A i \in 1..Len(q) : Append(q, s)[i] = q[i]
      /\ Append(q, s)[Len(q) + 1] = s
  BY <1>1, AppendProperties
<1>3. \A i \in 1..Len(Append(q, s)) : Append(q, s)[i] \in Q \cup {s}
  BY <1>1, <1>2
<1>4. ASSUME NEW i \in 1..Len(Append(q, s)), NEW j \in 1..Len(Append(q, s)),
             Append(q, s)[i] = Append(q, s)[j]
      PROVE  i = j
  <2>1. \A k \in 1..Len(q) : Append(q, s)[k] = q[k] /\ q[k] \in Q /\ q[k] # s
    BY <1>1, <1>2
  <2>2. CASE i \in 1..Len(q) /\ j \in 1..Len(q)
    BY <1>4, <2>1, <2>2 DEF Enumerates
  <2>3. CASE i = Len(q) + 1 /\ j \in 1..Len(q)
    BY <1>2, <1>4, <2>1, <2>3
  <2>4. CASE j = Len(q) + 1 /\ i \in 1..Len(q)
    BY <1>2, <1>4, <2>1, <2>4
  <2> QED
    BY <1>1, <1>2, <2>2, <2>3, <2>4
<1>5. ASSUME NEW t \in Q \cup {s} PROVE \E i \in 1..Len(Append(q, s)) : Append(q, s)[i] = t
  <2>1. CASE t = s
    BY <1>1, <1>2, <2>1
  <2>2. CASE t \in Q
    <3>1. PICK i \in 1..Len(q) : q[i] = t
      BY <2>2 DEF Enumerates
    <3>2. i \in 1..Len(Append(q, s)) /\ Append(q, s)[i] = t
      BY <1>1, <1>2, <3>1
    <3> QED
      BY <3>2
  <2> QED
    BY <2>1, <2>2
<1> QED
  BY <1>2, <1>3, <1>4, <1>5 DEF Enumerates

(* Taking the first n sessions off a queue.                                 *)
LEMMA SuffixEnumerates ==
  ASSUME NEW q, NEW Q, Enumerates(q, Q), NEW n \in 0..Len(q)
  PROVE  /\ Enumerates(SubSeq(q, n + 1, Len(q)), Q \ {q[i] : i \in 1..n})
         /\ Len(SubSeq(q, n + 1, Len(q))) = Len(q) - n
<1> DEFINE p == SubSeq(q, n + 1, Len(q))
<1>1. /\ q \in Seq(Sessions) /\ Len(q) \in Nat /\ n \in Nat
      /\ \A i \in 1..Len(q) : q[i] \in Q /\ q[i] \in Sessions
  BY EnumeratesElements, ElementOfSeq
<1>2. \A i, j \in 1..Len(q) : q[i] = q[j] => i = j
  BY DEF Enumerates
<1>3. n + 1 \in Int /\ Len(q) \in Int /\ \A i \in (n + 1)..Len(q) : q[i] \in Sessions
  BY <1>1
<1>4. /\ p \in Seq(Sessions)
      /\ Len(p) = IF n + 1 <= Len(q) THEN Len(q) - (n + 1) + 1 ELSE 0
      /\ \A i \in 1..(Len(q) - (n + 1) + 1) : p[i] = q[n + 1 + i - 1]
  BY <1>3, SubSeqProperties
<1> HIDE DEF p
<1>5. Len(p) = Len(q) - n /\ \A i \in 1..Len(p) : p[i] = q[n + i] /\ n + i \in 1..Len(q)
  <2>1. Len(p) = Len(q) - n
    BY <1>1, <1>4
  <2>2. ASSUME NEW i \in 1..Len(p) PROVE p[i] = q[n + i] /\ n + i \in 1..Len(q)
    <3>1. i \in 1..(Len(q) - (n + 1) + 1) /\ n + 1 + i - 1 = n + i /\ n + i \in 1..Len(q)
      BY <1>1, <2>1
    <3> QED
      BY <1>4, <3>1
  <2> QED
    BY <2>1, <2>2
<1>6. ASSUME NEW i \in 1..Len(p) PROVE p[i] \in Q \ {q[k] : k \in 1..n}
  <2>1. ASSUME NEW k \in 1..n PROVE q[k] # q[n + i]
    <3>1. k \in 1..Len(q) /\ k # n + i
      BY <1>1, <1>5
    <3> QED
      BY <1>2, <1>5, <3>1
  <2> QED
    BY <1>1, <1>5, <2>1
<1>7. ASSUME NEW i \in 1..Len(p), NEW j \in 1..Len(p), p[i] = p[j] PROVE i = j
  <2>1. n + i = n + j
    BY <1>2, <1>5, <1>7
  <2> QED
    BY <1>1, <1>5, <2>1
<1>8. ASSUME NEW s \in Q \ {q[k] : k \in 1..n} PROVE \E i \in 1..Len(p) : p[i] = s
  <2>1. PICK k \in 1..Len(q) : q[k] = s
    BY DEF Enumerates
  <2>2. k \notin 1..n
    BY <1>8, <2>1
  <2>3. k - n \in 1..Len(p) /\ p[k - n] = s
    BY <1>1, <1>5, <2>1, <2>2
  <2> QED
    BY <2>3
<1> QED
  BY <1>4, <1>5, <1>6, <1>7, <1>8 DEF Enumerates, p

(* Taking one session out of a queue.                                       *)
LEMMA WithoutEnumerates ==
  ASSUME NEW q, NEW Q, Enumerates(q, Q), NEW k \in 1..Len(q)
  PROVE  Enumerates(Without(q, k), Q \ {q[k]}) /\ q # <<>>
<1> DEFINE p == Without(q, k)
<1>1. /\ q \in Seq(Sessions) /\ Len(q) \in Nat
      /\ \A i \in 1..Len(q) : q[i] \in Q /\ q[i] \in Sessions
  BY EnumeratesElements, ElementOfSeq
<1>2. \A i, j \in 1..Len(q) : q[i] = q[j] => i = j
  BY DEF Enumerates
<1>3. p \in [1..(Len(q) - 1) -> Sessions] /\ Len(q) - 1 \in Nat
  BY <1>1 DEF Without
<1>4. p \in Seq(Sessions)
  BY <1>3, SeqDef
<1>5. Len(p) = Len(q) - 1
  BY <1>3, <1>4, LenProperties
<1>6. \A i \in 1..Len(p) : p[i] = IF i < k THEN q[i] ELSE q[i + 1]
  BY <1>5 DEF Without
<1> HIDE DEF p
<1> DEFINE from(i) == IF i < k THEN i ELSE i + 1
<1>7. \A i \in 1..Len(p) : from(i) \in 1..Len(q) /\ from(i) # k /\ p[i] = q[from(i)]
  BY <1>1, <1>5, <1>6
<1>7a. \A i, j \in 1..Len(p) : from(i) = from(j) => i = j
  BY <1>1, <1>5
<1> HIDE DEF from
<1>8. ASSUME NEW i \in 1..Len(p) PROVE p[i] \in Q \ {q[k]}
  BY <1>1, <1>2, <1>7
<1>9. ASSUME NEW i \in 1..Len(p), NEW j \in 1..Len(p), p[i] = p[j] PROVE i = j
  <2>1. from(i) = from(j)
    BY <1>2, <1>7, <1>9
  <2> QED
    BY <1>7a, <2>1
<1>10. ASSUME NEW s \in Q \ {q[k]} PROVE \E i \in 1..Len(p) : p[i] = s
  <2>1. PICK i \in 1..Len(q) : q[i] = s
    BY DEF Enumerates
  <2>2. i # k
    BY <1>10, <2>1
  <2>3. CASE i < k
    <3>1. i \in 1..Len(p) /\ p[i] = s
      BY <1>1, <1>5, <1>6, <2>1, <2>3
    <3> QED
      BY <3>1
  <2>4. CASE i > k
    <3>1. i - 1 \in 1..Len(p) /\ p[i - 1] = s
      BY <1>1, <1>5, <1>6, <2>1, <2>4
    <3> QED
      BY <3>1
  <2> QED
    BY <1>1, <2>2, <2>3, <2>4
<1>11. q # <<>>
  BY <1>1, EmptySeq
<1> QED
  BY <1>4, <1>8, <1>9, <1>10, <1>11 DEF Enumerates, p

-----------------------------------------------------------------------------
(* dispatch() fills the free slots from the head of the queue, and stops    *)
(* only when there is no slot or nobody left.                               *)
LEMMA DispatchKeepsSlots ==
  ASSUME NEW q, NEW act, NEW pcs \in [Sessions -> PCs],
         act = {s \in Sessions : pcs[s] \in Executing},
         Cardinality(act) <= MaxConcurrent,
         Enumerates(q, {s \in Sessions : pcs[s] = "queued"}),
         stored \in [Sessions -> Record], snap \in [Sessions -> Record],
         DispatchFrom(q, act, pcs)
  PROVE  /\ SlotInv'
         /\ snap' \in [Sessions -> Record]
         /\ \A s \in Sessions :
              \/ pc'[s] = pcs[s] /\ snap'[s] = snap[s]
              \/ pcs[s] = "queued" /\ pc'[s] = "loading" /\ snap'[s] = stored[s]
<1> DEFINE Q == {s \in Sessions : pcs[s] = "queued"}
           n == IF SlotsFree(act) < Len(q) THEN SlotsFree(act) ELSE Len(q)
           started == {q[i] : i \in 1..n}
<1>1. /\ queue' = SubSeq(q, n + 1, Len(q))
      /\ active' = act \cup started
      /\ pc' = [s \in Sessions |-> IF s \in started THEN "loading" ELSE pcs[s]]
      /\ snap' = [s \in Sessions |-> IF s \in started THEN stored[s] ELSE snap[s]]
  BY DEF DispatchFrom
<1>2. IsFiniteSet(act) /\ Cardinality(act) \in Nat
  <2>1. act \in SUBSET Sessions
    OBVIOUS
  <2> QED
    BY <2>1, BackgroundPlatformAssumption, FS_Subset, FS_CardinalityType
<1>3. Len(q) \in Nat /\ MaxConcurrent \in Nat
  BY EnumeratesElements, BackgroundPlatformAssumption
<1>4. SlotsFree(act) \in Nat /\ SlotsFree(act) = MaxConcurrent - Cardinality(act)
  BY <1>2, <1>3 DEF SlotsFree
<1>5. n \in 0..Len(q) /\ (n < Len(q) => n = SlotsFree(act)) /\ n <= SlotsFree(act)
  BY <1>3, <1>4
<1> HIDE DEF n
<1>6. IsFiniteSet(started) /\ Cardinality(started) = n /\ started \subseteq Q
  BY <1>5, PrefixCount
<1>7. Enumerates(queue', Q \ started) /\ Len(queue') = Len(q) - n
  BY <1>1, <1>5, SuffixEnumerates
<1> HIDE DEF started
<1>8. \A s \in started : s \in Sessions /\ pcs[s] = "queued"
  BY <1>6
<1>9. /\ \A s \in Sessions : pc'[s] = IF s \in started THEN "loading" ELSE pcs[s]
      /\ pc' \in [Sessions -> PCs] /\ snap' \in [Sessions -> Record]
  BY <1>1 DEF PCs, Executing
<1>10. active' = Running'
  BY <1>1, <1>8, <1>9 DEF Running, Executing
<1>11. Waiting' = Q \ started
  BY <1>8, <1>9 DEF Waiting
<1>12. Cardinality(active') = Cardinality(act) + n
  <2>1. act \cap started = {}
    BY <1>8 DEF Executing
  <2>2. Cardinality(act \cup started) = Cardinality(act) + Cardinality(started) - Cardinality(act \cap started)
    BY <1>2, <1>6, FS_Union
  <2>3. Cardinality(act \cap started) = 0
    BY <2>1, FS_EmptySet
  <2> QED
    BY <1>1, <1>2, <1>3, <1>5, <1>6, <2>2, <2>3
<1>13. Cardinality(active') <= MaxConcurrent
  BY <1>2, <1>3, <1>4, <1>5, <1>12
<1>14. NoIdleSlot'
  <2>1. queue' # <<>> => Len(queue') # 0
    BY <1>7, EnumeratesElements
  <2>2. queue' # <<>> => n = SlotsFree(act)
    BY <1>3, <1>5, <1>7, <2>1
  <2> QED
    BY <1>2, <1>3, <1>4, <1>12, <2>2 DEF NoIdleSlot
<1>15. SlotInv'
  BY <1>7, <1>9, <1>10, <1>11, <1>13, <1>14 DEF SlotInv
<1>16. \A s \in Sessions :
         \/ pc'[s] = pcs[s] /\ snap'[s] = snap[s]
         \/ pcs[s] = "queued" /\ pc'[s] = "loading" /\ snap'[s] = stored[s]
  BY <1>1, <1>8, <1>9
<1> QED
  BY <1>9, <1>15, <1>16

(* A step of one session that neither begins nor ends its turn.             *)
LEMMA StaysKeepsSlots ==
  ASSUME SlotInv, NEW s \in Sessions, NEW w \in PCs, pc' = [pc EXCEPT ![s] = w],
         pc[s] \in Executing <=> w \in Executing, pc[s] # "queued", w # "queued",
         UNCHANGED <<queue, active>>
  PROVE  SlotInv'
<1>1. pc' \in [Sessions -> PCs] /\ Running' = Running /\ Waiting' = Waiting
  BY DEF SlotInv, Running, Waiting
<1> QED
  BY <1>1 DEF SlotInv, NoIdleSlot

LEMMA SubmitQueuesKeepsSlots ==
  ASSUME TypeOK, SlotInv, NEW s \in Sessions, SubmitQueues(s)
  PROVE  /\ SlotInv' /\ snap' \in [Sessions -> Record]
         /\ \A t \in Sessions :
              LET was == IF t = s THEN "queued" ELSE pc[t]
              IN  \/ pc'[t] = was /\ snap'[t] = snap[t]
                  \/ was = "queued" /\ pc'[t] = "loading" /\ snap'[t] = stored[t]
<1> DEFINE pcs == [pc EXCEPT ![s] = "queued"]
<1>1. pc[s] = "creating" /\ DispatchFrom(Append(queue, s), active, pcs)
  BY DEF SubmitQueues
<1>2. pcs \in [Sessions -> PCs] /\ \A t \in Sessions : pcs[t] = IF t = s THEN "queued" ELSE pc[t]
  BY DEF SlotInv, PCs
<1> HIDE DEF pcs
<1>3. active = {t \in Sessions : pcs[t] \in Executing} /\ Cardinality(active) <= MaxConcurrent
  BY <1>1, <1>2 DEF SlotInv, Running, Executing
<1>4. Enumerates(Append(queue, s), {t \in Sessions : pcs[t] = "queued"})
  <2>1. Waiting \in SUBSET Sessions /\ s \in Sessions \ Waiting
    BY <1>1 DEF Waiting
  <2>2. Enumerates(Append(queue, s), Waiting \cup {s})
    BY <2>1, AppendAdds DEF SlotInv
  <2>3. {t \in Sessions : pcs[t] = "queued"} = Waiting \cup {s}
    BY <1>2 DEF Waiting
  <2> QED
    BY <2>2, <2>3
<1>5. stored \in [Sessions -> Record] /\ snap \in [Sessions -> Record]
  BY DEF TypeOK
<1> QED
  BY <1>1, <1>2, <1>3, <1>4, <1>5, DispatchKeepsSlots

LEMMA LeaveKeepsSlots ==
  ASSUME TypeOK, SlotInv, NEW s \in Sessions, pc[s] \in Executing,
         NEW how \in {"done", "rejected"}, Leave(s, how)
  PROVE  /\ SlotInv' /\ snap' \in [Sessions -> Record]
         /\ \A t \in Sessions :
              LET was == IF t = s THEN how ELSE pc[t]
              IN  \/ pc'[t] = was /\ snap'[t] = snap[t]
                  \/ was = "queued" /\ pc'[t] = "loading" /\ snap'[t] = stored[t]
<1> DEFINE pcs == [pc EXCEPT ![s] = how]
<1>1. DispatchFrom(queue, active \ {s}, pcs)
  BY DEF Leave
<1>2. pcs \in [Sessions -> PCs] /\ \A t \in Sessions : pcs[t] = IF t = s THEN how ELSE pc[t]
  BY DEF SlotInv, PCs
<1> HIDE DEF pcs
<1>3. active \ {s} = {t \in Sessions : pcs[t] \in Executing}
  BY <1>2 DEF SlotInv, Running, Executing
<1>4. Cardinality(active \ {s}) <= MaxConcurrent
  <2>1. active \in SUBSET Sessions
    BY DEF SlotInv, Running
  <2>2. IsFiniteSet(active)
    BY <2>1, BackgroundPlatformAssumption, FS_Subset
  <2>3. /\ Cardinality(active \ {s}) = IF s \in active THEN Cardinality(active) - 1 ELSE Cardinality(active)
        /\ Cardinality(active) \in Nat /\ MaxConcurrent \in Nat
    BY <2>2, FS_RemoveElement, FS_CardinalityType, BackgroundPlatformAssumption
  <2> QED
    BY <2>3 DEF SlotInv
<1>5. Enumerates(queue, {t \in Sessions : pcs[t] = "queued"})
  <2>1. {t \in Sessions : pcs[t] = "queued"} = Waiting
    BY <1>2 DEF Waiting, Executing
  <2> QED
    BY <2>1 DEF SlotInv
<1>6. stored \in [Sessions -> Record] /\ snap \in [Sessions -> Record]
  BY DEF TypeOK
<1> QED
  BY <1>1, <1>2, <1>3, <1>4, <1>5, <1>6, DispatchKeepsSlots

(* cancelSession takes a waiting session out of the queue.                  *)
LEMMA WithdrawKeepsSlots ==
  ASSUME SlotInv, NEW s \in Sessions, NEW k \in 1..Len(queue), queue[k] = s,
         queue' = Without(queue, k), pc' = [pc EXCEPT ![s] = "withdrawn"], UNCHANGED active
  PROVE  SlotInv' /\ pc[s] = "queued"
<1>1. pc[s] = "queued"
  BY DEF SlotInv, Enumerates, Waiting
<1>2. /\ pc' \in [Sessions -> PCs] /\ \A t \in Sessions : pc'[t] = IF t = s THEN "withdrawn" ELSE pc[t]
  BY DEF SlotInv, PCs
<1>3. Running' = Running /\ Waiting' = Waiting \ {s}
  BY <1>1, <1>2 DEF Running, Waiting, Executing
<1>4. Enumerates(queue', Waiting \ {s}) /\ queue # <<>>
  BY WithoutEnumerates DEF SlotInv
<1>5. NoIdleSlot'
  BY <1>4 DEF SlotInv, NoIdleSlot
<1> QED
  BY <1>1, <1>2, <1>3, <1>4, <1>5 DEF SlotInv

-----------------------------------------------------------------------------
(* Types apart from the slots.                                              *)
RestTyped ==
  /\ stored \in [Sessions -> Record] /\ snap \in [Sessions -> Record]
  /\ aborted \in [Sessions -> BOOLEAN]
  /\ outcome \in [Sessions -> {"none", "completed", "failed"}]
  /\ releasing \in [Sessions -> {"no", "finished", "failed"}]
  /\ live \in [Sessions -> SUBSET Resource]
  /\ cpc \in [Calls -> {"idle", "dequeued", "loaded", "deciding", "notifying", "done"}]
  /\ csnap \in [Calls -> Record]
  /\ wpc \in [Waiters -> {"idle", "reading", "waiting", "answered"}]

LEMMA TypesSplit == (SlotInv /\ RestTyped => TypeOK) /\ (TypeOK => RestTyped)
<1>1. TypeOK => RestTyped
  BY DEF TypeOK, RestTyped
<1>2. ASSUME SlotInv, RestTyped PROVE TypeOK
  BY <1>2 DEF SlotInv, RestTyped, TypeOK, Enumerates, Running, PCs
<1> QED
  BY <1>1, <1>2

LEMMA Targets == \A c \in Calls \cup Waiters : Target[c] \in Sessions
BY BackgroundPlatformAssumption DEF Calls

(* A step of session s leaves the other sessions alone, but for those that  *)
(* are dispatched.                                                          *)
Others(s) ==
  \A t \in Sessions \ {s} :
    /\ stored'[t] = stored[t] /\ releasing'[t] = releasing[t] /\ live'[t] = live[t]
    /\ \/ pc'[t] = pc[t] /\ snap'[t] = snap[t]
       \/ pc[t] = "queued" /\ pc'[t] = "loading" /\ snap'[t] = stored[t]

LEMMA SessionKeeps ==
  ASSUME PlatformInv, NEW s \in Sessions, SlotInv', RestTyped', Others(s), StageOf(s)', HeldOf(s)',
         cpc' = cpc, csnap' = csnap, pc[s] # "withdrawn",
         pc[s] \in {"saving", "done"} => pc'[s] \in {"saving", "done"} /\ live'[s] = live[s]
  PROVE  PlatformInv'
<1>1. ASSUME NEW t \in Sessions \ {s} PROVE StageOf(t)' /\ HeldOf(t)'
  <2>1. StageOf(t) /\ HeldOf(t)
    BY DEF PlatformInv, RecordInv
  <2>2. /\ stored'[t] = stored[t] /\ releasing'[t] = releasing[t] /\ live'[t] = live[t]
        /\ \/ pc'[t] = pc[t] /\ snap'[t] = snap[t]
           \/ pc[t] = "queued" /\ pc'[t] = "loading" /\ snap'[t] = stored[t]
    BY DEF Others
  <2> QED
    BY <2>1, <2>2 DEF StageOf, HeldOf, Pending
<1>2. ASSUME NEW c \in Calls PROVE CallSafe(c)'
  <2>1. CallSafe(c) /\ Target[c] \in Sessions
    BY Targets DEF PlatformInv, RecordInv
  <2>2. CASE Target[c] = s
    BY <2>1, <2>2 DEF CallSafe
  <2>3. CASE Target[c] # s
    BY <2>1, <2>3 DEF CallSafe, Others
  <2> QED
    BY <2>2, <2>3
<1>3. RecordInv'
  BY <1>1, <1>2 DEF RecordInv
<1>4. TypeOK'
  BY DEF SlotInv, RestTyped, TypeOK, Enumerates, Running, PCs
<1> QED
  BY <1>3, <1>4 DEF PlatformInv

(* submitTask *)
LEMMA SubmitKeeps ==
  ASSUME PlatformInv, NEW s \in Sessions, Submit(s)
  PROVE  PlatformInv'
<1>0. RestTyped /\ SlotInv /\ RecordInv /\ StageOf(s) /\ HeldOf(s) /\ pc[s] = "new"
  BY TypesSplit DEF PlatformInv, RecordInv, Submit, At
<1>1. CASE Len(queue) >= MaxQueued
  <2>1. pc' = [pc EXCEPT ![s] = "refused"] /\ UNCHANGED <<stored, queue, active, snap, outcome, releasing, aborted, live, callVars, wpc>>
    BY <1>1 DEF Submit, At
  <2>2. SlotInv' /\ RestTyped' /\ \A t \in Sessions : pc'[t] = IF t = s THEN "refused" ELSE pc[t]
    BY <1>0, <2>1, StaysKeepsSlots DEF PCs, Executing, RestTyped, callVars, SlotInv
  <2>3. Others(s)
    BY <2>1, <2>2 DEF Others
  <2>4. StageOf(s)' /\ HeldOf(s)'
    BY <1>0, <2>1, <2>2 DEF StageOf, HeldOf, NoRecord
  <2> QED
    BY <1>0, <2>1, <2>2, <2>3, <2>4, SessionKeeps DEF callVars
<1>2. CASE ~(Len(queue) >= MaxQueued)
  <2>1. /\ pc' = [pc EXCEPT ![s] = "creating"] /\ UNCHANGED <<queue, active, snap, outcome, releasing, aborted, live, callVars, wpc>>
        /\ stored' = [stored EXCEPT ![s] = [NoRecord EXCEPT !.status = "queued"]]
    BY <1>2 DEF Submit, At, Save
  <2>2. [NoRecord EXCEPT !.status = "queued"] \in Record
    BY DEF NoRecord, Record, Status
  <2>3. SlotInv' /\ RestTyped' /\ \A t \in Sessions : pc'[t] = IF t = s THEN "creating" ELSE pc[t]
    BY <1>0, <2>1, <2>2, StaysKeepsSlots DEF PCs, Executing, RestTyped, callVars, SlotInv
  <2>4. Others(s)
    BY <1>0, <2>1, <2>3 DEF Others, RestTyped
  <2>5. StageOf(s)' /\ HeldOf(s)'
    BY <1>0, <2>1, <2>3 DEF StageOf, HeldOf, NoRecord, RestTyped
  <2> QED
    BY <1>0, <2>1, <2>3, <2>4, <2>5, SessionKeeps DEF callVars
<1> QED
  BY <1>1, <1>2

LEMMA SubmitQueuesKeeps ==
  ASSUME PlatformInv, NEW s \in Sessions, SubmitQueues(s)
  PROVE  PlatformInv'
<1>0. TypeOK /\ RestTyped /\ SlotInv /\ RecordInv /\ StageOf(s) /\ HeldOf(s) /\ pc[s] = "creating"
  BY TypesSplit DEF PlatformInv, RecordInv, SubmitQueues
<1>1. /\ SlotInv' /\ snap' \in [Sessions -> Record]
      /\ \A t \in Sessions :
           LET was == IF t = s THEN "queued" ELSE pc[t]
           IN  \/ pc'[t] = was /\ snap'[t] = snap[t]
               \/ was = "queued" /\ pc'[t] = "loading" /\ snap'[t] = stored[t]
  BY <1>0, SubmitQueuesKeepsSlots
<1>2. UNCHANGED <<stored, outcome, releasing, aborted, live, callVars, wpc>>
  BY DEF SubmitQueues
<1>3. RestTyped'
  BY <1>0, <1>1, <1>2 DEF RestTyped, callVars
<1>4. Others(s)
  BY <1>1, <1>2 DEF Others
<1>5. StageOf(s)' /\ HeldOf(s)'
  BY <1>0, <1>1, <1>2 DEF StageOf, HeldOf
<1> QED
  BY <1>0, <1>1, <1>2, <1>3, <1>4, <1>5, SessionKeeps DEF callVars

-----------------------------------------------------------------------------
(* executeSession *)
LEMMA Parts ==
  ASSUME PlatformInv
  PROVE  TypeOK /\ RestTyped /\ SlotInv /\ \A s \in Sessions : StageOf(s) /\ HeldOf(s)
BY TypesSplit DEF PlatformInv, RecordInv

(* A step of executeSession on its way, from one phase to another.          *)
LEMMA PhaseKeeps ==
  ASSUME PlatformInv, NEW s \in Sessions, pc[s] \in Executing, NEW w \in Executing,
         pc' = [pc EXCEPT ![s] = w], UNCHANGED <<queue, active>>
  PROVE  SlotInv' /\ pc'[s] = w /\ \A t \in Sessions \ {s} : pc'[t] = pc[t]
<1>1. SlotInv'
  BY Parts, StaysKeepsSlots DEF PCs, Executing
<1> QED
  BY <1>1, Parts DEF SlotInv

LEMMA StartProvisioningKeeps ==
  ASSUME PlatformInv, NEW s \in Sessions, StartProvisioning(s)
  PROVE  PlatformInv'
<1>0. RestTyped /\ StageOf(s) /\ HeldOf(s) /\ pc[s] = "loading"
  BY Parts DEF StartProvisioning, At
<1>1. /\ pc' = [pc EXCEPT ![s] = "routing"] /\ snap' = [snap EXCEPT ![s].status = "provisioning"]
      /\ stored' = [stored EXCEPT ![s] = snap'[s]]
      /\ UNCHANGED <<queue, active, outcome, releasing, aborted, live, cpc, csnap, wpc>>
  BY DEF StartProvisioning, At, Save, callVars
<1>2. SlotInv' /\ pc'[s] = "routing" /\ \A t \in Sessions \ {s} : pc'[t] = pc[t]
  BY <1>0, <1>1, PhaseKeeps DEF Executing
<1>3. snap[s] \in Record /\ snap'[s] = [snap[s] EXCEPT !.status = "provisioning"] /\ snap'[s] \in Record
  <2>1. snap[s] \in Record /\ snap'[s] = [snap[s] EXCEPT !.status = "provisioning"]
    BY <1>0, <1>1 DEF RestTyped
  <2>2. snap'[s] \in Record
    BY <2>1 DEF Record, Status
  <2> QED
    BY <2>1, <2>2
<1>4. RestTyped' /\ Others(s)
  BY <1>0, <1>1, <1>2, <1>3 DEF RestTyped, Others
<1>5. stored'[s] = snap'[s] /\ stored'[s].status = "provisioning" /\ snap'[s].freed = {} /\ live'[s] = {}
  BY <1>0, <1>1, <1>3 DEF RestTyped, Record, StageOf, HeldOf
<1>6. StageOf(s)' /\ HeldOf(s)'
  BY <1>2, <1>5 DEF StageOf, HeldOf
<1> QED
  BY <1>0, <1>1, <1>2, <1>4, <1>6, SessionKeeps

LEMMA RoutedKeeps ==
  ASSUME PlatformInv, NEW s \in Sessions, Routed(s)
  PROVE  PlatformInv'
<1>0. RestTyped /\ StageOf(s) /\ HeldOf(s) /\ pc[s] = "routing"
  BY Parts DEF Routed, At
<1>1. /\ pc' = [pc EXCEPT ![s] = "environment"]
      /\ UNCHANGED <<stored, snap, queue, active, outcome, releasing, aborted, live, cpc, csnap, wpc>>
  BY DEF Routed, At, callVars
<1>2. SlotInv' /\ pc'[s] = "environment" /\ \A t \in Sessions \ {s} : pc'[t] = pc[t]
  BY <1>0, <1>1, PhaseKeeps DEF Executing
<1>3. RestTyped' /\ Others(s)
  BY <1>0, <1>1, <1>2 DEF RestTyped, Others
<1>4. StageOf(s)' /\ HeldOf(s)'
  BY <1>0, <1>1, <1>2 DEF StageOf, HeldOf
<1> QED
  BY <1>0, <1>1, <1>2, <1>3, <1>4, SessionKeeps

LEMMA ObtainedKeeps ==
  ASSUME PlatformInv, NEW s \in Sessions, NEW r \in Resource, Obtained(s, r)
  PROVE  PlatformInv'
<1>0. RestTyped /\ StageOf(s) /\ HeldOf(s) /\ pc[s] = r /\ snap[s] \in Record /\ live[s] \in SUBSET Resource
  BY Parts DEF Obtained, RestTyped
<1>1. /\ live' = [live EXCEPT ![s] = @ \cup {r}]
      /\ UNCHANGED <<queue, active, outcome, releasing, aborted, cpc, csnap, wpc>>
  BY DEF Obtained, callVars
<1>2. live'[s] = live[s] \cup {r} /\ live' \in [Sessions -> SUBSET Resource]
  BY <1>0, <1>1 DEF RestTyped
<1>3. CASE r = "grant"
  <2>1. /\ snap' = [snap EXCEPT ![s].held = @ \cup {r}, ![s].status = "running"]
        /\ stored' = [stored EXCEPT ![s] = snap'[s]] /\ pc' = [pc EXCEPT ![s] = "running"]
    BY <1>3 DEF Obtained, Save
  <2>2. SlotInv' /\ pc'[s] = "running" /\ \A t \in Sessions \ {s} : pc'[t] = pc[t]
    BY <1>0, <1>1, <1>3, <2>1, PhaseKeeps DEF Executing
  <2>3. /\ snap'[s] = [snap[s] EXCEPT !.held = @ \cup {r}, !.status = "running"]
        /\ snap'[s] \in Record /\ stored'[s] = snap'[s]
    BY <1>0, <2>1 DEF RestTyped, Record, Status
  <2>4. RestTyped' /\ Others(s)
    BY <1>0, <1>1, <1>2, <2>1, <2>2, <2>3 DEF RestTyped, Others
  <2>5. stored'[s].status = "running" /\ stored'[s].freed = {} /\ live'[s] \subseteq stored'[s].held
    BY <1>0, <1>2, <1>3, <2>3 DEF HeldOf, Record
  <2>6. StageOf(s)' /\ HeldOf(s)'
    BY <2>2, <2>5 DEF StageOf, HeldOf
  <2> QED
    BY <1>0, <1>1, <1>3, <2>2, <2>4, <2>6, SessionKeeps
<1>4. CASE r # "grant"
  <2>0. PICK w \in {"identity", "grant"} : pc' = [pc EXCEPT ![s] = w]
    BY <1>4 DEF Obtained
  <2>1. snap' = [snap EXCEPT ![s].held = @ \cup {r}] /\ UNCHANGED stored
    BY <1>4 DEF Obtained
  <2>2. SlotInv' /\ pc'[s] = w /\ \A t \in Sessions \ {s} : pc'[t] = pc[t]
    BY <1>0, <1>1, <1>4, <2>0, PhaseKeeps DEF Executing, Resource
  <2>3. snap'[s] = [snap[s] EXCEPT !.held = @ \cup {r}] /\ snap'[s] \in Record
    BY <1>0, <2>1 DEF RestTyped, Record, Status
  <2>4. RestTyped' /\ Others(s)
    BY <1>0, <1>1, <1>2, <2>1, <2>2, <2>3 DEF RestTyped, Others
  <2>5. stored'[s].status = "provisioning" /\ snap'[s].freed = {} /\ live'[s] \subseteq snap'[s].held
    BY <1>0, <1>2, <1>4, <2>1, <2>3 DEF StageOf, HeldOf, Record, Resource
  <2>6. StageOf(s)' /\ HeldOf(s)'
    BY <2>2, <2>5 DEF StageOf, HeldOf
  <2> QED
    BY <1>0, <1>1, <1>4, <2>2, <2>4, <2>6, SessionKeeps DEF Resource
<1> QED
  BY <1>3, <1>4

(* The catch clause works from the stored record, which names every         *)
(* resource only once the session was saved as running: what was provided   *)
(* before that stays with the provider, and the session does not complete.  *)
LEMMA CatchKeeps ==
  ASSUME PlatformInv, NEW s \in Sessions, pc[s] \in Executing \ {"loading", "saving"}, Catch(s),
         UNCHANGED <<stored, aborted, live, callVars, wpc>>
  PROVE  PlatformInv'
<1>0. RestTyped /\ StageOf(s) /\ HeldOf(s)
  BY Parts
<1>1. /\ pc' = [pc EXCEPT ![s] = "releasing"] /\ snap' = [snap EXCEPT ![s] = stored[s]]
      /\ releasing' = [releasing EXCEPT ![s] = "failed"]
      /\ UNCHANGED <<queue, active, outcome, stored, aborted, live, cpc, csnap, wpc>>
  BY DEF Catch, callVars
<1>2. SlotInv' /\ pc'[s] = "releasing" /\ \A t \in Sessions \ {s} : pc'[t] = pc[t]
  BY <1>1, PhaseKeeps DEF Executing
<1>3. RestTyped' /\ Others(s)
  BY <1>0, <1>1, <1>2 DEF RestTyped, Others
<1>4. releasing'[s] = "failed"
  BY <1>0, <1>1 DEF RestTyped
<1>5. stored'[s].status \in {"provisioning", "running"}
  BY <1>0, <1>1 DEF StageOf, Executing
<1>6. StageOf(s)' /\ HeldOf(s)'
  BY <1>2, <1>4, <1>5 DEF StageOf, HeldOf
<1> QED
  BY <1>1, <1>2, <1>3, <1>6, SessionKeeps DEF Executing

LEMMA RunnerReturnsKeeps ==
  ASSUME PlatformInv, NEW s \in Sessions, NEW o \in {"completed", "failed"}, RunnerReturns(s, o)
  PROVE  PlatformInv'
<1>0. /\ RestTyped /\ StageOf(s) /\ HeldOf(s) /\ pc[s] = "running"
      /\ UNCHANGED <<stored, aborted, live, callVars, wpc>>
  BY Parts DEF RunnerReturns
<1>1. CASE aborted[s]
  BY <1>0, <1>1, CatchKeeps DEF RunnerReturns, Executing
<1>2. CASE ~aborted[s]
  <2>1. /\ pc' = [pc EXCEPT ![s] = "publishing"] /\ snap' = [snap EXCEPT ![s] = stored[s]]
        /\ outcome' = [outcome EXCEPT ![s] = o]
        /\ UNCHANGED <<queue, active, releasing, stored, aborted, live, cpc, csnap, wpc>>
    BY <1>2 DEF RunnerReturns, callVars
  <2>2. SlotInv' /\ pc'[s] = "publishing" /\ \A t \in Sessions \ {s} : pc'[t] = pc[t]
    BY <1>0, <2>1, PhaseKeeps DEF Executing
  <2>3. RestTyped' /\ Others(s) /\ snap'[s] = stored[s]
    BY <1>0, <2>1, <2>2 DEF RestTyped, Others
  <2>4. StageOf(s)' /\ HeldOf(s)'
    BY <1>0, <2>1, <2>2, <2>3 DEF StageOf, HeldOf, Pending
  <2> QED
    BY <1>0, <2>1, <2>2, <2>3, <2>4, SessionKeeps
<1> QED
  BY <1>1, <1>2

LEMMA PublishedKeeps ==
  ASSUME PlatformInv, NEW s \in Sessions, Published(s)
  PROVE  PlatformInv'
<1>0. RestTyped /\ StageOf(s) /\ HeldOf(s) /\ pc[s] = "publishing"
  BY Parts DEF Published, At
<1>1. /\ pc' = [pc EXCEPT ![s] = "releasing"] /\ releasing' = [releasing EXCEPT ![s] = "finished"]
      /\ UNCHANGED <<queue, active, snap, outcome, stored, aborted, live, cpc, csnap, wpc>>
  BY DEF Published, At, callVars
<1>2. SlotInv' /\ pc'[s] = "releasing" /\ \A t \in Sessions \ {s} : pc'[t] = pc[t]
  BY <1>0, <1>1, PhaseKeeps DEF Executing
<1>3. RestTyped' /\ Others(s)
  BY <1>0, <1>1, <1>2 DEF RestTyped, Others
<1>4. StageOf(s)' /\ HeldOf(s)'
  BY <1>0, <1>1, <1>2 DEF StageOf, HeldOf, Pending
<1> QED
  BY <1>0, <1>1, <1>2, <1>3, <1>4, SessionKeeps

LEMMA StepFailsKeeps ==
  ASSUME PlatformInv, NEW s \in Sessions, StepFails(s)
  PROVE  PlatformInv'
BY CatchKeeps DEF StepFails, Executing

LEMMA ReleasedKeeps ==
  ASSUME PlatformInv, NEW s \in Sessions, Released(s)
  PROVE  PlatformInv'
<1>0. RestTyped /\ SlotInv /\ StageOf(s) /\ HeldOf(s) /\ pc[s] = "releasing" /\ snap[s] \in Record
  BY Parts DEF Released, RestTyped
<1> DEFINE r == NextToRelease(s)
<1>1. /\ live' = [live EXCEPT ![s] = @ \ {r}] /\ snap' = [snap EXCEPT ![s].freed = @ \cup {r}]
      /\ UNCHANGED <<queue, active, pc, outcome, releasing, stored, aborted, cpc, csnap, wpc>>
  BY DEF Released, callVars
<1>2. r \in Resource
  BY DEF NextToRelease, Resource
<1> HIDE DEF r
<1>3. SlotInv'
  BY <1>0, <1>1 DEF SlotInv, Enumerates, Running, Waiting, NoIdleSlot
<1>4. snap'[s] = [snap[s] EXCEPT !.freed = @ \cup {r}] /\ live'[s] = live[s] \ {r}
  BY <1>0, <1>1 DEF RestTyped
<1>5. snap'[s] \in Record /\ snap'[s].held = snap[s].held /\ snap'[s].freed = snap[s].freed \cup {r}
  BY <1>0, <1>2, <1>4 DEF Record
<1>6. RestTyped' /\ Others(s)
  BY <1>0, <1>1, <1>5 DEF RestTyped, Others
<1>7. StageOf(s)' /\ HeldOf(s)'
  BY <1>0, <1>1, <1>4, <1>5 DEF StageOf, HeldOf, Pending
<1> QED
  BY <1>0, <1>1, <1>3, <1>6, <1>7, SessionKeeps

(* executeSession ends; whoever waits in the queue takes the slot.          *)
LEMMA LeaveKeeps ==
  ASSUME PlatformInv, NEW s \in Sessions, NEW how \in {"done", "rejected"}, Leave(s, how),
         \/ how = "done" /\ pc[s] = "saving"
         \/ how = "rejected" /\ pc[s] = "releasing",
         UNCHANGED <<stored, outcome, releasing, aborted, live, callVars>>,
         wpc' \in [Waiters -> {"idle", "reading", "waiting", "answered"}]
  PROVE  PlatformInv'
<1>0. TypeOK /\ RestTyped /\ SlotInv /\ StageOf(s) /\ HeldOf(s)
  BY Parts
<1>1. /\ SlotInv' /\ snap' \in [Sessions -> Record]
      /\ \A t \in Sessions :
           LET was == IF t = s THEN how ELSE pc[t]
           IN  \/ pc'[t] = was /\ snap'[t] = snap[t]
               \/ was = "queued" /\ pc'[t] = "loading" /\ snap'[t] = stored[t]
  BY <1>0, LeaveKeepsSlots DEF Executing
<1>2. RestTyped'
  BY <1>0, <1>1 DEF RestTyped, callVars
<1>3. Others(s) /\ pc'[s] = how
  BY <1>1 DEF Others
<1>4. StageOf(s)' /\ HeldOf(s)'
  BY <1>0, <1>3 DEF StageOf, HeldOf
<1> QED
  BY <1>1, <1>2, <1>3, <1>4, SessionKeeps DEF callVars

LEMMA ReleaseFailsKeeps ==
  ASSUME PlatformInv, NEW s \in Sessions, ReleaseFails(s)
  PROVE  PlatformInv'
<1>0. pc[s] = "releasing" /\ UNCHANGED <<stored, aborted, live, callVars, wpc>>
  BY DEF ReleaseFails
<1>1. CASE Catch(s)
  BY <1>0, <1>1, CatchKeeps DEF Executing
<1>2. CASE Leave(s, "rejected") /\ UNCHANGED <<outcome, releasing>>
  BY <1>0, <1>2, LeaveKeeps, Parts DEF RestTyped
<1> QED
  BY <1>1, <1>2 DEF ReleaseFails

LEMMA NotifyTyped ==
  ASSUME PlatformInv, NEW s, NEW status, NotifyAbout(s, status)
  PROVE  wpc' \in [Waiters -> {"idle", "reading", "waiting", "answered"}]
BY Parts DEF RestTyped, NotifyAbout

LEMMA FinishKeeps ==
  ASSUME PlatformInv, NEW s \in Sessions, Finish(s)
  PROVE  PlatformInv'
BY LeaveKeeps, NotifyTyped DEF Finish

(* The last save: nothing is held where the status says that all went well. *)
LEMMA SaveAsKeeps ==
  ASSUME PlatformInv, NEW s \in Sessions, pc[s] \in Executing \ {"saving"},
         NEW status \in Terminal \cup {"awaiting_review"}, SaveAs(s, status),
         status \in {"completed", "awaiting_review"} => live[s] = {},
         UNCHANGED <<aborted, live, callVars, wpc>>
  PROVE  PlatformInv'
<1>0. RestTyped /\ snap[s] \in Record
  BY Parts DEF RestTyped
<1>1. /\ snap' = [snap EXCEPT ![s].status = status] /\ stored' = [stored EXCEPT ![s] = snap'[s]]
      /\ pc' = [pc EXCEPT ![s] = "saving"]
      /\ UNCHANGED <<queue, active, outcome, releasing, aborted, live, cpc, csnap, wpc>>
  BY DEF SaveAs, Save, callVars
<1>2. SlotInv' /\ pc'[s] = "saving" /\ \A t \in Sessions \ {s} : pc'[t] = pc[t]
  BY <1>1, PhaseKeeps DEF Executing
<1>3. snap'[s] = [snap[s] EXCEPT !.status = status]
  BY <1>0, <1>1 DEF RestTyped
<1>4. snap'[s] \in Record /\ snap'[s].status = status
  BY <1>0, <1>3 DEF Record, Status, Terminal
<1>5. RestTyped' /\ Others(s) /\ stored'[s].status = status
  BY <1>0, <1>1, <1>2, <1>4 DEF RestTyped, Others
<1>6. StageOf(s)' /\ HeldOf(s)'
  BY <1>1, <1>2, <1>5 DEF StageOf, HeldOf, IsSettled
<1> QED
  BY <1>1, <1>2, <1>5, <1>6, SessionKeeps DEF Executing

LEMMA ConcludeKeeps ==
  ASSUME PlatformInv, NEW s \in Sessions, Conclude(s)
  PROVE  PlatformInv'
<1>0. /\ RestTyped /\ StageOf(s) /\ HeldOf(s) /\ pc[s] = "releasing" /\ Pending(s) = {}
      /\ UNCHANGED <<aborted, live, callVars, wpc>>
  BY Parts DEF Conclude
<1>1. releasing[s] = "finished" => live[s] = {}
  BY <1>0 DEF HeldOf
<1>2. CASE releasing[s] = "failed" /\ SaveAs(s, FailureStatus(s))
  BY <1>0, <1>2, SaveAsKeeps DEF FailureStatus, Terminal, Executing
<1>3. CASE releasing[s] = "finished" /\ SaveAs(s, "failed")
  BY <1>0, <1>3, SaveAsKeeps DEF Terminal, Executing
<1>4. CASE releasing[s] = "finished" /\ SaveAs(s, "completed")
  BY <1>0, <1>1, <1>4, SaveAsKeeps DEF Terminal, Executing
<1>5. CASE /\ releasing[s] = "finished" /\ outcome[s] = "completed"
           /\ pc' = [pc EXCEPT ![s] = "review"]
           /\ UNCHANGED <<queue, active, snap, outcome, releasing, stored>>
  <2>1. UNCHANGED <<queue, active, snap, outcome, releasing, stored, aborted, live, cpc, csnap, wpc>>
    BY <1>0, <1>5 DEF callVars
  <2>2. SlotInv' /\ pc'[s] = "review" /\ \A t \in Sessions \ {s} : pc'[t] = pc[t]
    BY <1>0, <1>5, PhaseKeeps DEF Executing
  <2>3. RestTyped' /\ Others(s)
    BY <1>0, <2>1, <2>2 DEF RestTyped, Others
  <2>4. stored[s].status = "running"
    BY <1>0, <1>5 DEF StageOf
  <2>5. StageOf(s)' /\ HeldOf(s)'
    BY <1>0, <1>1, <1>5, <2>1, <2>2, <2>4 DEF StageOf, HeldOf
  <2> QED
    BY <1>0, <2>1, <2>2, <2>3, <2>5, SessionKeeps
<1> QED
  BY <1>2, <1>3, <1>4, <1>5 DEF Conclude

LEMMA ReviewRequestedKeeps ==
  ASSUME PlatformInv, NEW s \in Sessions, NEW status \in Status, ReviewRequested(s, status)
  PROVE  PlatformInv'
<1>1. HeldOf(s)
  BY Parts
<1> QED
  BY <1>1, SaveAsKeeps DEF ReviewRequested, HeldOf, Terminal, Executing

LEMMA TimerFiresKeeps ==
  ASSUME PlatformInv, NEW s \in Sessions, TimerFires(s)
  PROVE  PlatformInv'
<1>0. RestTyped /\ SlotInv /\ StageOf(s) /\ HeldOf(s) /\ pc[s] # "withdrawn"
  BY Parts DEF TimerFires, Executing
<1>1. /\ UNCHANGED <<queue, active, pc, snap, outcome, releasing, stored, live, cpc, csnap, wpc>>
      /\ aborted' = [aborted EXCEPT ![s] = TRUE]
  BY DEF TimerFires, execVars, callVars
<1>2. SlotInv'
  BY <1>0, <1>1 DEF SlotInv, Enumerates, Running, Waiting, NoIdleSlot
<1>3. RestTyped' /\ Others(s)
  BY <1>0, <1>1 DEF RestTyped, Others
<1>4. StageOf(s)' /\ HeldOf(s)'
  BY <1>0, <1>1 DEF StageOf, HeldOf, Pending
<1> QED
  BY <1>0, <1>1, <1>2, <1>3, <1>4, SessionKeeps

-----------------------------------------------------------------------------
(* cancelSession and submitReview: only the call's own progress and copy,   *)
(* the stored record and the waiters change.                                *)
CallOnly(c) ==
  /\ UNCHANGED <<queue, active, pc, snap, outcome, releasing, live>>
  /\ \A t \in Sessions \ {Target[c]} : stored'[t] = stored[t]
  /\ \A d \in Calls \ {c} : cpc'[d] = cpc[d] /\ csnap'[d] = csnap[d]

LEMMA CallKeeps ==
  ASSUME PlatformInv, NEW c \in Calls, CallOnly(c), RestTyped',
         StageOf(Target[c])', HeldOf(Target[c])', CallSafe(c)'
  PROVE  PlatformInv'
<1>1. SlotInv'
  BY Parts DEF SlotInv, Enumerates, Running, Waiting, NoIdleSlot, CallOnly
<1>2. ASSUME NEW t \in Sessions \ {Target[c]} PROVE StageOf(t)' /\ HeldOf(t)'
  <2>1. StageOf(t) /\ HeldOf(t) /\ stored'[t] = stored[t] /\ UNCHANGED <<pc, snap, releasing, live>>
    BY Parts DEF CallOnly
  <2> QED
    BY <2>1 DEF StageOf, HeldOf, Pending
<1>3. ASSUME NEW d \in Calls \ {c} PROVE CallSafe(d)'
  <2>1. CallSafe(d) /\ UNCHANGED <<pc, live>> /\ cpc'[d] = cpc[d] /\ csnap'[d] = csnap[d]
    BY DEF PlatformInv, RecordInv, CallOnly
  <2> QED
    BY <2>1 DEF CallSafe
<1>4. RecordInv'
  BY <1>2, <1>3, Targets DEF RecordInv
<1>5. TypeOK'
  BY <1>1 DEF SlotInv, RestTyped, TypeOK, Enumerates, Running, PCs
<1> QED
  BY <1>1, <1>4, <1>5 DEF PlatformInv

(* A call that writes back its copy where nothing is held any more.         *)
LEMMA CallSavesKeeps ==
  ASSUME PlatformInv, NEW c \in Calls, NEW status \in {"completed", "failed", "cancelled", "awaiting_review"},
         CallSaves(c, status),
         \/ pc[Target[c]] = "withdrawn" /\ status = "cancelled"
         \/ pc[Target[c]] \in {"saving", "done"} /\ (status = "cancelled" \/ live[Target[c]] = {})
  PROVE  PlatformInv'
<1> DEFINE s == Target[c]
<1>0. RestTyped /\ s \in Sessions /\ StageOf(s) /\ HeldOf(s) /\ csnap[c] \in Record
  BY Parts, Targets DEF RestTyped
<1>1. /\ csnap' = [csnap EXCEPT ![c].status = status] /\ stored' = [stored EXCEPT ![s] = csnap'[c]]
      /\ cpc' = [cpc EXCEPT ![c] = "notifying"]
      /\ UNCHANGED <<queue, active, pc, snap, outcome, releasing, aborted, live, wpc>>
  BY DEF CallSaves, Save, execVars
<1>2. csnap'[c] = [csnap[c] EXCEPT !.status = status]
  BY <1>0, <1>1 DEF RestTyped
<1>3. csnap'[c] \in Record /\ csnap'[c].status = status
  BY <1>0, <1>2 DEF Record, Status, Terminal
<1>4. RestTyped' /\ CallOnly(c) /\ stored'[s].status = status /\ cpc'[c] = "notifying"
  BY <1>0, <1>1, <1>3 DEF RestTyped, CallOnly
<1>5. StageOf(s)' /\ HeldOf(s)'
  BY <1>0, <1>1, <1>4 DEF StageOf, HeldOf, Pending, IsSettled, Terminal
<1>6. CallSafe(c)'
  BY <1>4 DEF CallSafe
<1> QED
  BY <1>4, <1>5, <1>6, CallKeeps

(* A call that leaves the sessions alone.                                   *)
LEMMA CallMovesKeeps ==
  ASSUME PlatformInv, NEW c \in Calls, RestTyped',
         UNCHANGED <<queue, active, pc, snap, outcome, releasing, live, stored>>,
         \A d \in Calls \ {c} : cpc'[d] = cpc[d] /\ csnap'[d] = csnap[d],
         CallSafe(c)'
  PROVE  PlatformInv'
<1>1. StageOf(Target[c])' /\ HeldOf(Target[c])'
  <2>1. StageOf(Target[c]) /\ HeldOf(Target[c])
    BY Parts, Targets
  <2> QED
    BY <2>1 DEF StageOf, HeldOf, Pending
<1>2. CallOnly(c)
  BY DEF CallOnly
<1> QED
  BY <1>1, <1>2, CallKeeps

LEMMA CallReturnsKeeps ==
  ASSUME PlatformInv, NEW c \in Calls, cpc' = [cpc EXCEPT ![c] = "done"],
         UNCHANGED <<execVars, stored, aborted, live, csnap>>,
         wpc' \in [Waiters -> {"idle", "reading", "waiting", "answered"}]
  PROVE  PlatformInv'
<1>1. RestTyped /\ UNCHANGED <<queue, active, pc, snap, outcome, releasing, live, stored, aborted, csnap>>
  BY Parts DEF execVars
<1>2. RestTyped' /\ cpc'[c] = "done" /\ \A d \in Calls \ {c} : cpc'[d] = cpc[d]
  BY <1>1 DEF RestTyped
<1>3. CallSafe(c)'
  BY <1>2 DEF CallSafe
<1> QED
  BY <1>1, <1>2, <1>3, CallMovesKeeps

LEMMA CancelStartsKeeps ==
  ASSUME PlatformInv, NEW c \in Cancels, CancelStarts(c)
  PROVE  PlatformInv'
<1> DEFINE s == Target[c]
<1>0. /\ RestTyped /\ SlotInv /\ s \in Sessions /\ c \in Calls /\ StageOf(s) /\ HeldOf(s)
      /\ \A d \in Calls : CallSafe(d) /\ Target[d] \in Sessions
  BY Parts, Targets DEF Calls, PlatformInv, RecordInv
<1>1. /\ cpc[c] = "idle" /\ csnap' = [csnap EXCEPT ![c] = stored[s]]
      /\ aborted' = [aborted EXCEPT ![s] = @ \/ s \in active]
      /\ UNCHANGED <<active, snap, outcome, releasing, stored, live, wpc>>
  BY DEF CancelStarts
<1>2. aborted' \in [Sessions -> BOOLEAN] /\ csnap' \in [Calls -> Record]
  BY <1>0, <1>1 DEF RestTyped
<1>3. CASE \E k \in 1..Len(queue) :
             /\ queue[k] = s /\ queue' = Without(queue, k)
             /\ pc' = [pc EXCEPT ![s] = "withdrawn"] /\ cpc' = [cpc EXCEPT ![c] = "dequeued"]
  <2>1. PICK k \in 1..Len(queue) :
             /\ queue[k] = s /\ queue' = Without(queue, k)
             /\ pc' = [pc EXCEPT ![s] = "withdrawn"] /\ cpc' = [cpc EXCEPT ![c] = "dequeued"]
    BY <1>3
  <2>2. SlotInv' /\ pc[s] = "queued"
    BY <1>0, <1>1, <2>1, WithdrawKeepsSlots
  <2>3. pc'[s] = "withdrawn" /\ \A t \in Sessions \ {s} : pc'[t] = pc[t]
    BY <1>0, <2>1 DEF SlotInv
  <2>4. cpc'[c] = "dequeued" /\ \A d \in Calls \ {c} : cpc'[d] = cpc[d] /\ csnap'[d] = csnap[d]
    BY <1>0, <1>1, <2>1 DEF RestTyped
  <2>5. RestTyped'
    BY <1>0, <1>1, <1>2, <2>1 DEF RestTyped
  <2>6. ASSUME NEW t \in Sessions PROVE StageOf(t)' /\ HeldOf(t)'
    <3>1. StageOf(t) /\ HeldOf(t)
      BY Parts
    <3>2. CASE t = s
      BY <1>1, <2>2, <2>3, <3>1, <3>2 DEF StageOf, HeldOf
    <3>3. CASE t # s
      BY <1>1, <2>3, <3>1, <3>3 DEF StageOf, HeldOf, Pending
    <3> QED
      BY <3>2, <3>3
  <2>7. ASSUME NEW d \in Calls PROVE CallSafe(d)'
    <3>1. CASE d = c
      BY <2>3, <2>4, <3>1 DEF CallSafe
    <3>2. CASE d # c
      BY <1>0, <1>1, <2>2, <2>3, <2>4, <3>2 DEF CallSafe
    <3> QED
      BY <3>1, <3>2
  <2>8. TypeOK' /\ RecordInv'
    BY <2>2, <2>5, <2>6, <2>7 DEF SlotInv, RestTyped, TypeOK, Enumerates, Running, PCs, RecordInv
  <2> QED
    BY <2>2, <2>8 DEF PlatformInv
<1>4. CASE cpc' = [cpc EXCEPT ![c] = "loaded"] /\ UNCHANGED <<queue, pc>>
  <2>1. RestTyped'
    BY <1>0, <1>1, <1>2, <1>4 DEF RestTyped
  <2>2. /\ cpc'[c] = "loaded" /\ csnap'[c] = stored[s]
        /\ \A d \in Calls \ {c} : cpc'[d] = cpc[d] /\ csnap'[d] = csnap[d]
    BY <1>0, <1>1, <1>4 DEF RestTyped
  <2>3. CallSafe(c)'
    BY <1>0, <1>4, <2>2 DEF CallSafe, StageOf, NoRecord, SlotInv, PCs, Executing
  <2> QED
    BY <1>0, <1>1, <1>4, <2>1, <2>2, <2>3, CallMovesKeeps
<1> QED
  BY <1>3, <1>4 DEF CancelStarts

LEMMA ReviewStartsKeeps ==
  ASSUME PlatformInv, NEW c \in Reviews, ReviewStarts(c)
  PROVE  PlatformInv'
<1> DEFINE s == Target[c]
<1>0. RestTyped /\ SlotInv /\ s \in Sessions /\ c \in Calls /\ StageOf(s) /\ HeldOf(s)
  BY Parts, Targets DEF Calls
<1>1. /\ csnap' = [csnap EXCEPT ![c] = stored[s]]
      /\ UNCHANGED <<queue, active, pc, snap, outcome, releasing, live, stored, aborted, wpc>>
  BY DEF ReviewStarts, execVars
<1>2. PICK w \in {"deciding", "done"} :
           cpc' = [cpc EXCEPT ![c] = w] /\ (w = "deciding" => stored[s].status = "awaiting_review")
  BY DEF ReviewStarts
<1>3. RestTyped' /\ cpc'[c] = w /\ \A d \in Calls \ {c} : cpc'[d] = cpc[d] /\ csnap'[d] = csnap[d]
  BY <1>0, <1>1, <1>2 DEF RestTyped
<1>4. w = "deciding" => pc[s] \in {"saving", "done"} /\ live[s] = {}
  BY <1>0, <1>2 DEF StageOf, HeldOf, NoRecord, SlotInv, PCs, Executing
<1>5. CallSafe(c)'
  BY <1>1, <1>3, <1>4 DEF CallSafe
<1> QED
  BY <1>0, <1>1, <1>3, <1>5, CallMovesKeeps

LEMMA CallStepKeeps ==
  ASSUME PlatformInv, NEW c \in Calls, CallStep(c)
  PROVE  PlatformInv'
<1>0. CallSafe(c) /\ RestTyped
  BY Parts DEF PlatformInv, RecordInv
<1>1. CASE CancelWithdrawn(c)
  BY <1>0, <1>1, CallSavesKeeps DEF CancelWithdrawn, CallSafe
<1>2. CASE CancelLoaded(c)
  <2>1. CASE csnap[c].status = "awaiting_review"
    BY <1>0, <1>2, <2>1, CallSavesKeeps DEF CancelLoaded, CallSafe
  <2>2. CASE csnap[c].status # "awaiting_review"
    BY <1>0, <1>2, <2>2, CallReturnsKeeps DEF CancelLoaded, CallReturns, RestTyped
  <2> QED
    BY <2>1, <2>2
<1>3. ASSUME NEW status \in Status, ReviewResolves(c, status) PROVE PlatformInv'
  BY <1>0, <1>3, CallSavesKeeps DEF ReviewResolves, CallSafe
<1>4. CASE ReviewGateFails(c)
  BY <1>0, <1>4, CallReturnsKeeps DEF ReviewGateFails, CallReturns, RestTyped
<1>5. CASE CallNotifies(c)
  BY <1>5, CallReturnsKeeps, NotifyTyped DEF CallNotifies
<1> QED
  BY <1>1, <1>2, <1>3, <1>4, <1>5 DEF CallStep

(* Nothing but the waiters changes. *)
LEMMA WaiterKeeps ==
  ASSUME PlatformInv, UNCHANGED <<execVars, stored, aborted, live, callVars>>,
         wpc' \in [Waiters -> {"idle", "reading", "waiting", "answered"}]
  PROVE  PlatformInv'
<1>1. UNCHANGED <<queue, active, pc, snap, outcome, releasing, stored, aborted, live, cpc, csnap>>
  BY DEF execVars, callVars
<1>2. SlotInv' /\ RestTyped'
  BY <1>1, Parts DEF SlotInv, Enumerates, Running, Waiting, NoIdleSlot, RestTyped
<1>3. TypeOK'
  BY <1>2 DEF SlotInv, RestTyped, TypeOK, Enumerates, Running, PCs
<1>4. RecordInv'
  BY <1>1 DEF PlatformInv, RecordInv, StageOf, HeldOf, CallSafe, Pending
<1> QED
  BY <1>2, <1>3, <1>4 DEF PlatformInv

LEMMA WaitKeeps ==
  ASSUME PlatformInv, NEW w \in Waiters, WaitStarts(w) \/ WaitRegisters(w)
  PROVE  PlatformInv'
<1>1. wpc' \in [Waiters -> {"idle", "reading", "waiting", "answered"}]
  BY Parts DEF RestTyped, WaitStarts, WaitRegisters
<1> QED
  BY <1>1, WaiterKeeps DEF WaitStarts, WaitRegisters

-----------------------------------------------------------------------------
LEMMA Initially == Init => PlatformInv
<1> SUFFICES ASSUME Init PROVE PlatformInv
  OBVIOUS
<1>1. NoRecord \in Record
  BY DEF NoRecord, Record, Status
<1>2. TypeOK
  BY <1>1, EmptySeq DEF Init, TypeOK
<1>3. Running = {} /\ Waiting = {}
  BY DEF Init, Running, Waiting, Executing
<1>4. Enumerates(queue, Waiting)
  <2>1. queue \in Seq(Sessions) /\ Len(queue) = 0
    BY EmptySeq DEF Init
  <2> QED
    BY <1>3, <2>1 DEF Enumerates
<1>5. SlotInv
  BY <1>3, <1>4, FS_EmptySet, BackgroundPlatformAssumption DEF Init, SlotInv, NoIdleSlot, PCs
<1>6. RecordInv
  BY DEF Init, RecordInv, StageOf, HeldOf, CallSafe, NoRecord
<1> QED
  BY <1>2, <1>5, <1>6 DEF PlatformInv

LEMMA Step == PlatformInv /\ [Next]_vars => PlatformInv'
<1> SUFFICES ASSUME PlatformInv, [Next]_vars PROVE PlatformInv'
  OBVIOUS
<1>1. ASSUME NEW s \in Sessions, ExecStep(s) PROVE PlatformInv'
  BY <1>1, SubmitQueuesKeeps, StartProvisioningKeeps, RoutedKeeps, ObtainedKeeps, RunnerReturnsKeeps,
     PublishedKeeps, StepFailsKeeps, ReleasedKeeps, ReleaseFailsKeeps, ConcludeKeeps,
     ReviewRequestedKeeps, FinishKeeps DEF ExecStep
<1>2. CASE UNCHANGED vars
  <2>1. UNCHANGED <<execVars, stored, aborted, live, callVars>> /\ wpc' = wpc
    BY <1>2 DEF vars
  <2> QED
    BY <2>1, WaiterKeeps, Parts DEF RestTyped
<1> QED
  BY <1>1, <1>2, SubmitKeeps, TimerFiresKeeps, CancelStartsKeeps, ReviewStartsKeeps, CallStepKeeps,
     WaitKeeps DEF Next

LEMMA PlatformInvariant == Spec => []PlatformInv
BY Initially, Step, PTL DEF Spec

(* Slots and resources are accounted for at every await, whatever fails:    *)
(* this.active is exactly the sessions that run, at most                    *)
(* maxConcurrentSessions; the queue holds each waiting session once and     *)
(* nobody else; no session waits while there is room; and a session shown   *)
(* as completed or awaiting review holds no resource.                       *)
THEOREM PlatformAccounts == Spec => []SlotsAccounted
<1>1. PlatformInv => SlotsAccounted
  <2> SUFFICES ASSUME PlatformInv PROVE SlotsAccounted
    OBVIOUS
  <2>0. TypeOK /\ SlotInv /\ \A s \in Sessions : HeldOf(s)
    BY Parts
  <2>1. Len(queue) = Cardinality({s \in Sessions : pc[s] = "queued"})
    BY <2>0, QueueCount DEF SlotInv, Waiting
  <2>2. ASSUME NEW s \in Sessions
        PROVE  pc[s] = "queued" <=> Cardinality({i \in 1..Len(queue) : queue[i] = s}) = 1
    <3> DEFINE places == {i \in 1..Len(queue) : queue[i] = s}
    <3>1. CASE pc[s] = "queued"
      <4>1. PICK k \in 1..Len(queue) : queue[k] = s
        BY <2>0, <3>1 DEF SlotInv, Enumerates, Waiting
      <4>2. places = {k}
        BY <2>0, <4>1 DEF SlotInv, Enumerates
      <4> QED
        BY <3>1, <4>2, FS_Singleton
    <3>2. CASE pc[s] # "queued"
      <4>1. places = {}
        BY <2>0, <3>2 DEF SlotInv, Enumerates, Waiting
      <4>2. Cardinality(places) = 0
        BY <4>1, FS_EmptySet
      <4> HIDE DEF places
      <4>3. Cardinality(places) # 1
        BY <4>2
      <4> QED
        BY <3>2, <4>3 DEF places
    <3> QED
      BY <3>1, <3>2
  <2>3. SlotsExact
    BY <2>0, <2>1, <2>2 DEF SlotsExact, SlotInv, Running
  <2>4. CompletedHoldsNothing
    BY <2>0 DEF CompletedHoldsNothing, HeldOf
  <2> QED
    BY <2>0, <2>3, <2>4 DEF SlotsAccounted, SlotInv
<1> QED
  BY PlatformInvariant, <1>1, PTL

-----------------------------------------------------------------------------
(* The status of a session. *)
Forward(s) ==
  stored'[s].status # stored[s].status => Rank(stored'[s].status) > Rank(stored[s].status)

LEMMA RankOrder ==
  /\ Rank("none") = 0 /\ Rank("queued") = 1 /\ Rank("provisioning") = 2 /\ Rank("running") = 3
  /\ Rank("awaiting_review") = 4
  /\ Rank("completed") = 5 /\ Rank("failed") = 5 /\ Rank("cancelled") = 5
BY DEF Rank

(* executeSession writes the status before the session settles, and forward. *)
LEMMA SessionMoves ==
  ASSUME PlatformInv, NEW s \in Sessions, Submit(s) \/ ExecStep(s) \/ TimerFires(s)
  PROVE  /\ UNCHANGED <<cpc, csnap>> /\ \A t \in Sessions \ {s} : stored'[t] = stored[t]
         /\ stored'[s] = stored[s] \/ pc[s] \notin {"saving", "done"}
         /\ Forward(s)
<1>0. StageOf(s) /\ stored \in [Sessions -> Record] /\ snap \in [Sessions -> Record]
  BY Parts DEF RestTyped
<1> DEFINE Goal == /\ UNCHANGED <<cpc, csnap>> /\ \A t \in Sessions \ {s} : stored'[t] = stored[t]
                   /\ stored'[s] = stored[s] \/ pc[s] \notin {"saving", "done"}
                   /\ Forward(s)
<1>1. ASSUME UNCHANGED <<stored, cpc, csnap>> PROVE Goal
  BY <1>1 DEF Forward
<1>2. ASSUME NEW rec, stored' = [stored EXCEPT ![s] = rec], Rank(rec.status) > Rank(stored[s].status),
             pc[s] \notin {"saving", "done"}, UNCHANGED <<cpc, csnap>>
      PROVE  Goal
  BY <1>0, <1>2 DEF Forward
<1> SUFFICES Goal
  OBVIOUS
<1> HIDE DEF Goal
<1>3. CASE Submit(s)
  <2>1. stored[s].status = "none" /\ pc[s] = "new" /\ UNCHANGED <<cpc, csnap>>
    BY <1>0, <1>3 DEF Submit, At, StageOf, NoRecord, callVars
  <2>2. CASE UNCHANGED stored
    BY <1>1, <2>1, <2>2
  <2>3. CASE stored' = [stored EXCEPT ![s] = [NoRecord EXCEPT !.status = "queued"]]
    <3>1. [NoRecord EXCEPT !.status = "queued"].status = "queued"
      BY DEF NoRecord
    <3>2. Rank([NoRecord EXCEPT !.status = "queued"].status) > Rank(stored[s].status)
      BY <2>1, <3>1, RankOrder
    <3> QED
      BY <1>2, <2>1, <2>3, <3>2
  <2> QED
    BY <1>3, <2>2, <2>3 DEF Submit, Save
<1>4. CASE StartProvisioning(s)
  <2>1. /\ stored[s].status = "queued" /\ pc[s] = "loading" /\ UNCHANGED <<cpc, csnap>>
        /\ snap' = [snap EXCEPT ![s].status = "provisioning"] /\ stored' = [stored EXCEPT ![s] = snap'[s]]
    BY <1>0, <1>4 DEF StartProvisioning, At, StageOf, Save, callVars
  <2>2. snap'[s].status = "provisioning"
    BY <1>0, <2>1 DEF Record
  <2>3. Rank(snap'[s].status) > Rank(stored[s].status)
    BY <2>1, <2>2, RankOrder
  <2> QED
    BY <1>2, <2>1, <2>3
<1>5. ASSUME NEW r \in Resource, Obtained(s, r) PROVE Goal
  <2>1. CASE r = "grant"
    <3>1. /\ stored[s].status = "provisioning" /\ pc[s] = "grant" /\ UNCHANGED <<cpc, csnap>>
          /\ snap' = [snap EXCEPT ![s].held = @ \cup {r}, ![s].status = "running"]
          /\ stored' = [stored EXCEPT ![s] = snap'[s]]
      BY <1>0, <1>5, <2>1 DEF Obtained, StageOf, Save, callVars
    <3>2. snap'[s].status = "running"
      BY <1>0, <3>1 DEF Record
    <3>3. Rank(snap'[s].status) > Rank(stored[s].status)
      BY <3>1, <3>2, RankOrder
    <3> QED
      BY <1>2, <3>1, <3>3
  <2>2. CASE r # "grant"
    BY <1>1, <1>5, <2>2 DEF Obtained, callVars
  <2> QED
    BY <2>1, <2>2
<1>6. ASSUME NEW status \in Terminal \cup {"awaiting_review"}, SaveAs(s, status),
             pc[s] \in {"releasing", "review"}, UNCHANGED <<cpc, csnap>>
      PROVE  Goal
  <2>1. /\ stored[s].status \in {"provisioning", "running"}
        /\ snap' = [snap EXCEPT ![s].status = status] /\ stored' = [stored EXCEPT ![s] = snap'[s]]
    BY <1>0, <1>6 DEF SaveAs, StageOf, Save
  <2>2. snap'[s].status = status
    BY <1>0, <2>1 DEF Record
  <2>3. Rank(snap'[s].status) > Rank(stored[s].status)
    BY <2>1, <2>2, RankOrder DEF Terminal
  <2> QED
    BY <1>2, <1>6, <2>1, <2>3
<1>7. CASE Conclude(s)
  <2>1. pc[s] = "releasing" /\ UNCHANGED <<cpc, csnap>>
    BY <1>7 DEF Conclude, callVars
  <2>2. \/ UNCHANGED stored \/ SaveAs(s, FailureStatus(s)) \/ SaveAs(s, "failed") \/ SaveAs(s, "completed")
    BY <1>7 DEF Conclude
  <2> QED
    BY <1>1, <1>6, <2>1, <2>2 DEF FailureStatus, Terminal
<1>8. ASSUME NEW status \in Status, ReviewRequested(s, status) PROVE Goal
  BY <1>6, <1>8 DEF ReviewRequested, Terminal, callVars
<1>9. CASE SubmitQueues(s) \/ Routed(s) \/ Published(s) \/ StepFails(s) \/ Released(s) \/ ReleaseFails(s)
           \/ Finish(s) \/ TimerFires(s)
  BY <1>1, <1>9 DEF SubmitQueues, Routed, Published, StepFails, Released, ReleaseFails, Finish, TimerFires, callVars
<1>10. ASSUME NEW o \in {"completed", "failed"}, RunnerReturns(s, o) PROVE Goal
  BY <1>1, <1>10 DEF RunnerReturns, callVars
<1>11. Goal
  <2>1. CASE ExecStep(s)
    BY <1>4, <1>5, <1>7, <1>8, <1>9, <1>10, <2>1 DEF ExecStep
  <2> QED
    BY <1>3, <1>9, <2>1
<1> QED
  BY <1>11

(* A call writes its own session's record only, and only to settle it.      *)
LEMMA CallMoves ==
  ASSUME PlatformInv, NEW c \in Calls, NEW status, CallSaves(c, status)
  PROVE  /\ stored'[Target[c]].status = status
         /\ \A t \in Sessions \ {Target[c]} : stored'[t] = stored[t]
         /\ cpc'[c] = "notifying"
         /\ \A d \in Calls \ {c} : cpc'[d] = cpc[d] /\ csnap'[d] = csnap[d]
<1>1. /\ stored \in [Sessions -> Record] /\ csnap \in [Calls -> Record] /\ Target[c] \in Sessions
      /\ DOMAIN cpc = Calls
  BY Parts, Targets DEF RestTyped
<1>2. /\ csnap' = [csnap EXCEPT ![c].status = status] /\ stored' = [stored EXCEPT ![Target[c]] = csnap'[c]]
      /\ cpc' = [cpc EXCEPT ![c] = "notifying"]
  BY DEF CallSaves, Save
<1>3. csnap'[c].status = status
  BY <1>1, <1>2 DEF Record
<1> QED
  BY <1>1, <1>2, <1>3, Parts DEF RestTyped

(* What a slower call about the session of c overwrote: the decision of d.  *)
DecidedBy(c, d) ==
  /\ d # c /\ Target[d] = Target[c]
  /\ cpc[d] \in {"notifying", "done"} /\ csnap[d].status = stored[Target[c]].status

(* While a cancel or a review that read the session as awaiting review is   *)
(* on its way, the session still does, or another call has decided.         *)
Undecided(c) ==
  stored[Target[c]].status = "awaiting_review" \/ \E d \in Calls : DecidedBy(c, d)

StatusOf(c) ==
  /\ cpc[c] = "deciding" => csnap[c].status = "awaiting_review"
  /\ cpc[c] \in {"loaded", "deciding"} /\ csnap[c].status = "awaiting_review" => Undecided(c)

StatusInv == \A c \in Calls : StatusOf(c)

LEMMA StatusStep ==
  ASSUME PlatformInv, StatusInv, [Next]_vars
  PROVE  StatusInv' /\ \A s \in Sessions : Forward(s) \/ Overwrites(s)
<1>0. /\ \A c \in Calls : CallSafe(c) /\ StatusOf(c) /\ Target[c] \in Sessions
      /\ \A s \in Sessions : StageOf(s) /\ stored[s].status \in Status
      /\ RestTyped /\ \A c : c \in Cancels \/ c \in Reviews => c \in Calls
  BY Parts, Targets DEF PlatformInv, RecordInv, StatusInv, RestTyped, Record, Calls
<1> DEFINE Goal == StatusInv' /\ \A s \in Sessions : Forward(s) \/ Overwrites(s)
<1>1. ASSUME NEW s \in Sessions, Submit(s) \/ ExecStep(s) \/ TimerFires(s) PROVE Goal
  <2>1. /\ UNCHANGED <<cpc, csnap>> /\ \A t \in Sessions \ {s} : stored'[t] = stored[t]
        /\ stored'[s] = stored[s] \/ pc[s] \notin {"saving", "done"}
        /\ Forward(s)
    BY <1>1, SessionMoves DEF callVars
  <2>2. ASSUME NEW c \in Calls PROVE StatusOf(c)'
    <3>1. \/ stored'[Target[c]] = stored[Target[c]]
          \/ ~(cpc[c] \in {"loaded", "deciding"} /\ csnap[c].status = "awaiting_review")
      BY <1>0, <2>1 DEF CallSafe
    <3>2. stored'[Target[c]] = stored[Target[c]] => (Undecided(c) => Undecided(c)')
      BY <2>1 DEF Undecided, DecidedBy
    <3> QED
      BY <1>0, <2>1, <3>1, <3>2 DEF StatusOf
  <2>3. \A t \in Sessions : Forward(t)
    BY <2>1 DEF Forward
  <2> QED
    BY <2>2, <2>3 DEF StatusInv
<1>2. ASSUME UNCHANGED <<stored, cpc, csnap>> PROVE Goal
  BY <1>0, <1>2 DEF StatusInv, StatusOf, Undecided, DecidedBy, Forward
<1>3. ASSUME NEW c \in Calls, UNCHANGED stored, StatusOf(c)',
             cpc[c] \in {"notifying", "done"} => cpc'[c] = "done" /\ csnap'[c] = csnap[c],
             \A d \in Calls \ {c} : cpc'[d] = cpc[d] /\ csnap'[d] = csnap[d]
      PROVE  Goal
  <2>1. ASSUME NEW b \in Calls \ {c} PROVE StatusOf(b)'
    <3>1. cpc'[b] = cpc[b] /\ csnap'[b] = csnap[b] /\ stored' = stored /\ StatusOf(b)
      BY <1>0, <1>3
    <3>2. ASSUME NEW d \in Calls, DecidedBy(b, d) PROVE DecidedBy(b, d)'
      BY <1>3, <3>1, <3>2 DEF DecidedBy
    <3>3. Undecided(b) => Undecided(b)'
      BY <3>1, <3>2 DEF Undecided
    <3> QED
      BY <3>1, <3>3 DEF StatusOf
  <2>2. \A t \in Sessions : Forward(t)
    BY <1>3 DEF Forward
  <2> QED
    BY <1>3, <2>1, <2>2 DEF StatusInv
<1>4. ASSUME NEW c \in Calls, NEW status, CallSaves(c, status),
             \/ Rank(status) > Rank(stored[Target[c]].status) \/ status = stored[Target[c]].status
             \/ /\ cpc[c] \in {"loaded", "deciding"} /\ csnap[c].status = "awaiting_review"
                /\ \E d \in Calls : DecidedBy(c, d)
      PROVE  Goal
  <2>1. /\ stored'[Target[c]].status = status
        /\ \A t \in Sessions \ {Target[c]} : stored'[t] = stored[t]
        /\ cpc'[c] = "notifying"
        /\ \A d \in Calls \ {c} : cpc'[d] = cpc[d] /\ csnap'[d] = csnap[d]
    BY <1>4, CallMoves
  <2>0. csnap'[c].status = status
    BY <1>0, <1>4 DEF CallSaves, RestTyped, Record
  <2>2. ASSUME NEW b \in Calls PROVE StatusOf(b)'
    <3>1. CASE b = c
      BY <2>1, <3>1 DEF StatusOf
    <3>2. CASE b # c /\ Target[b] # Target[c]
      <4>1. cpc'[b] = cpc[b] /\ csnap'[b] = csnap[b] /\ stored'[Target[b]] = stored[Target[b]] /\ StatusOf(b)
        BY <1>0, <2>1, <3>2
      <4>2. \A d \in Calls : DecidedBy(b, d) => DecidedBy(b, d)'
        BY <2>1, <3>2, <4>1 DEF DecidedBy
      <4>3. Undecided(b) => Undecided(b)'
        BY <4>1, <4>2 DEF Undecided
      <4> QED
        BY <4>1, <4>3 DEF StatusOf
    <3>3. CASE b # c /\ Target[b] = Target[c]
      <4>1. DecidedBy(b, c)'
        BY <2>0, <2>1, <3>3 DEF DecidedBy
      <4>2. cpc'[b] = cpc[b] /\ csnap'[b] = csnap[b] /\ StatusOf(b)
        BY <1>0, <2>1, <3>3
      <4> QED
        BY <4>1, <4>2 DEF StatusOf, Undecided
    <3> QED
      BY <3>1, <3>2, <3>3
  <2>3. ASSUME NEW t \in Sessions PROVE Forward(t) \/ Overwrites(t)
    <3>1. CASE t # Target[c]
      BY <2>1, <3>1 DEF Forward
    <3>2. CASE t = Target[c] /\ ~(\E d \in Calls : DecidedBy(c, d))
      BY <1>4, <2>1, <3>2 DEF Forward
    <3>3. CASE /\ t = Target[c] /\ cpc[c] \in {"loaded", "deciding"}
               /\ csnap[c].status = "awaiting_review" /\ \E d \in Calls : DecidedBy(c, d)
      BY <2>1, <3>3 DEF Overwrites, DecidedBy
    <3>4. CASE t = Target[c] /\ ( \/ Rank(status) > Rank(stored[Target[c]].status)
                                 \/ status = stored[Target[c]].status)
      BY <2>1, <3>4 DEF Forward
    <3> QED
      BY <1>4, <3>1, <3>2, <3>3, <3>4
  <2> QED
    BY <2>2, <2>3 DEF StatusInv
<1>5. ASSUME NEW c \in Calls, cpc' = [cpc EXCEPT ![c] = "done"], UNCHANGED <<stored, csnap>> PROVE Goal
  <2>1. cpc'[c] = "done" /\ \A d \in Calls \ {c} : cpc'[d] = cpc[d] /\ csnap'[d] = csnap[d]
    BY <1>0, <1>5 DEF RestTyped
  <2>2. StatusOf(c)'
    BY <2>1 DEF StatusOf
  <2> QED
    BY <1>3, <1>5, <2>1, <2>2
<1> SUFFICES Goal
  OBVIOUS
<1> HIDE DEF Goal
<1>6. ASSUME NEW c \in Cancels, CancelStarts(c) PROVE Goal
  <2>1. UNCHANGED stored /\ csnap' = [csnap EXCEPT ![c] = stored[Target[c]]] /\ cpc[c] = "idle" /\ c \in Calls
    BY <1>0, <1>6 DEF CancelStarts
  <2>2. PICK w \in {"dequeued", "loaded"} : cpc' = [cpc EXCEPT ![c] = w]
    BY <1>6 DEF CancelStarts
  <2>3. /\ cpc'[c] = w /\ csnap'[c] = stored[Target[c]]
        /\ \A d \in Calls \ {c} : cpc'[d] = cpc[d] /\ csnap'[d] = csnap[d]
    BY <1>0, <2>1, <2>2 DEF RestTyped
  <2>4. StatusOf(c)'
    BY <2>1, <2>3 DEF StatusOf, Undecided
  <2> QED
    BY <1>3, <2>1, <2>3, <2>4
<1>7. ASSUME NEW c \in Reviews, ReviewStarts(c) PROVE Goal
  <2>1. UNCHANGED stored /\ csnap' = [csnap EXCEPT ![c] = stored[Target[c]]] /\ cpc[c] = "idle" /\ c \in Calls
    BY <1>0, <1>7 DEF ReviewStarts
  <2>2. PICK w \in {"deciding", "done"} :
             cpc' = [cpc EXCEPT ![c] = w] /\ (w = "deciding" => stored[Target[c]].status = "awaiting_review")
    BY <1>7 DEF ReviewStarts
  <2>3. /\ cpc'[c] = w /\ csnap'[c] = stored[Target[c]]
        /\ \A d \in Calls \ {c} : cpc'[d] = cpc[d] /\ csnap'[d] = csnap[d]
    BY <1>0, <2>1, <2>2 DEF RestTyped
  <2>4. StatusOf(c)'
    BY <2>1, <2>2, <2>3 DEF StatusOf, Undecided
  <2> QED
    BY <1>3, <2>1, <2>3, <2>4
<1>8. ASSUME NEW c \in Calls, CallStep(c) PROVE Goal
  <2>0. StatusOf(c) /\ CallSafe(c) /\ StageOf(Target[c]) /\ Target[c] \in Sessions
    BY <1>0
  <2>1. CASE CancelWithdrawn(c)
    <3>1. CallSaves(c, "cancelled") /\ stored[Target[c]].status \in {"queued", "cancelled"}
      BY <2>0, <2>1 DEF CancelWithdrawn, CallSafe, StageOf
    <3> QED
      BY <1>4, <3>1, RankOrder
  <2>2. ASSUME NEW status \in {"completed", "failed", "cancelled", "awaiting_review"}, CallSaves(c, status),
               cpc[c] \in {"loaded", "deciding"}, csnap[c].status = "awaiting_review"
        PROVE  Goal
    <3>1. CASE stored[Target[c]].status = "awaiting_review"
      BY <1>4, <2>2, <3>1, RankOrder
    <3>2. CASE \E d \in Calls : DecidedBy(c, d)
      BY <1>4, <2>2, <3>2
    <3> QED
      BY <2>0, <2>2, <3>1, <3>2 DEF StatusOf, Undecided
  <2>3. ASSUME NEW status \in Status, ReviewResolves(c, status) PROVE Goal
    <3>1. /\ CallSaves(c, status) /\ status \in {"completed", "awaiting_review", "failed"}
          /\ cpc[c] = "deciding" /\ csnap[c].status = "awaiting_review"
      BY <2>0, <2>3 DEF ReviewResolves, StatusOf
    <3> QED
      BY <2>2, <3>1
  <2>4. CASE CancelLoaded(c)
    <3>1. CASE csnap[c].status = "awaiting_review"
      BY <2>2, <2>4, <3>1 DEF CancelLoaded
    <3>2. CASE csnap[c].status # "awaiting_review"
      BY <1>5, <2>4, <3>2 DEF CancelLoaded, CallReturns
    <3> QED
      BY <3>1, <3>2
  <2>5. CASE ReviewGateFails(c) \/ CallNotifies(c)
    BY <1>5, <2>5 DEF ReviewGateFails, CallReturns, CallNotifies
  <2> QED
    BY <1>8, <2>1, <2>3, <2>4, <2>5 DEF CallStep
<1>9. ASSUME NEW w \in Waiters, WaitStarts(w) \/ WaitRegisters(w) PROVE Goal
  BY <1>2, <1>9 DEF WaitStarts, WaitRegisters, callVars
<1>10. CASE UNCHANGED vars
  <2>1. UNCHANGED <<stored, cpc, csnap>>
    BY <1>10 DEF vars, callVars
  <2> QED
    BY <1>2, <2>1
<1>11. CASE Next
  BY <1>1, <1>6, <1>7, <1>8, <1>9, <1>11 DEF Next
<1> QED
  BY <1>10, <1>11

(* Whatever the calls: a settled session stays settled, so its waiters were *)
(* told the truth, and until it settles its status only moves forward.      *)
SettlesForGood(s) ==
  IF IsSettled(stored[s].status) THEN IsSettled(stored'[s].status) ELSE Forward(s)

LEMMA SettledStay ==
  ASSUME PlatformInv, [Next]_vars, NEW s \in Sessions
  PROVE  SettlesForGood(s)
<1>1. PlatformInv'
  BY Step
<1>2. StageOf(s) /\ StageOf(s)' /\ stored[s].status \in Status /\ stored'[s].status \in Status
  BY <1>1 DEF PlatformInv, RecordInv, TypeOK, Record
<1>3. ASSUME NEW t \in Sessions, Submit(t) \/ ExecStep(t) \/ TimerFires(t)
      PROVE  stored'[s] = stored[s] \/ Forward(s)
  BY <1>3, SessionMoves
<1>4. ASSUME NEW c \in Calls, NEW status, CallSaves(c, status)
      PROVE  stored'[s] = stored[s] \/ stored'[s].status = status
  BY <1>4, CallMoves
<1>5. \/ stored'[s] = stored[s] \/ Forward(s)
      \/ stored'[s].status \in Terminal \cup {"awaiting_review"}
  <2>1. CASE UNCHANGED vars
    BY <2>1 DEF vars
  <2>2. ASSUME NEW c \in Calls, CallStep(c)
        PROVE  stored'[s] = stored[s] \/ stored'[s].status \in Terminal \cup {"awaiting_review"}
    BY <1>4, <2>2 DEF CallStep, CancelWithdrawn, CancelLoaded, ReviewResolves, ReviewGateFails,
                      CallReturns, CallNotifies, Terminal
  <2> QED
    BY <1>3, <2>1, <2>2 DEF Next, CancelStarts, ReviewStarts, WaitStarts, WaitRegisters
<1> QED
  BY <1>2, <1>5, RankOrder DEF SettlesForGood, Forward, IsSettled, Terminal, Status

(* Whoever writes back its copy of a session, the stored status only moves  *)
(* forward, unless the call overwrites what another decided after it read   *)
(* the session as awaiting review; what has settled stays settled even so.  *)
THEOREM StatusForward == Spec => StatusMovesForward
<1>1. Init => StatusInv
  BY DEF Init, StatusInv, StatusOf
<1>2. PlatformInv /\ StatusInv /\ [Next]_vars => StatusInv'
  BY StatusStep
<1>3. PlatformInv /\ StatusInv /\ [Next]_vars =>
        [\A s \in Sessions :
           /\ stored'[s].status # stored[s].status =>
                Rank(stored'[s].status) > Rank(stored[s].status) \/ Overwrites(s)
           /\ IsSettled(stored[s].status) => IsSettled(stored'[s].status)]_vars
  BY StatusStep, SettledStay DEF Forward, SettlesForGood
<1> QED
  BY PlatformInvariant, <1>1, <1>2, <1>3, PTL DEF Spec, StatusMovesForward

(* Until a session settles, its status moves forward without exception: the *)
(* calls that overwrite each other only meet where it has settled.          *)
THEOREM SessionsSettleForGood == Spec => [][\A s \in Sessions : SettlesForGood(s)]_vars
<1>1. PlatformInv /\ [Next]_vars => [\A s \in Sessions : SettlesForGood(s)]_vars
  BY SettledStay
<1> QED
  BY PlatformInvariant, <1>1, PTL DEF Spec
=============================================================================
