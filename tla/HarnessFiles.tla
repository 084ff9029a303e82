---------------------------- MODULE HarnessFiles ----------------------------
(***************************************************************************)
(* The files that agents in several processes share: the feature registry  *)
(* (src/src/harness/FeatureRegistry.ts) and the contracts of a generator   *)
(* and an evaluator (NegotiatedHandoff.ts), changed under a lock file      *)
(* (utils.ts).                                                             *)
(*                                                                         *)
(* A change made under the lock is three steps of its process: it has the  *)
(* lock, it has read, it has written; other processes step in between.     *)
(* Proposals and features are numbers; descriptions, criteria, summaries   *)
(* and the texts injected into prompts are left out.                       *)
(***************************************************************************)
EXTENDS Integers, Sequences, FiniteSets

CONSTANTS
  Teams,       \* who shares the files and how many of them may crash: [who, crashes]
  Features,    \* feature ids
  Proposals,   \* proposal ids
  Nobody, NoFile,
  MaxTries,    \* attempts at a held lock before the wait times out
  MaxChanges, MaxReviews  \* bounds

Registries == [version : Nat, passes : [Features -> BOOLEAN], notes : [Features -> Nat]]

ASSUME FilesAssumption ==
  /\ MaxTries \in Nat \ {0} /\ MaxChanges \in Nat /\ MaxReviews \in Nat
  /\ \A t \in Teams : t.crashes \in Nat /\ Nobody \notin t.who
  /\ NoFile \notin Registries

VARIABLES
  team, file,   \* file: "registry" or "handoff"
  pc,           \* where each process is
  op,           \* the change it makes
  waited,       \* attempts that found the lock held
  snapshot,     \* what it read
  lock,         \* the process that created the lock file
  stale,        \* the lock file is older than staleLockMs
  crashed,      \* processes that are gone
  robbed,       \* ghost: the lock file of a living process was removed
  changes,      \* bound
  registry,     \* the registry file
  reviews,      \* the reviews, by time
  contracts,    \* the contract of each proposal's file
  accepted      \* ghost: what the changes written amount to, one after the other

lockVars == <<pc, waited, lock, stale, crashed, robbed>>
dataVars == <<registry, reviews, contracts, accepted>>
filesVars == <<team, file, op, snapshot, changes, lockVars, dataVars>>

Processes == team.who
NoOp == [kind |-> "none"]
MarkOps == {[kind |-> "mark", of |-> f, passes |-> b] : f \in Features, b \in BOOLEAN}
FinalizeOps == {[kind |-> "finalize", of |-> p] : p \in Proposals}
ContractOps ==
  {[kind |-> "evaluate", of |-> p] : p \in Proposals}
    \cup {[kind |-> "resolve", of |-> p, status |-> s] : p \in Proposals, s \in {"completed", "failed"}}

NewRegistry == [version |-> 1, passes |-> [f \in Features |-> FALSE], notes |-> [f \in Features |-> 0]]
Contract(i) == [review |-> i, status |-> "active", evaluated |-> FALSE]

FilesInit ==
  /\ team \in Teams /\ file \in {"registry", "handoff"}
  /\ pc = [p \in Processes |-> "idle"] /\ op = [p \in Processes |-> NoOp]
  /\ waited = [p \in Processes |-> 0] /\ snapshot = [p \in Processes |-> NoFile]
  /\ lock = Nobody /\ stale = FALSE /\ crashed = {} /\ robbed = FALSE /\ changes = 0
  /\ registry = NoFile /\ reviews = <<>> /\ contracts = [p \in Proposals |-> <<>>]
  /\ accepted = [registry |-> NewRegistry, contracts |-> [p \in Proposals |-> Contract(0)]]

Alive(p) == p \notin crashed

-----------------------------------------------------------------------------
(* withFileLock: create the lock file, or look at the one that is there.   *)

At(p, from, to) == Alive(p) /\ pc[p] = from /\ pc' = [pc EXCEPT ![p] = to]

Calls(p, o) ==
  /\ At(p, "idle", "opening") /\ changes < MaxChanges
  /\ op' = [op EXCEPT ![p] = o] /\ changes' = changes + 1
  /\ waited' = [waited EXCEPT ![p] = 0]
  /\ UNCHANGED <<team, file, snapshot, lock, stale, robbed, crashed, dataVars>>

AlwaysFree == TRUE
LockFree == lock = Nobody

CreatesLock(p) ==
  /\ At(p, "opening", "holding") /\ LockFree
  /\ lock' = p /\ stale' = FALSE
  /\ UNCHANGED <<team, file, op, snapshot, changes, waited, robbed, crashed, dataVars>>

FindsLock(p) ==
  /\ At(p, "opening", "looking") /\ ~LockFree
  /\ UNCHANGED <<team, file, op, snapshot, changes, waited, lock, stale, robbed, crashed, dataVars>>

(* Mutant: a lock file that has become old is not told from a fresh one. *)
RemovesAnyLock(p) ==
  /\ IF LockFree THEN At(p, "looking", "opening") ELSE At(p, "looking", "removing")
  /\ UNCHANGED <<team, file, op, snapshot, changes, waited, lock, stale, robbed, crashed, dataVars>>

(* A lock that is gone by now is tried again, a stale one is removed, for  *)
(* a fresh one the process waits, and gives up after a while.              *)
LooksAtLock(p) ==
  /\ \/ LockFree /\ At(p, "looking", "opening") /\ UNCHANGED waited
     \/ ~LockFree /\ stale /\ At(p, "looking", "removing") /\ UNCHANGED waited
     \/ /\ ~LockFree /\ ~stale /\ waited[p] < MaxTries
        /\ At(p, "looking", "opening") /\ waited' = [waited EXCEPT ![p] = @ + 1]
     \/ ~LockFree /\ ~stale /\ waited[p] = MaxTries /\ At(p, "looking", "idle") /\ UNCHANGED waited
  /\ UNCHANGED <<team, file, op, snapshot, changes, lock, stale, robbed, crashed, dataVars>>

(* Whatever lock file is there now is removed, also one that another       *)
(* process has created since it removed the stale one.                     *)
RemovesStale(p) ==
  /\ At(p, "removing", "opening")
  /\ lock' = Nobody /\ stale' = FALSE
  /\ robbed' = (robbed \/ lock \in Processes \ crashed)
  /\ UNCHANGED <<team, file, op, snapshot, changes, waited, crashed, dataVars>>

Unlocks(p) ==
  /\ At(p, "leaving", "idle")
  /\ lock' = Nobody /\ stale' = FALSE
  /\ op' = [op EXCEPT ![p] = NoOp] /\ snapshot' = [snapshot EXCEPT ![p] = NoFile]
  /\ UNCHANGED <<team, file, changes, waited, robbed, crashed, dataVars>>

Crashes(p) ==
  /\ Alive(p) /\ pc[p] # "idle" /\ Cardinality(crashed) < team.crashes
  /\ crashed' = crashed \cup {p}
  /\ UNCHANGED <<team, file, op, snapshot, changes, pc, waited, lock, stale, robbed, dataVars>>

(* A change takes no 30 seconds: only a crash leaves a lock that old. *)
LockAges ==
  /\ lock \in crashed /\ ~stale /\ stale' = TRUE
  /\ UNCHANGED <<team, file, op, snapshot, changes, pc, waited, lock, robbed, crashed, dataVars>>

-----------------------------------------------------------------------------
(* The feature registry.  markResult counts the version up; a pass clears  *)
(* the notes, a failure adds to them.                                      *)

Marked(r, o) ==
  [version |-> r.version + 1, passes |-> [r.passes EXCEPT ![o.of] = o.passes],
   notes |-> [r.notes EXCEPT ![o.of] = IF o.passes THEN 0 ELSE @ + 1]]

(* initialize() takes no lock: the initializer agent calls it once. *)
Initializes(p) ==
  /\ file = "registry" /\ registry = NoFile /\ Alive(p) /\ pc[p] = "idle"
  /\ registry' = NewRegistry
  /\ UNCHANGED <<team, file, op, snapshot, changes, lockVars, reviews, contracts, accepted>>

(* readJSON throws nothing for a missing file, readSnapshot does. *)
Reads(p) ==
  /\ file = "registry" /\ op[p].kind = "mark"
  /\ At(p, "holding", IF registry = NoFile THEN "leaving" ELSE "changing")
  /\ snapshot' = [snapshot EXCEPT ![p] = registry]
  /\ UNCHANGED <<team, file, op, changes, waited, lock, stale, robbed, crashed, dataVars>>

Writes(p) ==
  /\ op[p].kind = "mark" /\ At(p, "changing", "leaving")
  /\ registry' = Marked(snapshot[p], op[p]) /\ accepted' = [accepted EXCEPT !.registry = Marked(@, op[p])]
  /\ UNCHANGED <<team, file, op, snapshot, changes, waited, lock, stale, robbed, crashed, reviews, contracts>>

-----------------------------------------------------------------------------
(* Contracts.  A proposal is reviewed without the lock; finalizeContract   *)
(* takes the latest review and makes a contract if there is none, the      *)
(* others read a contract and write it again with what they add.           *)

Reviews(pr, decision) ==
  /\ file = "handoff" /\ Len(reviews) < MaxReviews
  /\ reviews' = Append(reviews, [of |-> pr, decision |-> decision])
  /\ UNCHANGED <<team, file, op, snapshot, changes, lockVars, registry, contracts, accepted>>

LatestReview(pr) ==
  LET of == {i \in DOMAIN reviews : reviews[i].of = pr} IN
  IF of = {} THEN 0 ELSE CHOOSE i \in of : \A j \in of : j <= i
Approved(i) == i > 0 /\ reviews[i].decision = "approved"

Finalizable(pr) == Approved(LatestReview(pr)) /\ contracts[pr] = <<>>

ReadsForContract(p) ==
  /\ op[p].kind = "finalize"
  /\ At(p, "holding", IF Finalizable(op[p].of) THEN "changing" ELSE "leaving")
  /\ snapshot' = [snapshot EXCEPT ![p] = LatestReview(op[p].of)]
  /\ UNCHANGED <<team, file, op, changes, waited, lock, stale, robbed, crashed, dataVars>>

(* Each contract has a file of its own, named by a new id. *)
WritesContract(p) ==
  /\ op[p].kind = "finalize" /\ At(p, "changing", "leaving")
  /\ contracts' = [contracts EXCEPT ![op[p].of] = Append(@, Contract(snapshot[p]))]
  /\ UNCHANGED <<team, file, op, snapshot, changes, waited, lock, stale, robbed, crashed, registry, reviews, accepted>>

ReadsContract(p) ==
  /\ op[p].kind \in {"evaluate", "resolve"}
  /\ At(p, "holding", IF contracts[op[p].of] = <<>> THEN "leaving" ELSE "changing")
  /\ snapshot' = [snapshot EXCEPT ![p] = IF contracts[op[p].of] = <<>> THEN NoFile ELSE contracts[op[p].of][1]]
  /\ UNCHANGED <<team, file, op, changes, waited, lock, stale, robbed, crashed, dataVars>>

Amended(c, o) ==
  IF o.kind = "evaluate" THEN [c EXCEPT !.evaluated = TRUE] ELSE [c EXCEPT !.status = o.status]

WritesAmended(p) ==
  /\ op[p].kind \in {"evaluate", "resolve"} /\ At(p, "changing", "leaving")
  /\ contracts' = [contracts EXCEPT ![op[p].of][1] = Amended(snapshot[p], op[p])]
  /\ accepted' = [accepted EXCEPT !.contracts[op[p].of] = Amended(@, op[p])]
  /\ UNCHANGED <<team, file, op, snapshot, changes, waited, lock, stale, robbed, crashed, registry, reviews>>

FilesNext ==
  \/ \E p \in Processes :
       \/ \E o \in IF file = "registry" THEN MarkOps ELSE FinalizeOps \cup ContractOps : Calls(p, o)
       \/ CreatesLock(p) \/ FindsLock(p) \/ LooksAtLock(p) \/ RemovesStale(p) \/ Unlocks(p) \/ Crashes(p)
       \/ Initializes(p) \/ Reads(p) \/ Writes(p)
       \/ ReadsForContract(p) \/ WritesContract(p) \/ ReadsContract(p) \/ WritesAmended(p)
  \/ LockAges
  \/ \E pr \in Proposals, d \in {"approved", "rejected"} : Reviews(pr, d)

FilesSpec == FilesInit /\ [][FilesNext]_filesVars

-----------------------------------------------------------------------------
(* No change is lost: whatever processes read and write at once, the        *)
(* registry is what the results written to it amount to, one after the      *)
(* other ("The ONLY mutation", harness/FeatureRegistry.ts:150); a proposal  *)
(* has one contract, made of an approved review ("prevents                  *)
(* duplicate/concurrent finalization", harness/NegotiatedHandoff.ts:136),   *)
(* and the contract carries every evaluation and the last resolution.  This *)
(* holds wherever processes crash, until a living one loses its lock file;  *)
(* that takes a crash that leaves two others to find the same stale file    *)
(* (harness/utils.ts:83, against "Two concurrent callers cannot both        *)
(* succeed", harness/utils.ts:49).                                          *)
ChangesAreKept ==
  IF robbed THEN \E c \in crashed : \E p, q \in Processes \ {c} : p # q
  ELSE
    /\ file = "registry" /\ registry # NoFile => registry = accepted.registry
    /\ file = "handoff" =>
         \A pr \in Proposals :
           /\ Len(contracts[pr]) <= 1
           /\ contracts[pr] # <<>> =>
                LET c == contracts[pr][1] IN
                /\ Approved(c.review)
                /\ c = [accepted.contracts[pr] EXCEPT !.review = c.review]
=============================================================================
