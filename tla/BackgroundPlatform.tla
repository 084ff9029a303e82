------------------------- MODULE BackgroundPlatform -------------------------
(***************************************************************************)
(* BackgroundAgentPlatform (src/src/platform/in-memory.ts): sessions are    *)
(* submitted, queued behind maxConcurrentSessions, executed with an         *)
(* environment, an identity and a capability grant, possibly held for       *)
(* review, cancelled, and waited for.                                       *)
(*                                                                          *)
(* Every platform operation works on a private copy of the session record   *)
(* read from the session store and writes the whole copy back.  A store     *)
(* operation takes effect when it is issued; the code behind its await runs *)
(* in a later step, so other operations interleave there.                   *)
(***************************************************************************)
EXTENDS Integers, Sequences, FiniteSets

CONSTANTS
  Sessions,        \* submitTask() calls and the sessions they create
  NeedsReview,     \* sessions whose task has review.required
  Cancels,         \* cancelSession() calls
  Reviews,         \* submitReview() calls
  Waiters,         \* waitForSession() calls (includeAwaitingReview, no timeout)
  Target,          \* the session of each call
  MaxConcurrent,   \* capacity.maxConcurrentSessions
  MaxQueued,       \* capacity.maxQueuedSessions
  HasTimeout,      \* resolveTimeout(route) > 0
  ReleaseMayFail,  \* a revoke or release call of a provider may throw
  AsyncStore       \* the session store answers asynchronously (Postgres)

ASSUME BackgroundPlatformAssumption ==
  /\ NeedsReview \subseteq Sessions
  /\ IsFiniteSet(Sessions)
  /\ Target \in [Cancels \cup Reviews \cup Waiters -> Sessions]
  /\ Cancels \cap Reviews = {}
  /\ MaxConcurrent \in Nat \ {0} /\ MaxQueued \in Nat \ {0}
  /\ HasTimeout \in BOOLEAN /\ ReleaseMayFail \in BOOLEAN /\ AsyncStore \in BOOLEAN

VARIABLES
  queue, active,   \* this.queue, this.active
  stored,          \* the session store
  pc,              \* submitTask and executeSession of each session
  snap,            \* executeSession's copy of the session
  aborted,         \* its AbortController's signal
  outcome,         \* what its runner returned
  releasing,       \* why releaseRuntimeResources was called
  live,            \* resources the providers hold for the session
  cpc, csnap,      \* cancelSession and submitReview: progress and session copy
  wpc              \* waitForSession calls

execVars == <<queue, active, pc, snap, outcome, releasing>>
callVars == <<cpc, csnap>>
vars == <<execVars, stored, aborted, live, callVars, wpc>>

Resource == {"grant", "identity", "environment"}
Terminal == {"completed", "failed", "cancelled"}
Status == {"none", "queued", "provisioning", "running", "awaiting_review"} \cup Terminal

(* held: resources the record names; freed: those it marks as released.     *)
Record == [status : Status, held : SUBSET Resource, freed : SUBSET Resource]
NoRecord == [status |-> "none", held |-> {}, freed |-> {}]

Executing == {"loading", "routing", "environment", "identity", "grant", "running",
              "publishing", "releasing", "review", "saving"}
Calls == Cancels \cup Reviews

TypeOK ==
  /\ queue \in Seq(Sessions)
  /\ active \subseteq Sessions
  /\ stored \in [Sessions -> Record]
  /\ pc \in [Sessions -> Executing \cup
                         {"new", "refused", "creating", "queued", "withdrawn", "done", "rejected"}]
  /\ snap \in [Sessions -> Record]
  /\ aborted \in [Sessions -> BOOLEAN]
  /\ outcome \in [Sessions -> {"none", "completed", "failed"}]
  /\ releasing \in [Sessions -> {"no", "finished", "failed"}]
  /\ live \in [Sessions -> SUBSET Resource]
  /\ cpc \in [Calls -> {"idle", "dequeued", "loaded", "deciding", "notifying", "done"}]
  /\ csnap \in [Calls -> Record]
  /\ wpc \in [Waiters -> {"idle", "reading", "waiting", "answered"}]

Init ==
  /\ queue = <<>> /\ active = {}
  /\ stored = [s \in Sessions |-> NoRecord]
  /\ pc = [s \in Sessions |-> "new"]
  /\ snap = [s \in Sessions |-> NoRecord]
  /\ aborted = [s \in Sessions |-> FALSE]
  /\ outcome = [s \in Sessions |-> "none"]
  /\ releasing = [s \in Sessions |-> "no"]
  /\ live = [s \in Sessions |-> {}]
  /\ cpc = [c \in Calls |-> "idle"]
  /\ csnap = [c \in Calls |-> NoRecord]
  /\ wpc = [w \in Waiters |-> "idle"]

-----------------------------------------------------------------------------
(* Mutant: a session that awaits review does not count as settled. *)
IsSettledTerminal(status) == status \in Terminal

IsSettled(status) == status \in Terminal \cup {"awaiting_review"}

At(s, from, to) == pc[s] = from /\ pc' = [pc EXCEPT ![s] = to]

Save(s, rec) == stored' = [stored EXCEPT ![s] = rec]

SlotsFree(act) == MaxConcurrent - Cardinality(act)

(* dispatch(): sessions start while there is room; each runs to the await   *)
(* of its first store read.                                                 *)
DispatchFrom(q, act, pcs) ==
  LET n == IF SlotsFree(act) < Len(q) THEN SlotsFree(act) ELSE Len(q)
      started == {q[i] : i \in 1..n}
  IN  /\ queue' = SubSeq(q, n + 1, Len(q))
      /\ active' = act \cup started
      /\ pc' = [s \in Sessions |-> IF s \in started THEN "loading" ELSE pcs[s]]
      /\ snap' = [s \in Sessions |-> IF s \in started THEN stored[s] ELSE snap[s]]

(* splice(k, 1) *)
Without(q, k) == [i \in 1..(Len(q) - 1) |-> IF i < k THEN q[i] ELSE q[i + 1]]

(* notifyWaiters *)
NotifyAbout(s, status) ==
  wpc' = [w \in Waiters |->
            IF wpc[w] = "waiting" /\ Target[w] = s /\ IsSettled(status)
              THEN "answered" ELSE wpc[w]]

-----------------------------------------------------------------------------
(* submitTask *)

Submit(s) ==
  /\ IF Len(queue) >= MaxQueued
       THEN At(s, "new", "refused") /\ UNCHANGED stored
       ELSE /\ At(s, "new", "creating")
            /\ Save(s, [NoRecord EXCEPT !.status = "queued"])
  /\ UNCHANGED <<queue, active, snap, outcome, releasing, aborted, live, callVars, wpc>>

SubmitQueues(s) ==
  /\ pc[s] = "creating"
  /\ DispatchFrom(Append(queue, s), active, [pc EXCEPT ![s] = "queued"])
  /\ UNCHANGED <<stored, outcome, releasing, aborted, live, callVars, wpc>>

-----------------------------------------------------------------------------
(* executeSession *)

(* The session leaves `active` and the next one is dispatched (finally). *)
Leave(s, how) == DispatchFrom(queue, active \ {s}, [pc EXCEPT ![s] = how])

(* The catch clause: a fresh copy is read and its resources are released.   *)
Catch(s) ==
  /\ pc' = [pc EXCEPT ![s] = "releasing"]
  /\ snap' = [snap EXCEPT ![s] = stored[s]]
  /\ releasing' = [releasing EXCEPT ![s] = "failed"]
  /\ UNCHANGED <<queue, active, outcome>>

StartProvisioning(s) ==
  /\ At(s, "loading", "routing")
  /\ snap' = [snap EXCEPT ![s].status = "provisioning"]
  /\ Save(s, snap'[s])
  /\ UNCHANGED <<queue, active, outcome, releasing, aborted, live, callVars, wpc>>

Routed(s) ==
  /\ At(s, "routing", "environment")
  /\ UNCHANGED <<queue, active, snap, outcome, releasing>>
  /\ UNCHANGED <<stored, aborted, live, callVars, wpc>>

(* provision, issueIdentity and grant, in this order; the record of each is *)
(* only in the private copy until the session is saved as running.          *)
Obtained(s, r) ==
  /\ pc[s] = r
  /\ live' = [live EXCEPT ![s] = @ \cup {r}]
  /\ IF r = "grant"
       THEN /\ snap' = [snap EXCEPT ![s].held = @ \cup {r}, ![s].status = "running"]
            /\ Save(s, snap'[s])
            /\ pc' = [pc EXCEPT ![s] = "running"]
       ELSE /\ snap' = [snap EXCEPT ![s].held = @ \cup {r}]
            /\ UNCHANGED stored
            /\ pc' = [pc EXCEPT ![s] = IF r = "environment" THEN "identity" ELSE "grant"]
  /\ UNCHANGED <<queue, active, outcome, releasing, aborted, callVars, wpc>>

(* Mutant: the abort signal is not looked at when the runner returns. *)
RunnerReturnsUnchecked(s, o) ==
  /\ pc[s] = "running"
  /\ pc' = [pc EXCEPT ![s] = "publishing"]
  /\ snap' = [snap EXCEPT ![s] = stored[s]]
  /\ outcome' = [outcome EXCEPT ![s] = o]
  /\ UNCHANGED <<queue, active, releasing>>
  /\ UNCHANGED <<stored, aborted, live, callVars, wpc>>

(* An aborted session's outcome is dropped. *)
RunnerReturns(s, o) ==
  /\ pc[s] = "running"
  /\ IF aborted[s]
       THEN Catch(s)
       ELSE /\ pc' = [pc EXCEPT ![s] = "publishing"]
            /\ snap' = [snap EXCEPT ![s] = stored[s]]
            /\ outcome' = [outcome EXCEPT ![s] = o]
            /\ UNCHANGED <<queue, active, releasing>>
  /\ UNCHANGED <<stored, aborted, live, callVars, wpc>>

Published(s) ==
  /\ At(s, "publishing", "releasing")
  /\ releasing' = [releasing EXCEPT ![s] = "finished"]
  /\ UNCHANGED <<queue, active, snap, outcome, stored, aborted, live, callVars, wpc>>

(* The router, a provider, the runner, the artifact store or the review     *)
(* gate throws.                                                             *)
StepFails(s) ==
  /\ pc[s] \in {"routing", "environment", "identity", "grant", "running", "publishing", "review"}
  /\ Catch(s)
  /\ UNCHANGED <<stored, aborted, live, callVars, wpc>>

(* What the copy says is still to be released, in the order of the code. *)
Pending(s) == snap[s].held \ snap[s].freed

NextToRelease(s) ==
  IF "grant" \in Pending(s) THEN "grant"
  ELSE IF "identity" \in Pending(s) THEN "identity" ELSE "environment"

Released(s) ==
  /\ pc[s] = "releasing" /\ Pending(s) # {}
  /\ live' = [live EXCEPT ![s] = @ \ {NextToRelease(s)}]
  /\ snap' = [snap EXCEPT ![s].freed = @ \cup {NextToRelease(s)}]
  /\ UNCHANGED <<queue, active, pc, outcome, releasing, stored, aborted, callVars, wpc>>

(* Mutant: a failing release is logged and passed over. *)
ReleaseFailsQuietly(s) ==
  /\ ReleaseMayFail
  /\ pc[s] = "releasing" /\ Pending(s) # {}
  /\ snap' = [snap EXCEPT ![s].freed = @ \cup {NextToRelease(s)}]
  /\ UNCHANGED <<queue, active, pc, outcome, releasing, live, stored, aborted, callVars, wpc>>

(* A failing release sends the run to the catch clause; failing again there *)
(* rejects executeSession with the session's status left as it was.         *)
ReleaseFails(s) ==
  /\ ReleaseMayFail
  /\ pc[s] = "releasing" /\ Pending(s) # {}
  /\ \/ releasing[s] = "finished" /\ Catch(s)
     \/ /\ releasing[s] = "failed"
        /\ Leave(s, "rejected")
        /\ UNCHANGED <<outcome, releasing>>
  /\ UNCHANGED <<stored, aborted, live, callVars, wpc>>

(* The last save of executeSession. *)
SaveAs(s, status) ==
  /\ snap' = [snap EXCEPT ![s].status = status]
  /\ Save(s, snap'[s])
  /\ pc' = [pc EXCEPT ![s] = "saving"]
  /\ UNCHANGED <<queue, active, outcome, releasing>>

FailureStatus(s) == IF aborted[s] THEN "cancelled" ELSE "failed"

Conclude(s) ==
  /\ pc[s] = "releasing" /\ Pending(s) = {}
  /\ \/ /\ releasing[s] = "failed"
        /\ SaveAs(s, FailureStatus(s))
     \/ /\ releasing[s] = "finished" /\ outcome[s] = "failed"
        /\ SaveAs(s, "failed")
     \/ /\ releasing[s] = "finished" /\ outcome[s] = "completed" /\ s \notin NeedsReview
        /\ SaveAs(s, "completed")
     \/ /\ releasing[s] = "finished" /\ outcome[s] = "completed" /\ s \in NeedsReview
        /\ pc' = [pc EXCEPT ![s] = "review"]
        /\ UNCHANGED <<queue, active, snap, outcome, releasing, stored>>
  /\ UNCHANGED <<aborted, live, callVars, wpc>>

(* The review gate answers: pending, approved, or rejected. *)
ReviewRequested(s, status) ==
  /\ pc[s] = "review"
  /\ status \in {"awaiting_review", "completed", "failed"}
  /\ SaveAs(s, status)
  /\ UNCHANGED <<aborted, live, callVars, wpc>>

Finish(s) ==
  /\ pc[s] = "saving"
  /\ NotifyAbout(s, snap[s].status)
  /\ Leave(s, "done")
  /\ UNCHANGED <<stored, outcome, releasing, aborted, live, callVars>>

(* The session timer, set once the route is known. *)
TimerFires(s) ==
  /\ HasTimeout /\ ~aborted[s]
  /\ pc[s] \in Executing \ {"loading", "routing"}
  /\ aborted' = [aborted EXCEPT ![s] = TRUE]
  /\ UNCHANGED <<execVars, stored, live, callVars, wpc>>

-----------------------------------------------------------------------------
(* cancelSession: abort a running session, withdraw a queued one, close one *)
(* that awaits review.                                                      *)

CancelStarts(c) ==
  LET s == Target[c] IN
  /\ cpc[c] = "idle" /\ stored[s].status # "none"
  /\ aborted' = [aborted EXCEPT ![s] = @ \/ s \in active]
  /\ csnap' = [csnap EXCEPT ![c] = stored[s]]
  /\ \/ \E k \in 1..Len(queue) :
          /\ queue[k] = s
          /\ queue' = Without(queue, k)
          /\ pc' = [pc EXCEPT ![s] = "withdrawn"]
          /\ cpc' = [cpc EXCEPT ![c] = "dequeued"]
     \/ /\ \A k \in 1..Len(queue) : queue[k] # s
        /\ cpc' = [cpc EXCEPT ![c] = "loaded"]
        /\ UNCHANGED <<queue, pc>>
  /\ UNCHANGED <<active, snap, outcome, releasing, stored, live, wpc>>

(* The call's copy, with its new status, replaces the stored record. *)
CallSaves(c, status) ==
  /\ csnap' = [csnap EXCEPT ![c].status = status]
  /\ Save(Target[c], csnap'[c])
  /\ cpc' = [cpc EXCEPT ![c] = "notifying"]
  /\ UNCHANGED <<execVars, aborted, live, wpc>>

CallReturns(c) ==
  /\ cpc' = [cpc EXCEPT ![c] = "done"]
  /\ UNCHANGED <<execVars, stored, aborted, live, csnap, wpc>>

CancelWithdrawn(c) == cpc[c] = "dequeued" /\ CallSaves(c, "cancelled")

(* Mutant: the status is not looked at before it is overwritten. *)
CancelLoadedAlways(c) == cpc[c] = "loaded" /\ CallSaves(c, "cancelled")

CancelLoaded(c) ==
  /\ cpc[c] = "loaded"
  /\ IF csnap[c].status = "awaiting_review"
       THEN CallSaves(c, "cancelled")
       ELSE CallReturns(c)

(* Mutant: the session's status is not asked for before a review.           *)
ReviewStartsUnchecked(c) ==
  /\ cpc[c] = "idle"
  /\ csnap' = [csnap EXCEPT ![c] = stored[Target[c]]]
  /\ cpc' = [cpc EXCEPT ![c] = "deciding"]
  /\ UNCHANGED <<execVars, stored, aborted, live, wpc>>

(* submitReview *)
ReviewStarts(c) ==
  /\ cpc[c] = "idle"
  /\ csnap' = [csnap EXCEPT ![c] = stored[Target[c]]]
  /\ cpc' = [cpc EXCEPT ![c] =
               IF stored[Target[c]].status = "awaiting_review" THEN "deciding" ELSE "done"]
  /\ UNCHANGED <<execVars, stored, aborted, live, wpc>>

ReviewResolves(c, status) ==
  /\ cpc[c] = "deciding"
  /\ status \in {"completed", "awaiting_review", "failed"}
  /\ CallSaves(c, status)

ReviewGateFails(c) == cpc[c] = "deciding" /\ CallReturns(c)

CallNotifies(c) ==
  /\ cpc[c] = "notifying"
  /\ cpc' = [cpc EXCEPT ![c] = "done"]
  /\ NotifyAbout(Target[c], csnap[c].status)
  /\ UNCHANGED <<execVars, stored, aborted, live, csnap>>

-----------------------------------------------------------------------------
(* waitForSession: read, then register.  With a synchronous store the       *)
(* registration is queued ahead of the notification of any later save, so   *)
(* the two are one step; an asynchronous store gives no such order.         *)

WaitStarts(w) ==
  /\ wpc[w] = "idle" /\ stored[Target[w]].status # "none"
  /\ wpc' = [wpc EXCEPT ![w] =
               IF IsSettled(stored[Target[w]].status) THEN "answered"
               ELSE IF AsyncStore THEN "reading" ELSE "waiting"]
  /\ UNCHANGED <<execVars, stored, aborted, live, callVars>>

WaitRegisters(w) ==
  /\ wpc[w] = "reading"
  /\ wpc' = [wpc EXCEPT ![w] = "waiting"]
  /\ UNCHANGED <<execVars, stored, aborted, live, callVars>>

-----------------------------------------------------------------------------
ExecStep(s) ==
  \/ SubmitQueues(s) \/ StartProvisioning(s) \/ Routed(s)
  \/ \E r \in Resource : Obtained(s, r)
  \/ \E o \in {"completed", "failed"} : RunnerReturns(s, o)
  \/ Published(s) \/ StepFails(s) \/ Released(s) \/ ReleaseFails(s) \/ Conclude(s)
  \/ \E status \in Status : ReviewRequested(s, status)
  \/ Finish(s)

CallStep(c) ==
  \/ CancelWithdrawn(c) \/ CancelLoaded(c)
  \/ \E status \in Status : ReviewResolves(c, status)
  \/ ReviewGateFails(c) \/ CallNotifies(c)

Next ==
  \/ \E s \in Sessions : Submit(s) \/ ExecStep(s) \/ TimerFires(s)
  \/ \E c \in Cancels : CancelStarts(c)
  \/ \E c \in Reviews : ReviewStarts(c)
  \/ \E c \in Calls : CallStep(c)
  \/ \E w \in Waiters : WaitStarts(w) \/ WaitRegisters(w)

(* Store, providers, router and runner answer, with a result or an error.   *)
Fairness ==
  /\ \A s \in Sessions : WF_vars(ExecStep(s))
  /\ \A c \in Calls : WF_vars(CallStep(c))
  /\ \A w \in Waiters : WF_vars(WaitRegisters(w))

Spec == Init /\ [][Next]_vars /\ Fairness

-----------------------------------------------------------------------------
(* Properties *)

(* this.active is exactly the sessions executeSession is running for, never *)
(* more than maxConcurrentSessions; the queue holds each waiting session    *)
(* once and none that runs or was withdrawn.                                *)
SlotsExact ==
  /\ active = {s \in Sessions : pc[s] \in Executing}
  /\ Cardinality(active) <= MaxConcurrent
  /\ \A s \in Sessions :
       pc[s] = "queued" <=> Cardinality({i \in 1..Len(queue) : queue[i] = s}) = 1
  /\ Len(queue) = Cardinality({s \in Sessions : pc[s] = "queued"})

(* No session waits in the queue while there is room (submit, finally).     *)
NoIdleSlot == queue # <<>> => Cardinality(active) = MaxConcurrent

(* A session shown as completed or awaiting review holds no resource, even  *)
(* when release calls failed on the way.                                    *)
CompletedHoldsNothing ==
  \A s \in Sessions :
    stored[s].status \in {"completed", "awaiting_review"} => live[s] = {}

(* Slots and resources are accounted for at every await, whatever fails.    *)
SlotsAccounted == TypeOK /\ SlotsExact /\ NoIdleSlot /\ CompletedHoldsNothing

Rank(status) ==
  CASE status = "none" -> 0
    [] status = "queued" -> 1
    [] status = "provisioning" -> 2
    [] status = "running" -> 3
    [] status = "awaiting_review" -> 4
    [] OTHER -> 5

(* A call writes back the copy it read while s awaited review, over what    *)
(* another call about s has decided and saved since then.                   *)
Overwrites(s) ==
  \E c, d \in Calls :
    /\ c # d /\ Target[c] = s /\ Target[d] = s
    /\ cpc[c] \in {"loaded", "deciding"} /\ csnap[c].status = "awaiting_review"
    /\ cpc'[c] = "notifying"
    /\ cpc[d] \in {"notifying", "done"} /\ csnap[d].status = stored[s].status

(* Whoever writes back its copy, the stored status only moves forward, with *)
(* one exception: of two calls that both read the session while it awaited  *)
(* review, a cancelSession and a submitReview say, the slower overwrites    *)
(* what the faster decided (in-memory.ts:650-697).  executeSession is never *)
(* part of it, and a session that has settled stays settled even then.      *)
StatusMovesForward ==
  [][\A s \in Sessions :
       /\ stored'[s].status # stored[s].status =>
            Rank(stored'[s].status) > Rank(stored[s].status) \/ Overwrites(s)
       /\ IsSettled(stored[s].status) => IsSettled(stored'[s].status)]_vars

(* Every accepted session comes to a terminal status or to its review.      *)
SessionsSettle ==
  \A s \in Sessions : stored[s].status = "queued" ~> IsSettled(stored[s].status)

(* A session aborted before its runner returned is cancelled in the end:    *)
(* neither its outcome nor another error replaces the cancellation.         *)
CancelTakesEffect ==
  \A s \in Sessions :
    (aborted[s] /\ pc[s] \in {"loading", "routing", "environment", "identity",
                              "grant", "running"})
      ~> stored[s].status = "cancelled"

(* Every waiter is answered once its session settles.                       *)
WaitersAnswered ==
  \A w \in Waiters : wpc[w] \in {"reading", "waiting"} ~> wpc[w] = "answered"

(* Nobody is left hanging: neither a session nor a caller that waits for it.*)
NobodyHangs == SessionsSettle /\ WaitersAnswered
=============================================================================
