--------------------------- MODULE SelfImprovement ---------------------------
(***************************************************************************)
(* An agent that improves its skills: a revision is tried as an experiment *)
(* on a thread (src/src/harness/loop/experimental-executor.ts), which is   *)
(* rolled back unless a metric improved, and the skill file is written     *)
(* only after a success (src/src/swarm/self-improvement/skill-evolver.ts). *)
(*                                                                         *)
(* A checkpoint is the number of the experiment that wrote it, 0 for those *)
(* from before; the thread is the sequence of its checkpoints.  An         *)
(* operation that timed out is not stopped, and may still write.           *)
(***************************************************************************)
EXTENDS Integers, Sequences, SequencesExt

CONSTANTS
  Metrics,        \* values of the metric, which is to be minimised
  Improvement,    \* the threshold
  Revisions,      \* contents of a skill file the model may propose
  BadRevisions,   \* those that are empty, too large, without heading, or close the wrapper
  MaxExperiments, MaxCheckpoints  \* bounds: experiments, checkpoints of the thread

ASSUME ImprovementAssumption ==
  /\ Metrics \subseteq Int /\ Improvement \in Int
  /\ BadRevisions \subseteq Revisions /\ MaxExperiments \in Nat /\ MaxCheckpoints \in Nat

VARIABLES
  thread,    \* the checkpoints of the thread, the latest last
  saved,     \* the snapshot: <<the latest checkpoint>> as it was before the changes, or <<>>
  trial,     \* the experiment under way: its stage and its metrics
  tried,     \* experiments begun
  late,      \* the experiments whose operations timed out and have not ended
  storeFailed, lateWriters,
             \* ghosts: of the last rollback, whether the store failed, and who
             \* wrote after the thread had been deleted
  result,    \* how the last experiment ended
  skill,     \* the content of SKILL.md, "first" at first
  proposal,  \* the revision that is tried, or "none"
  proven     \* ghost: the revisions that were tried with success

improvementVars ==
  <<thread, saved, trial, tried, late, storeFailed, lateWriters, result, skill, proposal, proven>>

Untried == [success |-> FALSE, rolledBack |-> FALSE, gain |-> 0]
Rest == [stage |-> "rest", before |-> 0, after |-> 0]
Stages == {"rest", "baseline", "snapshot", "applying", "measuring", "restoring", "putting", "judged"}

ImprovementInit ==
  /\ thread \in {<<>>, <<0, 0>>} /\ saved = <<>>
  /\ trial = Rest /\ tried = 0 /\ late = {} /\ storeFailed = FALSE /\ lateWriters = {} /\ result = Untried
  /\ skill = "first" /\ proposal = "none" /\ proven = {}

TrialAt(stage) == trial.stage = stage
GoesTo(stage) == trial' = [trial EXCEPT !.stage = stage]
Judged(success, rolledBack, gain) ==
  result' = [success |-> success, rolledBack |-> rolledBack, gain |-> gain]

-----------------------------------------------------------------------------
(* The model proposes a revision, which begins an experiment; a model that *)
(* fails proposes nothing.                                                 *)
Propose ==
  /\ TrialAt("rest") /\ tried < MaxExperiments
  /\ proposal' \in Revisions
  /\ tried' = tried + 1 /\ trial' = [Rest EXCEPT !.stage = "baseline"]
  /\ result' = Untried /\ storeFailed' = FALSE /\ lateWriters' = {} /\ saved' = <<>>
  /\ UNCHANGED <<thread, late, skill, proven>>

(* Measuring and applying run the agent, which writes checkpoints.         *)
WriteCheckpoint ==
  /\ trial.stage \in {"baseline", "applying", "measuring"} /\ Len(thread) < MaxCheckpoints
  /\ thread' = Append(thread, tried)
  /\ UNCHANGED <<saved, trial, tried, late, storeFailed, lateWriters, result, skill, proposal, proven>>

MeasureBaseline ==
  /\ TrialAt("baseline")
  /\ \E m \in Metrics : trial' = [trial EXCEPT !.stage = "snapshot", !.before = m]
  /\ UNCHANGED <<thread, saved, tried, late, storeFailed, lateWriters, result, skill, proposal, proven>>

TakeSnapshot ==
  /\ TrialAt("snapshot") /\ GoesTo("applying")
  /\ saved' = IF thread = <<>> THEN <<>> ELSE <<Last(thread)>>
  /\ UNCHANGED <<thread, tried, late, storeFailed, lateWriters, result, skill, proposal, proven>>

Apply ==
  /\ TrialAt("applying") /\ GoesTo("measuring")
  /\ UNCHANGED <<thread, saved, tried, late, storeFailed, lateWriters, result, skill, proposal, proven>>

Improved(before, after) == before - after >= Improvement

Measure ==
  /\ TrialAt("measuring")
  /\ \E m \in Metrics :
       IF Improved(trial.before, m)
       THEN /\ trial' = [trial EXCEPT !.stage = "judged", !.after = m]
            /\ Judged(TRUE, FALSE, trial.before - m)
            /\ proven' = proven \cup {proposal}
       ELSE /\ trial' = [trial EXCEPT !.stage = "restoring", !.after = m]
            /\ UNCHANGED <<result, proven>>
  /\ UNCHANGED <<thread, saved, tried, late, storeFailed, lateWriters, skill, proposal>>

(* An operation throws or runs into timeBudget.  Before the snapshot there *)
(* is nothing to roll back; get() itself may throw out of the experiment,  *)
(* which testSkillRevision turns into a failure.                           *)
Fail(timedOut) ==
  /\ \/ trial.stage \in {"baseline", "snapshot"} /\ GoesTo("judged") /\ Judged(FALSE, FALSE, 0)
     \/ trial.stage \in {"applying", "measuring"} /\ GoesTo("restoring") /\ UNCHANGED result
  /\ timedOut => ~TrialAt("snapshot")
  /\ late' = IF timedOut THEN late \cup {tried} ELSE late
  /\ UNCHANGED <<thread, saved, tried, storeFailed, lateWriters, skill, proposal, proven>>

-----------------------------------------------------------------------------
(* _rollback(): delete the thread, put the snapshot; failures are dropped. *)

NoSnapshot == saved = <<>>
RollBackNothing ==
  /\ TrialAt("restoring") /\ NoSnapshot /\ GoesTo("judged") /\ Judged(FALSE, TRUE, 0)
  /\ UNCHANGED <<thread, saved, tried, late, storeFailed, lateWriters, skill, proposal, proven>>

\* Mutant: the thread keeps what the experiment wrote.
DeleteNothing ==
  /\ TrialAt("restoring") /\ ~NoSnapshot /\ GoesTo("putting")
  /\ UNCHANGED <<thread, saved, tried, late, storeFailed, lateWriters, result, skill, proposal, proven>>

DeleteThread ==
  /\ TrialAt("restoring") /\ ~NoSnapshot /\ GoesTo("putting")
  /\ thread' = <<>>
  /\ UNCHANGED <<saved, tried, late, storeFailed, lateWriters, result, skill, proposal, proven>>

PutSnapshot ==
  /\ TrialAt("putting") /\ GoesTo("judged") /\ Judged(FALSE, TRUE, 0)
  /\ thread' = thread \o saved
  /\ UNCHANGED <<saved, tried, late, storeFailed, lateWriters, skill, proposal, proven>>

StoreFails ==
  /\ (TrialAt("restoring") /\ ~NoSnapshot) \/ TrialAt("putting")
  /\ GoesTo("judged") /\ Judged(FALSE, TRUE, 0) /\ storeFailed' = TRUE
  /\ UNCHANGED <<thread, saved, tried, late, lateWriters, skill, proposal, proven>>

(* What timed out goes on.                                                 *)
LateWrite(n) ==
  /\ n \in late /\ Len(thread) < MaxCheckpoints
  /\ thread' = Append(thread, n)
  /\ lateWriters' = IF trial.stage \in {"putting", "judged", "rest"} THEN lateWriters \cup {n} ELSE lateWriters
  /\ UNCHANGED <<saved, trial, tried, late, storeFailed, result, skill, proposal, proven>>

LateEnd(n) ==
  /\ n \in late /\ late' = late \ {n}
  /\ UNCHANGED <<thread, saved, trial, tried, storeFailed, lateWriters, result, skill, proposal, proven>>

-----------------------------------------------------------------------------
(* commitOrRevert(): only a success is written, only if its content will   *)
(* do, and a failure to write is dropped.                                  *)
Commit ==
  /\ TrialAt("judged") /\ GoesTo("rest")
  /\ skill' \in IF result.success /\ proposal \notin BadRevisions THEN {skill, proposal} ELSE {skill}
  /\ proposal' = "none"
  /\ UNCHANGED <<thread, saved, tried, late, storeFailed, lateWriters, result, proven>>

ImprovementNext ==
  \/ Propose \/ WriteCheckpoint \/ MeasureBaseline \/ TakeSnapshot \/ Apply \/ Measure
  \/ \E timedOut \in BOOLEAN : Fail(timedOut)
  \/ RollBackNothing \/ DeleteThread \/ PutSnapshot \/ StoreFails
  \/ \E n \in 1..MaxExperiments : LateWrite(n) \/ LateEnd(n)
  \/ Commit

-----------------------------------------------------------------------------
(* After a rejected experiment the thread is at the checkpoint it had       *)
(* before the changes, and of what the experiment wrote nothing is left,    *)
(* but for what an operation whose clock had run out wrote after the thread *)
(* was deleted (experimental-executor.ts:126), and unless the store failed  *)
(* or there was no checkpoint before (experimental-executor.ts:117); an     *)
(* experiment that changed nothing for the better is never accepted; and    *)
(* the skill file holds only what was accepted and is fit to be put in a    *)
(* prompt (skill-evolver.ts:195).                                           *)
ExperimentsHonest ==
  /\ trial.stage \in Stages
  /\ trial.stage \in {"judged", "rest"} /\ result.rolledBack /\ ~storeFailed /\ saved # <<>> =>
       /\ lateWriters = {} => thread = saved
       /\ \A i \in DOMAIN thread : thread[i] = saved[1] \/ thread[i] \in lateWriters
       /\ \E i \in DOMAIN thread : thread[i] = saved[1]
  /\ result.success => result.gain >= Improvement
  /\ skill # "first" => skill \in proven \ BadRevisions
=============================================================================
