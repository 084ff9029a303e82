-------------------------- MODULE MCSwarmTemplates --------------------------
(***************************************************************************)
(* The templates of a swarm that call agents at once, those that go round, *)
(* and the scaling monitor.  They share no state: a behaviour is about the *)
(* one in focus, and the others rest.                                      *)
(***************************************************************************)
EXTENDS SwarmParallel, SwarmLoops, SwarmScaling

VARIABLE focus
templateVars == <<focus, parallelVars, loopVars, scalingVars>>

(* A template that has thrown does nothing more. *)
ParallelRests ==
  /\ template = "race" /\ deps = [t \in Tasks |-> {}] /\ poolStrategy = "round-robin"
  /\ slotOf = [t \in Tasks |-> 0] /\ present = Slots
  /\ node = "threw" /\ stage = [t \in Tasks |-> "settled"]
  /\ outcome = [t \in Tasks |-> "none"] /\ call = [t \in Tasks |-> "none"]
  /\ winner = 0 /\ signalled = FALSE /\ recorded = [t \in Tasks |-> "none"]
LoopRests ==
  /\ loop = "critique" /\ at = "threw" /\ rounds = 0 /\ tries = 0
  /\ verdicts = <<>> /\ claim = "none" /\ work = {}

TemplatesInit ==
  /\ ScalingInit
  /\ \/ focus = "parallel" /\ ParallelInit /\ LoopRests
     \/ focus = "loop" /\ ParallelRests /\ LoopInit
     \/ focus = "scaling" /\ ParallelRests /\ LoopRests

TemplatesNext ==
  /\ UNCHANGED focus
  /\ \/ focus = "parallel" /\ ParallelNext /\ UNCHANGED <<loopVars, scalingVars>>
     \/ focus = "loop" /\ LoopNext /\ UNCHANGED <<parallelVars, scalingVars>>
     \/ focus = "scaling" /\ ScalingNext /\ UNCHANGED <<parallelVars, loopVars>>

TemplatesSpec ==
  TemplatesInit /\ [][TemplatesNext]_templateVars /\ ParallelFairness /\ LoopFairness

(* Whatever agents, timeouts and judges answer, no template claims a result *)
(* it has not earned, and none of its answers, branches or dependencies     *)
(* goes missing (swarm/factories.ts, factories-advanced.ts, graph.ts). What *)
(* a debate says at its last round is no such claim: it says Consensus then *)
(* whatever the judge answered (factories.ts:393).                          *)
ResultsAreEarned ==
  /\ AcceptedResultWins /\ EveryTaskAnsweredOnce /\ DependenciesFirst
  /\ VerdictsAreEarned /\ BranchesAccounted

(* Every template ends: those that call agents at once, and those that go   *)
(* round.                                                                   *)
TemplatesEnd == ParallelEnds /\ LoopsEnd

-----------------------------------------------------------------------------
(* A chain, a graph with two roots, and one with a cycle. *)
Chain == [t \in Tasks |-> 1..(t - 1)]
Roots == [t \in Tasks |-> IF t = 1 THEN {3} ELSE {}]
Cycle == [t \in Tasks |-> CASE t = 1 -> {3} [] t = 3 -> {1} [] OTHER -> {}]
Graphs == {Chain, Roots, Cycle}
=============================================================================
