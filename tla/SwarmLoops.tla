----------------------------- MODULE SwarmLoops -----------------------------
(***************************************************************************)
(* The swarm templates that go round until a judge is content or a bound   *)
(* is reached: critique-refine, stepwise-verify, debate, hierarchical      *)
(* mesh, red-team, socratic elicitation, auto-research, tree of thought,   *)
(* adversarial development and the GAN loop (src/src/swarm/factories.ts,   *)
(* factories-advanced.ts, graph.ts).                                       *)
(*                                                                         *)
(* An action is the answer of an agent and what the template does with it  *)
(* before it calls the next one; what agents answer is free.  The loop     *)
(* counters are shared by the templates: rounds counts the outer loop,     *)
(* tries the inner one.  A template that fails throws what the agent       *)
(* threw and keeps nothing.                                                *)
(***************************************************************************)
EXTENDS Integers, FiniteSets, FiniteSetsExt, Sequences, SequencesExt

CONSTANTS
  LoopTemplates,  \* the templates to run
  RoundLimit,      \* maxRounds, maxIterations, maxDepth, maxSprints, maxQuestions, or stages
  RetryLimit,     \* maxRetries, maxRetriesPerSprint
  Negotiations,   \* adversarialDev: contractNegotiationRounds
  OnFailure,      \* stepwise: onStageFailure, "halt" or "skip"
  Dims,           \* rubric dimensions, coverage dimensions, GAN criteria
  CoverageKeys,   \* socratic: keys an interviewer may report, Dims among them
  GlobalTotal,    \* critique: globalThreshold, as a sum over Dims, 0 when none
  Scores,         \* scores an evaluator may give
  Threshold,      \* passThreshold, passingThreshold, completionThreshold (in dimensions), pruneThreshold
  PivotBelow,     \* GAN: pivotThreshold
  HardBelow,      \* GAN: hardThreshold of every criterion, 0 when none
  Teams,          \* mesh: number of teams
  Coordinators,   \* mesh: coordinator.strategy
  MaxQuestions,   \* auto-research: sub-questions of one answer
  MaxConcurrent,  \* auto-research: maxConcurrentSearches
  BranchFactor, TopK,
  Vulnerabilities, Significant  \* red-team: ids, and those at or above severityThreshold

ASSUME LoopAssumption ==
  /\ LoopTemplates \subseteq {"critique", "stepwise", "debate", "mesh", "redTeam", "socratic",
                              "research", "thought", "adversarial", "gan"}
  /\ RoundLimit \in Nat \ {0} /\ RetryLimit \in Nat /\ Negotiations \in Nat
  /\ OnFailure \in {"halt", "skip"}
  /\ IsFiniteSet(Dims) /\ Dims # {} /\ Scores \subseteq Nat /\ Threshold \in Nat
  /\ Dims \subseteq CoverageKeys /\ GlobalTotal \in Nat
  /\ Coordinators \subseteq {"llm", "round-robin", "rule"}
  /\ PivotBelow \in Nat /\ HardBelow \in Nat /\ Teams \in Nat \ {0}
  /\ MaxQuestions \in Nat /\ MaxConcurrent \in Nat \ {0}
  /\ BranchFactor \in Nat /\ TopK \in Nat
  /\ Significant \subseteq Vulnerabilities

VARIABLES
  loop,       \* the template of this behaviour
  at,         \* the agent whose answer is awaited, or "ended" or "threw"
  rounds,     \* rounds begun
  tries,      \* attempts in this round
  verdicts,   \* what the judging agent said last, empty before it spoke
  claim,      \* what the template's result says of the outcome
  work        \* what the rounds accumulated

loopVars == <<loop, at, rounds, tries, verdicts, claim, work>>

(* Where each template begins.                                             *)
FirstAgent(l) ==
  CASE l \in {"critique", "gan"} -> "generator" [] l = "stepwise" -> "worker"
    [] l = "debate" -> "kickoff" [] l = "mesh" -> "coordinator"
    [] l = "redTeam" -> "attacker" [] l = "socratic" -> IF Threshold = 0 THEN "synthesizer" ELSE "interviewer"
    [] l = "research" -> "decomposer" [] l = "thought" -> "thinker"
    [] OTHER -> "planner"

Branch(id, depth, parent, score) == [id |-> id, depth |-> depth, parent |-> parent, score |-> score]
Root == Branch(0, -1, -1, 1)

NoWork(l) ==
  CASE l = "thought" -> {[all |-> {}, pruned |-> {}, surviving |-> {Root}, next |-> 1]}
    [] l = "gan" -> {[best |-> 0, bestAt |-> 0]}
    [] l = "research" -> {[questions |-> 0, asked |-> 0, found |-> 0, inFlight |-> 0]}
    [] l = "mesh" -> [strategy : Coordinators, visited : {{}}]
    [] OTHER -> {{}}

LoopInit ==
  /\ loop \in LoopTemplates
  /\ at = FirstAgent(loop)
  /\ rounds = IF loop \in {"critique", "gan", "debate", "mesh"} THEN 0 ELSE 1
  /\ tries = 0
  /\ verdicts = <<>>
  /\ claim = "none"
  /\ work \in NoWork(loop)

Await(l, a) == loop = l /\ at = a
Ends(c) == at' = "ended" /\ claim' = c
GoesOn(a) == at' = a /\ UNCHANGED claim
Said(v) == verdicts' = <<v>>
SumOf(f) == FoldSet(LAMBDA d, sum : sum + f[d], 0, DOMAIN f)

-----------------------------------------------------------------------------
(* critique-refine: the generator counts the round, the critic approves,   *)
(* or scores as many dimensions of the rubric as it likes.  Scores missing *)
(* from its answer are not asked for; an answer without any does not pass. *)
(* work is the set of dimensions scored last.                              *)

Generate ==
  /\ loop \in {"critique", "gan"} /\ at = "generator"
  /\ rounds' = rounds + 1
  /\ GoesOn(IF loop = "gan" THEN "evaluator" ELSE "critic")
  /\ UNCHANGED <<loop, tries, verdicts, work>>

RubricPasses(scores) ==
  /\ DOMAIN scores # {}
  /\ \A d \in DOMAIN scores : scores[d] >= Threshold
  /\ SumOf(scores) >= GlobalTotal

Critique ==
  /\ Await("critique", "critic")
  /\ \E D \in SUBSET Dims : \E scores \in [D -> Scores] :
       /\ Said(RubricPasses(scores)) /\ work' = DOMAIN scores
       /\ IF RubricPasses(scores) \/ rounds >= RoundLimit
          THEN Ends(IF RubricPasses(scores) THEN "passed" ELSE "capped")
          ELSE GoesOn("generator")
  /\ UNCHANGED <<loop, rounds, tries>>

-----------------------------------------------------------------------------
(* stepwise-verify: a stage is tried until its verifier passes it or its   *)
(* retries are used; work holds the stages that passed.                    *)

WorkRestarted ==
  /\ Await("stepwise", "worker")
  /\ tries' = 1
  /\ GoesOn("verifier")
  /\ UNCHANGED <<loop, rounds, verdicts, work>>
Work ==
  /\ Await("stepwise", "worker")
  /\ tries' = tries + 1
  /\ GoesOn("verifier")
  /\ UNCHANGED <<loop, rounds, verdicts, work>>

(* Mutant: one attempt too few. *)
TriesLeftOff == tries < RetryLimit
TriesLeft == tries <= RetryLimit

Verify(passed) ==
  /\ Await("stepwise", "verifier")
  /\ Said(passed)
  /\ work' = IF passed THEN work \cup {rounds} ELSE work
  /\ IF ~passed /\ TriesLeft THEN GoesOn("worker") /\ UNCHANGED <<rounds, tries>>
     ELSE IF ~passed /\ OnFailure = "halt" THEN Ends("failed") /\ UNCHANGED <<rounds, tries>>
     ELSE /\ rounds' = rounds + 1 /\ tries' = 0
          /\ IF rounds = RoundLimit
             THEN Ends(IF work' = 1..RoundLimit THEN "passed" ELSE "skipped")
             ELSE GoesOn("worker")
  /\ UNCHANGED loop

-----------------------------------------------------------------------------
(* debate: supervisorRound counts the judge's turns.  The first one only   *)
(* sends the debaters off; consensus, the score spread included, or the    *)
(* last round ends it, and the result says "Consensus" in either case.     *)

KickOff ==
  /\ Await("debate", "kickoff")
  /\ rounds' = 1
  /\ GoesOn("debaters")
  /\ UNCHANGED <<loop, tries, verdicts, work>>

Debate ==
  /\ Await("debate", "debaters")
  /\ tries' = tries + 1
  /\ GoesOn("judge")
  /\ UNCHANGED <<loop, rounds, verdicts, work>>

(* Mutant: the last round is not held. *)
LastRoundEarly == rounds + 1 >= RoundLimit

LastRound == rounds + 1 > RoundLimit

Judge(consensus) ==
  /\ Await("debate", "judge")
  /\ Said(consensus)
  /\ rounds' = rounds + 1
  /\ IF consensus \/ LastRound THEN Ends("passed") ELSE GoesOn("debaters")
  /\ UNCHANGED <<loop, tries, work>>

-----------------------------------------------------------------------------
(* hierarchical mesh: the coordinator sends the state to one team after    *)
(* another.  The round-robin one visits every team in order and is done    *)
(* then, the llm and the rule one go where they are told, or are done; a   *)
(* team that says done ends the outer run.                                 *)

VisitedAll == rounds >= Teams

Sends(team) ==
  /\ work' = [work EXCEPT !.visited = @ \cup {team}]
  /\ rounds' = rounds + 1 /\ GoesOn("team")

Coordinate ==
  /\ Await("mesh", "coordinator")
  /\ \/ /\ rounds >= RoundLimit
        /\ Ends("capped") /\ UNCHANGED <<rounds, work>>
     \/ /\ rounds < RoundLimit /\ work.strategy = "round-robin"
        /\ IF VisitedAll THEN Ends("passed") /\ UNCHANGED <<rounds, work>> ELSE Sends(rounds + 1)
     \/ /\ rounds < RoundLimit /\ work.strategy \in {"llm", "rule"}
        /\ \/ Ends("passed") /\ rounds' = rounds + 1 /\ UNCHANGED work
           \/ \E team \in 1..Teams : Sends(team)
  /\ UNCHANGED <<loop, tries, verdicts>>

TeamReturns(done) ==
  /\ Await("mesh", "team")
  /\ Said(done)
  /\ IF done THEN Ends("passed") ELSE GoesOn("coordinator")
  /\ UNCHANGED <<loop, rounds, tries, work>>

-----------------------------------------------------------------------------
(* red-team: work is the set of findings of the rounds so far, each with   *)
(* its status.  A patch names the id of a finding, so it closes every      *)
(* finding of that id.                                                     *)

SignificantOf(found) == found \cap Significant

Attack(found) ==
  /\ Await("redTeam", "attacker")
  /\ LET new == SignificantOf(found) IN
     /\ Said(new = {})
     /\ work' = work \cup {[id |-> v, round |-> rounds, patched |-> FALSE] : v \in new}
     /\ IF new = {} THEN Ends("passed") ELSE GoesOn("builder")
  /\ UNCHANGED <<loop, rounds, tries>>

Patch(fixed) ==
  /\ Await("redTeam", "builder")
  /\ work' = {[f EXCEPT !.patched = @ \/ f.id \in fixed] : f \in work}
  /\ IF rounds = RoundLimit THEN Ends("capped") /\ UNCHANGED rounds
                          ELSE GoesOn("attacker") /\ rounds' = rounds + 1
  /\ UNCHANGED <<loop, tries, verdicts>>

-----------------------------------------------------------------------------
(* socratic: work is the set of keys the coverage map holds as true, of    *)
(* which the interviewer may report others than the dimensions asked for;  *)
(* it may uncover them again.  The answer of the respondent covers         *)
(* nothing.  tries counts the questions.                                   *)

Covered == Cardinality(work) >= Threshold

Ask(covered, uncovered) ==
  /\ Await("socratic", "interviewer")
  /\ work' = (work \cup covered) \ uncovered
  /\ GoesOn("respondent")
  /\ UNCHANGED <<loop, rounds, tries, verdicts>>

Respond ==
  /\ Await("socratic", "respondent")
  /\ tries' = tries + 1
  /\ Said(Covered)
  /\ GoesOn(IF Covered \/ tries' >= RoundLimit THEN "synthesizer" ELSE "interviewer")
  /\ UNCHANGED <<loop, rounds, work>>

Synthesize ==
  /\ Await("socratic", "synthesizer")
  /\ Ends(IF Covered THEN "passed" ELSE "capped")
  /\ UNCHANGED <<loop, rounds, tries, verdicts, work>>

-----------------------------------------------------------------------------
(* auto-research: a depth decomposes into sub-questions, researches them   *)
(* in batches, and synthesizes a confidence and the gaps that are left.    *)

Decompose(n) ==
  /\ Await("research", "decomposer")
  /\ work' = [work EXCEPT !.questions = n, !.asked = 0, !.found = 0]
  /\ IF n = 0 THEN Ends("capped") ELSE GoesOn("researchers")
  /\ UNCHANGED <<loop, rounds, tries, verdicts>>

Cap == IF work.questions < MaxConcurrent THEN work.questions ELSE MaxConcurrent

StartBatch ==
  /\ Await("research", "researchers") /\ work.inFlight = 0 /\ work.asked < work.questions
  /\ LET left == work.questions - work.asked
         size == IF left < Cap THEN left ELSE Cap IN
     work' = [work EXCEPT !.asked = @ + size, !.inFlight = size]
  /\ UNCHANGED <<loop, at, rounds, tries, verdicts, claim>>

ResearcherAnswers ==
  /\ Await("research", "researchers") /\ work.inFlight > 0
  /\ work' = [work EXCEPT !.inFlight = @ - 1, !.found = @ + 1]
  /\ GoesOn(IF work'.found = work.questions THEN "synthesizer" ELSE "researchers")
  /\ UNCHANGED <<loop, rounds, tries, verdicts>>

Conclude(confident, gaps) ==
  /\ Await("research", "synthesizer")
  /\ Said(confident \/ ~gaps)
  /\ IF confident \/ ~gaps THEN Ends("passed") /\ UNCHANGED rounds
     ELSE IF rounds = RoundLimit THEN Ends("capped") /\ UNCHANGED rounds
     ELSE GoesOn("decomposer") /\ rounds' = rounds + 1
  /\ UNCHANGED <<loop, tries, work>>

-----------------------------------------------------------------------------
(* tree of thought: every surviving branch gets BranchFactor children,     *)
(* they are scored, those below the threshold and those after the topK     *)
(* best are pruned.  A branch is named here by its place among the         *)
(* expansions; the code numbers children as their thinkers answer, which   *)
(* tells them apart as well.                                               *)

(* A stable sort by descending score, cut at topK.                         *)
Before(b, c) == b.score > c.score \/ (b.score = c.score /\ b.id < c.id)
RankIn(b, S) == Cardinality({c \in S : Before(c, b)})
KeptOf(S) == {b \in S : RankIn(b, S) < TopK}

Children(ids, score) ==
  {Branch(i, rounds - 1,
          (CHOOSE p \in work.surviving :
             RankIn(p, work.surviving) = (i - work.next) \div BranchFactor).id,
          score[i]) : i \in ids}

Think ==
  /\ Await("thought", "thinker")
  /\ LET ids == work.next..(work.next + BranchFactor * Cardinality(work.surviving) - 1) IN
     \E score \in [ids -> Scores] :
       LET scored == Children(ids, score)
           above == {b \in scored : b.score >= Threshold}
           kept == KeptOf(above) IN
       /\ work' = [all |-> work.all \cup scored, pruned |-> work.pruned \cup (scored \ kept),
                   surviving |-> kept, next |-> work.next + Cardinality(ids)]
       /\ IF kept = {} \/ rounds = RoundLimit
          THEN Ends(IF kept = {} THEN "failed" ELSE "passed") /\ UNCHANGED rounds
          ELSE GoesOn("thinker") /\ rounds' = rounds + 1
  /\ UNCHANGED <<loop, tries, verdicts>>

(* reduce keeps the first of the branches with the best score.             *)
Selected ==
  IF work.surviving = {} THEN {}
  ELSE {CHOOSE b \in work.surviving : \A c \in work.surviving : b = c \/ Before(b, c)}

-----------------------------------------------------------------------------
(* adversarial development: a sprint is planned, its contract negotiated,  *)
(* then generated and evaluated until it passes or its retries are used.   *)
(* work holds the sprints that passed.                                     *)

Plan(done) ==
  /\ Await("adversarial", "planner")
  /\ tries' = 0
  /\ IF done THEN Ends("passed") ELSE GoesOn(IF Negotiations = 0 THEN "builder" ELSE "negotiators")
  /\ UNCHANGED <<loop, rounds, verdicts, work>>

Negotiate ==
  /\ Await("adversarial", "negotiators")
  /\ tries' = IF tries + 1 = Negotiations THEN 0 ELSE tries + 1
  /\ GoesOn(IF tries + 1 = Negotiations THEN "builder" ELSE "negotiators")
  /\ UNCHANGED <<loop, rounds, verdicts, work>>

Build ==
  /\ Await("adversarial", "builder")
  /\ tries' = tries + 1
  /\ GoesOn("evaluator")
  /\ UNCHANGED <<loop, rounds, verdicts, work>>

Evaluate(score) ==
  /\ Await("adversarial", "evaluator")
  /\ LET passed == score >= Threshold IN
     /\ Said(passed)
     /\ work' = IF passed THEN work \cup {rounds} ELSE work
     /\ IF ~passed /\ TriesLeft THEN GoesOn("builder") /\ UNCHANGED rounds
        ELSE IF rounds = RoundLimit THEN Ends("capped") /\ UNCHANGED rounds
        ELSE GoesOn("planner") /\ rounds' = rounds + 1
  /\ UNCHANGED <<loop, tries>>

-----------------------------------------------------------------------------
(* GAN loop: the composite of the weighted scores, here their sum, decides *)
(* accept, pivot or refine; a criterion below its hard threshold cannot be *)
(* accepted, one that the evaluator does not score counts nothing.  The    *)
(* best composite so far is kept with its iteration.  stop is what the     *)
(* onIteration callback answers.                                           *)

Decision(composite, hardFail) ==
  IF ~hardFail /\ composite >= Threshold * Cardinality(Dims) THEN "accept"
  ELSE IF composite < PivotBelow * Cardinality(Dims) THEN "pivot" ELSE "refine"

ScoreRound(scores, stop) ==
  /\ Await("gan", "evaluator")
  /\ LET composite == SumOf(scores)
         hardFail == \E d \in DOMAIN scores : scores[d] < HardBelow
         decision == Decision(composite, hardFail) IN
     /\ Said(~hardFail)
     /\ work' = IF composite > work.best THEN [best |-> composite, bestAt |-> rounds] ELSE work
     /\ IF decision = "accept" THEN Ends("passed")
        ELSE IF rounds >= RoundLimit \/ stop THEN Ends("capped")
        ELSE GoesOn("generator")
  /\ UNCHANGED <<loop, rounds, tries>>

-----------------------------------------------------------------------------
(* What an agent throws, the template throws.                              *)
AgentThrows ==
  /\ at \notin {"ended", "threw", "kickoff"}
  /\ at' = "threw"
  /\ UNCHANGED <<loop, rounds, tries, verdicts, claim, work>>

AgentStep ==
  \/ Generate \/ Critique \/ Work \/ KickOff \/ Debate \/ Coordinate
  \/ Respond \/ Synthesize \/ StartBatch \/ ResearcherAnswers \/ Think
  \/ Negotiate \/ Build
  \/ \E b \in BOOLEAN : Verify(b) \/ Judge(b) \/ TeamReturns(b) \/ Plan(b)
  \/ \E F \in SUBSET Vulnerabilities : Attack(F) \/ Patch(F)
  \/ \E C, U \in SUBSET CoverageKeys : Ask(C, U)
  \/ \E n \in 0..MaxQuestions : Decompose(n)
  \/ \E confident, gaps \in BOOLEAN : Conclude(confident, gaps)
  \/ \E s \in Scores : Evaluate(s)
  \/ \E D \in SUBSET Dims, stop \in BOOLEAN : \E scores \in [D -> Scores] : ScoreRound(scores, stop)

LoopNext == AgentStep \/ AgentThrows

(* Agents answer.                                                          *)
LoopFairness == WF_loopVars(LoopNext)
LoopSpec == LoopInit /\ [][LoopNext]_loopVars /\ LoopFairness

-----------------------------------------------------------------------------
(* A result that says the work passed rests on the last verdict of the     *)
(* agent that judges it; but a debate that has held its last round reports *)
(* "Consensus" whatever the judge said (factories.ts:393), and none before *)
(* it does so without.  A result that failed had every attempt it is       *)
(* allowed: of the templates that retry a stage or a sprint, no stage is   *)
(* given up early nor tried once too often (factories-advanced.ts:163,     *)
(* 1152), and a GAN iteration that fails a hard threshold is never         *)
(* accepted (graph.ts:569).                                                *)
VerdictsAreEarned ==
  /\ claim = "passed" /\ loop \in {"critique", "stepwise", "redTeam", "gan", "research"} =>
       verdicts # <<>> /\ Last(verdicts)
  /\ claim = "passed" /\ loop = "debate" =>
       verdicts # <<>> /\ (Last(verdicts) \/ rounds > RoundLimit)
  /\ loop \in {"stepwise", "adversarial"} /\ at \in {"builder", "worker"} => tries <= RetryLimit
  /\ Await("stepwise", "ended") /\ claim = "failed" => tries = RetryLimit + 1
  /\ loop = "adversarial" /\ at = "planner" /\ rounds > 1 /\ rounds - 1 \notin work => tries = RetryLimit + 1
  /\ loop = "redTeam" => \A f \in work : f.id \in Significant
  /\ loop = "mesh" /\ claim = "passed" /\ work.strategy = "round-robin" =>
       work.visited = 1..Teams \/ (verdicts # <<>> /\ Last(verdicts))

(* Every branch that was scored either survives, has children or was       *)
(* pruned, never two of these, and the branch selected at the end is none  *)
(* that was pruned and at most TopK survived (factories-advanced.ts:985).  *)
BranchesAccounted ==
  loop = "thought" =>
    /\ work.surviving \cap work.pruned = {}
    /\ \A b \in work.all : b \notin work.pruned =>
         b \in work.surviving \/ \E c \in work.all : c.parent = b.id
    /\ \A b \in work.pruned : ~\E c \in work.all : c.parent = b.id
    /\ work.surviving # {Root} => Cardinality(work.surviving) <= TopK
    /\ Cardinality(work.all) = work.next - 1
    /\ at = "ended" => Selected \subseteq work.surviving /\ (Selected = {} <=> work.surviving = {})

(* Every loop ends when its agents answer, whatever they answer.           *)
LoopsEnd == <>(at \in {"ended", "threw"})
=============================================================================
