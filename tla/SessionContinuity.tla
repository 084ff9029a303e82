-------------------------- MODULE SessionContinuity --------------------------
(***************************************************************************)
(* What lets one session of an agent go on where another stopped.          *)
(*                                                                         *)
(* From one session to the next: the bridge that keeps the artifacts of    *)
(* ended sessions (src/src/harness/SessionBridge.ts), the check of the     *)
(* environment before a session works (SessionInit.ts) and the reset that  *)
(* ends one (ContextReset.ts).  Several agents, each with its own bridge,  *)
(* share the artifact directory.  Each closing and opening has a moment of *)
(* its own.  Summaries, notes and prompts are left out.                    *)
(*                                                                         *)
(* Back to an earlier step: the workspace checkpointer                     *)
(* (WorkspaceCheckpointer.ts), of which each checkpoint of a thread is a   *)
(* row of the database and, if files changed, a commit of the workspace;   *)
(* rollbackTo() takes both back.  The content of the workspace is a        *)
(* number, and so is a commit.  A row remembers the content it was put     *)
(* with, which the code does not.                                          *)
(***************************************************************************)
EXTENDS Integers, Sequences, FiniteSets

CONSTANTS
  Agents,
  FeatureIds,     \* the registry's features, by priority
  OnBroken,       \* onBrokenEnvironment: "throw", "warn", "fix"
  NoArtifact,
  MaxMoments, MaxBreaks  \* bounds: moments before the last opening, breakdowns

ASSUME HandoverAssumption ==
  /\ OnBroken \subseteq {"throw", "warn", "fix"} /\ FeatureIds \subseteq Nat
  /\ MaxMoments \in Nat /\ MaxBreaks \in Nat

VARIABLES
  onBroken,
  time, breaks,
  artifacts,   \* the session files
  bridge,      \* of each agent: opened, the session, what it resumes from
  stage,       \* of runSessionInit and execute, for each agent
  healthy,     \* environmentHealthy
  tested,      \* a smoke test was run
  environment, \* whether the environment works
  verdict,     \* ghost: how the environment was when the last smoke test ended, and whether fixed since
  done,        \* features that pass
  toDo         \* ContextReset: the next feature it has read

handoverVars == <<onBroken, time, breaks, artifacts, bridge, stage, healthy, tested, environment, verdict, done, toDo>>

Closed == [opened |-> FALSE, session |-> 0, from |-> NoArtifact]

HandoverInit ==
  /\ onBroken \in OnBroken /\ time = 0 /\ breaks = 0 /\ artifacts = {}
  /\ bridge = [a \in Agents |-> Closed] /\ stage = [a \in Agents |-> "off"]
  /\ healthy = [a \in Agents |-> TRUE] /\ tested = [a \in Agents |-> FALSE]
  /\ environment = TRUE /\ verdict = [a \in Agents |-> "none"]
  /\ done = {} /\ toDo = [a \in Agents |-> 0]

NextToDo(passing) == LET rest == FeatureIds \ passing IN
  IF rest = {} THEN 0 ELSE CHOOSE f \in rest : \A g \in rest : f <= g

Goes(a, from, to) == stage[a] = from /\ stage' = [stage EXCEPT ![a] = to]

-----------------------------------------------------------------------------
(* open(): resume from the artifact that ended last, or begin.             *)

LatestArtifact ==
  IF artifacts = {} THEN NoArtifact ELSE CHOOSE x \in artifacts : \A y \in artifacts : y.endedAt <= x.endedAt

(* Without a prior session, or without a smoke test, nothing is tested. *)
Opens(a, smokeTest) ==
  /\ time < MaxMoments
  /\ Goes(a, "off", IF artifacts # {} /\ smokeTest THEN "testing" ELSE "ready")
  /\ time' = time + 1
  /\ bridge' = [bridge EXCEPT ![a] = [opened |-> TRUE, session |-> time', from |-> LatestArtifact]]
  /\ healthy' = [healthy EXCEPT ![a] = TRUE] /\ tested' = [tested EXCEPT ![a] = artifacts # {} /\ smokeTest]
  /\ verdict' = [verdict EXCEPT ![a] = "none"]
  /\ UNCHANGED <<onBroken, breaks, artifacts, environment, done, toDo>>

(* The smoke test answers in time, or does not, which counts as broken. *)
AfterTest(broken) == IF ~broken THEN "ready" ELSE
  CASE onBroken = "fix" -> "fixing" [] onBroken = "throw" -> "threw" [] OTHER -> "ready"

Answers(a, result) ==
  /\ healthy' = [healthy EXCEPT ![a] = result]
  /\ verdict' = [verdict EXCEPT ![a] = IF result THEN "passed" ELSE "failed"]
  /\ UNCHANGED <<onBroken, time, breaks, artifacts, bridge, tested, environment, done, toDo>>

SmokeTest(a) ==
  \E result \in {environment, FALSE} : Goes(a, "testing", AfterTest(~result)) /\ Answers(a, result)

(* The fixer repairs the environment, or does not, or throws; what it did  *)
(* is tested again unless it threw.                                        *)
Fixes(a) ==
  /\ Goes(a, "fixing", "retesting")
  /\ environment' \in {environment, TRUE}
  /\ verdict' = [verdict EXCEPT ![a] = "fixed"]
  /\ UNCHANGED <<onBroken, time, breaks, artifacts, bridge, healthy, tested, done, toDo>>

FixerThrows(a) ==
  /\ Goes(a, "fixing", "ready")
  /\ UNCHANGED <<onBroken, time, breaks, artifacts, bridge, healthy, tested, environment, verdict, done, toDo>>

TestsAgain(a) ==
  \E result \in {environment, FALSE} : Goes(a, "retesting", "ready") /\ Answers(a, result)

EnvironmentBreaks ==
  /\ environment /\ breaks < MaxBreaks
  /\ environment' = FALSE /\ breaks' = breaks + 1
  /\ UNCHANGED <<onBroken, time, artifacts, bridge, stage, healthy, tested, verdict, done, toDo>>

-----------------------------------------------------------------------------
(* The session works, and is ended by a reset: it reads the next feature,  *)
(* which is awaited, and closes the bridge.  Without a registry there is   *)
(* no next feature.                                                        *)

Passes(a, f) ==
  /\ stage[a] = "ready" /\ f \notin done /\ done' = done \cup {f}
  /\ UNCHANGED <<onBroken, time, breaks, artifacts, bridge, stage, healthy, tested, environment, verdict, toDo>>

Resets(a) ==
  /\ Goes(a, "ready", "closing")
  /\ toDo' = [toDo EXCEPT ![a] = NextToDo(done)]
  /\ UNCHANGED <<onBroken, time, breaks, artifacts, bridge, healthy, tested, environment, verdict, done>>

Closes(a) ==
  /\ bridge[a].opened /\ Goes(a, "closing", "off")
  /\ time' = time + 1
  /\ artifacts' = artifacts \cup
       {[session |-> bridge[a].session, startedAt |-> bridge[a].session, endedAt |-> time',
         previous |-> IF bridge[a].from = NoArtifact THEN 0 ELSE bridge[a].from.session,
         next |-> toDo[a]]}
  /\ bridge' = [bridge EXCEPT ![a] = Closed]
  /\ UNCHANGED <<onBroken, breaks, healthy, tested, environment, verdict, done, toDo>>

(* A session that crashes, or that was not let in, leaves no artifact. *)
Ends(a) ==
  /\ stage[a] # "off" /\ stage' = [stage EXCEPT ![a] = "off"]
  /\ bridge' = [bridge EXCEPT ![a] = Closed]
  /\ UNCHANGED <<onBroken, time, breaks, artifacts, healthy, tested, environment, verdict, done, toDo>>

HandoverNext ==
  \/ \E a \in Agents :
       \/ \E smokeTest \in BOOLEAN : Opens(a, smokeTest)
       \/ SmokeTest(a) \/ Fixes(a) \/ FixerThrows(a) \/ TestsAgain(a)
       \/ \E f \in FeatureIds : Passes(a, f)
       \/ Resets(a) \/ Closes(a) \/ Ends(a)
  \/ EnvironmentBreaks

HandoverSpec == HandoverInit /\ [][HandoverNext]_handoverVars

-----------------------------------------------------------------------------
(* A session goes on from the one that ended last before it began, however *)
(* sessions overlapped and crashed in between, and each link of the chain  *)
(* of artifacts points to a session that had ended by then                 *)
(* (harness/SessionBridge.ts:77); one that is let in with a word on its    *)
(* environment has that word from a test made after the last fix           *)
(* (harness/SessionInit.ts:77), and under "throw" the word is good.        *)
ResumesSoundly ==
  /\ \A a \in Agents : bridge[a].opened =>
       LET before == {x \in artifacts : x.endedAt < bridge[a].session} IN
       IF before = {} THEN bridge[a].from = NoArtifact
       ELSE bridge[a].from \in before /\ \A x \in before : x.endedAt <= bridge[a].from.endedAt
  /\ \A x \in artifacts : x.previous # 0 =>
       \E y \in artifacts : y.session = x.previous /\ y.endedAt < x.startedAt
  /\ \A a \in Agents : stage[a] = "ready" /\ tested[a] =>
       /\ healthy[a] <=> verdict[a] = "passed"
       /\ onBroken = "throw" => healthy[a]

-----------------------------------------------------------------------------
(* The workspace checkpointer.                                             *)

CONSTANTS MaxStep, MaxContents, MaxPuts  \* bounds: steps, contents, puts of one step

ASSUME HistoryAssumption == MaxStep \in Nat /\ MaxContents \in Nat /\ MaxPuts \in Nat

VARIABLES
  gitAvailable,
  tree,       \* the content of the workspace
  contents,   \* contents seen so far
  commits,    \* the content of each commit
  head,       \* the commit checked out, 0 for none
  rows,       \* the rows of the thread: step and, as a ghost, content
  mappings,   \* the file of commit mappings, in the order written
  putTimes,   \* ghost: how often each step was put
  rollback    \* the rollback under way: target, stage, kept rows

historyVars == <<gitAvailable, tree, contents, commits, head, rows, mappings, putTimes, rollback>>

HistorySteps == 1..MaxStep
NoRollback == [stage |-> "none", target |-> 0, kept |-> {}, before |-> {}]
Row(step, content) == [step |-> step, content |-> content]

HistoryInit ==
  /\ gitAvailable \in BOOLEAN
  /\ tree = 0 /\ contents = 0 /\ commits = <<>> /\ head = 0
  /\ rows = {} /\ mappings = <<>> /\ putTimes = [s \in HistorySteps |-> 0]
  /\ rollback = NoRollback

Idle == rollback.stage = "none"
CommittedTree == IF head = 0 THEN 0 ELSE commits[head]
LastStep == IF rows = {} THEN 0 ELSE CHOOSE s \in {r.step : r \in rows} : \A r \in rows : r.step <= s

(* A node changes files. *)
Works ==
  /\ Idle /\ contents < MaxContents
  /\ contents' = contents + 1 /\ tree' = contents'
  /\ UNCHANGED <<gitAvailable, commits, head, rows, mappings, putTimes, rollback>>

(* git add, status, commit, rev-parse, and the mapping of the commit; a    *)
(* git command that fails leaves the row without a commit or mapping.      *)
Dirty == tree # CommittedTree
Commits(step) ==
  /\ commits' = Append(commits, tree) /\ head' = Len(commits')
  /\ mappings' \in {Append(mappings, [step |-> step, commit |-> head']), mappings}

(* put(): the next step of the thread, as the engine goes on from get(). *)
Put(step) ==
  /\ Idle /\ step = LastStep + 1 /\ putTimes[step] < MaxPuts
  /\ rows' = {r \in rows : r.step # step} \cup {Row(step, tree)}
  /\ putTimes' = [putTimes EXCEPT ![step] = @ + 1]
  /\ \/ gitAvailable /\ Dirty /\ Commits(step)
     \/ UNCHANGED <<commits, head, mappings>>
  /\ UNCHANGED <<gitAvailable, tree, contents, rollback>>

-----------------------------------------------------------------------------
(* rollbackTo(): stash and checkout, then list, delete and put again, each *)
(* awaited; a crash in between leaves what was done.                       *)

MappingsOf(step) == {i \in DOMAIN mappings : mappings[i].step = step}
FirstMapping(step) == mappings[CHOOSE i \in MappingsOf(step) : \A j \in MappingsOf(step) : i <= j]
OtherMapping(step) == mappings[1]
MappingFor(step) == FirstMapping(step)

RollsBack(step) ==
  /\ Idle /\ gitAvailable /\ MappingsOf(step) # {}
  /\ head' = MappingFor(step).commit /\ tree' = commits[head']
  /\ rollback' = [stage |-> "checked out", target |-> step, kept |-> {}, before |-> rows]
  /\ UNCHANGED <<gitAvailable, contents, commits, rows, mappings, putTimes>>

(* The changes are in the stash, but the commit cannot be checked out. *)
CheckoutFails(step) ==
  /\ Idle /\ gitAvailable /\ MappingsOf(step) # {}
  /\ tree' = CommittedTree
  /\ UNCHANGED <<gitAvailable, contents, commits, head, rows, mappings, putTimes, rollback>>

Later(r) == r.step > rollback.target
Lists ==
  /\ rollback.stage = "checked out"
  /\ rollback' = [rollback EXCEPT !.stage = "listed", !.kept = {r \in rows : ~Later(r)}]
  /\ UNCHANGED <<gitAvailable, tree, contents, commits, head, rows, mappings, putTimes>>

DeletesThread ==
  /\ rollback.stage = "listed"
  /\ rows' = {} /\ rollback' = [rollback EXCEPT !.stage = "putting"]
  /\ UNCHANGED <<gitAvailable, tree, contents, commits, head, mappings, putTimes>>

PutsBack(r) ==
  /\ rollback.stage = "putting" /\ r \in rollback.kept \ rows
  /\ rows' = rows \cup {r}
  /\ UNCHANGED <<gitAvailable, tree, contents, commits, head, mappings, putTimes, rollback>>

RolledBack ==
  /\ rollback.stage = "putting" /\ rows = rollback.kept
  /\ rollback' = [rollback EXCEPT !.stage = "done"]
  /\ UNCHANGED <<gitAvailable, tree, contents, commits, head, rows, mappings, putTimes>>

(* The engine resumes from what get() returns, or after a crash from what  *)
(* is left.                                                                *)
Resumes ==
  /\ ~Idle /\ rollback' = NoRollback
  /\ UNCHANGED <<gitAvailable, tree, contents, commits, head, rows, mappings, putTimes>>

HistoryNext ==
  \/ Works
  \/ \E s \in HistorySteps : Put(s) \/ RollsBack(s) \/ CheckoutFails(s)
  \/ Lists \/ DeletesThread \/ RolledBack \/ Resumes
  \/ \E r \in rollback.kept : PutsBack(r)

HistorySpec == HistoryInit /\ [][HistoryNext]_historyVars

-----------------------------------------------------------------------------
(* A rollback that ended has taken the thread back to its target: of the   *)
(* history there is all up to the target and nothing after it, so that     *)
(* get() returns the target ("This is critical",                           *)
(* harness/WorkspaceCheckpointer.ts:148), and if the target was put once   *)
(* the workspace has the content it had then.                              *)
RollbackRestores ==
  rollback.stage = "done" =>
    /\ rows = {r \in rollback.before : r.step <= rollback.target}
    /\ \A r \in rows : r.step = rollback.target /\ putTimes[r.step] = 1 => tree = r.content
=============================================================================
