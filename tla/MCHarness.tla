------------------------------ MODULE MCHarness ------------------------------
(***************************************************************************)
(* What guards the agents of the harness and of a graph, and what the      *)
(* harness keeps on disk from one session of an agent to the next: shared  *)
(* files under a lock, the commits and rows of a workspace, the artifacts  *)
(* handed over, the experiments with its skills, and the memory.  They     *)
(* share no state: a behaviour is about the one in focus, and the others   *)
(* stay as they were at first.                                             *)
(***************************************************************************)
EXTENDS HarnessFiles, SessionContinuity, HarnessMemory, SelfImprovement, ToolGate, ReactAgents

(***************************************************************************)
(* Two tools, a protected one that runs commands and one that writes       *)
(* files; "link" is a file of the workspace that leads out of it.  Three   *)
(* agents, one of them a functional one.                                   *)
(***************************************************************************)
CONSTANTS workspace, readme, secret, link, outside, build, wipe, shell, writer, ghost

Value(type, size, text) ==
  [type |-> type, size |-> size, text |-> text, items |-> <<>>, fields |-> <<>>]
Object(fields) == [Value("object", 0, "none") EXCEPT !.fields = fields]
Text(text) == Value("string", 1, text)
Null == Value("null", 0, "none")
List(items) == [Value("array", 0, "none") EXCEPT !.items = items]

Schema(type) == [type |-> type, enum |-> {}, min |-> 0, max |-> 2, items |-> <<>>,
                 properties |-> <<>>, required |-> {}]
WriterSchema == [Schema("object") EXCEPT
  !.required = {"path"},
  !.properties = "path" :> Schema("any") @@ "mode" :> [Schema("integer") EXCEPT !.max = 1]]
ShellSchema == [Schema("object") EXCEPT !.required = {"command"},
                                        !.properties = "command" :> Schema("string")]

TheTools ==
  writer :> [safe |-> TRUE, schema |-> WriterSchema, rewrites |-> TRUE, online |-> FALSE] @@
  shell  :> [safe |-> FALSE, schema |-> ShellSchema, rewrites |-> FALSE, online |-> TRUE]

Write(path) == [tool |-> writer, args |-> Object("path" :> path)]
Run(command) == [tool |-> shell, args |-> Object("command" :> Text(command))]
TheCalls == {Write(Text(readme)), Write(Text(link)), Write(List(<<Text(readme), Text(secret)>>)),
             Write(Null), Run(build), Run(wipe), [tool |-> ghost, args |-> Object(<<>>)],
             [Write(Text(readme)) EXCEPT !.args.fields = @ @@ "mode" :> Value("integer", 2, "none")]}
TheBatches == {<<c>> : c \in TheCalls \ {Write(Text(readme)), Run(build)}}
  \cup {<<Write(Text(readme)), Write(Text(link))>>, <<Run(build), Write(Text(readme))>>}

Asks(kind, tools) == [kind |-> kind, tools |-> tools, prefix |-> build]
Hook(matcher, timed) == [matcher |-> matcher, timed |-> timed, guardrail |-> FALSE]
Guardrails == [matcher |-> Asks("any", {}), timed |-> FALSE, guardrail |-> TRUE]
TheHookLists == {<< <<Guardrails>>, <<Hook(Asks("tools", {writer}), TRUE)>> >>,
                 << <<Hook(Asks("argument", {shell}), FALSE), Guardrails>> >>}
TheLateHooks == {Hook(Asks("any", {}), FALSE)}
TheReplies ==
  {[decision |-> d, modified |-> Unmodified] :
      d \in {"block", "escalate", "deny", "void", "throw", "timeout"}}
  \cup {[decision |-> d, modified |-> Object("path" :> Text(readme) @@ "mode" :> Value("integer", 1, "none"))] :
      d \in {"allow"}}

ThePaths == {workspace, readme, secret, link, outside}
TheWithin == {<<p, p>> : p \in ThePaths} \cup {<<p, workspace>> : p \in {readme, secret, link}}
TheReal == [p \in ThePaths |-> IF p = link THEN outside ELSE p]
Scope(allowed, commands, network) ==
  [allowedPaths |-> allowed, disallowedPaths |-> {secret}, allowedCommands |-> commands,
   network |-> network]
TheScopes == {Scope(Unset, {build}, "full"), Scope({readme}, {}, "full"),
              Scope({outside, readme}, {build}, "none")}
OfType(type, names) == [type : {type}, name : names]
TheGrants ==
  {[status |-> "active", capabilities |-> OfType("tool", {writer, shell})
        \cup OfType("command", {build}) \cup OfType("network", {"network"})],
   [status |-> "revoked", capabilities |-> OfType("tool", {writer, shell})],
   [status |-> "active", capabilities |-> OfType("tool", {shell}) \cup OfType("network", {"network"})]}
TheTexts == {<<build, build>>}

CONSTANTS researcher, editor, helper, search, publish, delete, t1, t2, opus

TheThreads == [a \in {researcher, editor, helper} |-> IF a = researcher THEN t1 ELSE t2]
TheirTools == [a \in {researcher, editor, helper} |-> {search, publish, delete}]
ThePermissions == researcher :> {search, publish} @@ editor :> {AllTools} @@ helper :> {}
TheModels == researcher :> opus @@ editor :> "unpriced" @@ helper :> opus
TheCallLists == {<<>>, <<"missing", publish>>, <<search, delete>>}
TheTeams == {{researcher, editor}, {helper}}
TheUsages == {[input |-> 1, output |-> 1], [input |-> NaN, output |-> 1]}
ThePrices == opus :> <<1, 2>>
TheBudgets ==
  {[perAgent |-> Unlimited, perRun |-> 2, cost |-> Unlimited, mode |-> m] : m \in {"error", "warn"}}
  \cup {[perAgent |-> 1, perRun |-> Unlimited, cost |-> 3, mode |-> "error"]}

Quiet == /\ GateInit /\ registered = [e \in HookEvents |-> <<>>] /\ guarded = {shell}
         /\ scope = Scope(Unset, {build}, "full") /\ grant.status = "revoked"
Resting == AgentsInit /\ budget.mode = "warn" /\ runs[helper] = 0

-----------------------------------------------------------------------------
CONSTANTS soul, guide, s1, s2, s3

(* The agents of three sessions, of which one may crash, so that the other  *)
(* two may find its lock file.                                              *)
ThreeAgents == {[who |-> {s1, s2, s3}, crashes |-> 1]}

SoulAndGuide == {Key("notes", 0, soul), Key("notes", 0, guide)}
TheirFiles == [n \in SoulAndGuide |-> IF n.who = soul THEN File(0, 1, {}) ELSE File(3, 2, {})]
SmallBudgets == [t \in 0..3 |-> IF t = 3 THEN 2 ELSE 1]
AnySession == Permutations({s1, s2, s3})

VARIABLE focus
diskVars == <<filesVars, historyVars, handoverVars, memoryVars, improvementVars>>
harnessVars == <<focus, gateVars, agentVars, diskVars>>

SomeTeam == CHOOSE t \in Teams : TRUE
SomeReaction == CHOOSE r \in OnBroken : TRUE

HarnessInit ==
  /\ focus \in {"gate", "agents", "files", "history", "handover", "memory", "experiment"}
  /\ IF focus = "gate" THEN GateInit ELSE Quiet
  /\ IF focus = "agents" THEN AgentsInit ELSE Resting
  /\ FilesInit /\ (focus = "files" \/ (file = "registry" /\ team = SomeTeam))
  /\ HistoryInit /\ (focus = "history" \/ gitAvailable)
  /\ HandoverInit /\ (focus = "handover" \/ onBroken = SomeReaction)
  /\ MemoryInit
  /\ ImprovementInit /\ (focus = "experiment" \/ thread = <<>>)

HarnessNext ==
  /\ UNCHANGED focus
  /\ \/ focus = "gate" /\ GateNext /\ UNCHANGED <<agentVars, diskVars>>
     \/ focus = "agents" /\ AgentsNext /\ UNCHANGED <<gateVars, diskVars>>
     \/ /\ UNCHANGED <<gateVars, agentVars>>
        /\ \/ focus = "files" /\ FilesNext
              /\ UNCHANGED <<historyVars, handoverVars, memoryVars, improvementVars>>
           \/ focus = "history" /\ HistoryNext
              /\ UNCHANGED <<filesVars, handoverVars, memoryVars, improvementVars>>
           \/ focus = "handover" /\ HandoverNext
              /\ UNCHANGED <<filesVars, historyVars, memoryVars, improvementVars>>
           \/ focus = "memory" /\ MemoryNext
              /\ UNCHANGED <<filesVars, historyVars, handoverVars, improvementVars>>
           \/ focus = "experiment" /\ ImprovementNext
              /\ UNCHANGED <<filesVars, historyVars, handoverVars, memoryVars>>

HarnessSpec == HarnessInit /\ [][HarnessNext]_harnessVars

(* What one session leaves, the next one takes up: from the session that    *)
(* ended last, in a workspace and a history that agree after a rollback,    *)
(* and with a thread and skills as a rejected experiment found them.        *)
WorkResumes == ResumesSoundly /\ RollbackRestores /\ ExperimentsHonest

(* The agents of one graph on shared guardrails: bounded spending, complete *)
(* records, and messages that can be sent to a model again.                 *)
AgentsGuarded == SpendingBounded /\ TranscriptSound
=============================================================================
