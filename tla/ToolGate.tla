------------------------------ MODULE ToolGate ------------------------------
(***************************************************************************)
(* The way of a tool call from the model's answer to the tool: PreToolUse  *)
(* hooks (hooks-engine.ts), safety gate (safety-gate.ts), lookup and       *)
(* validation of the arguments (validate-args.ts), and at the tool the     *)
(* runtime policy of the task (policy.ts, tool-policy.ts), then the hooks  *)
(* after it (loop/tools.ts).  The checks of a parallel batch are all made  *)
(* before its first tool starts; hooks come and go meanwhile.              *)
(***************************************************************************)
EXTENDS Naturals, Sequences, FiniteSets, SequencesExt

CONSTANTS
  Tools,          \* name |-> [safe, schema, rewrites, online] of the tools
  Batches,        \* the answers of the model: sequences of calls
  HookLists,      \* what the composed engines hold under an event at first
  LateHooks,      \* hooks that are added while the loop runs
  HookReplies,    \* what a handler comes to
  Protected,      \* the sets of tools a safety gate protects (or none)
  Scopes, Grants, \* scopes of the task, grants of the session
  Workspace, Real, Within,   \* workspace, real path of a path, containment
  PathArguments, CommandArguments,
  Dangerous,      \* commands and files the security guardrails refuse
  StartsWith,     \* <<text, prefix>>
  MaxArrayItems,
  MaxNesting,     \* bound: how deep arguments are nested
  Unset, Unmodified,
  MaxHookChanges

VARIABLES registered, fire, batch, serial, position, gateStage, approved,
          running, outcome, scope, grant, guarded, hookChanges,
          replies,        \* history: the answers of hooks, by call
          cleared,        \* history: what the safety model approved
          ran             \* history: what reached a tool

gateVars == <<registered, fire, batch, serial, position, gateStage, approved,
              running, outcome, scope, grant, guarded, hookChanges, replies,
              cleared, ran>>

HookEvents == {"PreToolUse", "PostToolUse", "PostToolUseFailure"}
FailClosed == {"PreToolUse", "PermissionRequest"}
NoFire == [event |-> "none"]

(***************************************************************************)
(* Validation of arguments: a value has a type, a size (its number, or the *)
(* length of its text), items and fields; a schema without a type accepts  *)
(* any, and an integer is a number too.                                    *)
(***************************************************************************)
TypeFits(value, schema) ==
  \/ schema.type \in {"any", value.type}
  \/ schema.type = "number" /\ value.type = "integer"

Present(fields, key) == key \in DOMAIN fields /\ fields[key].type # "null"

FitsItself(value, schema) ==
  /\ TypeFits(value, schema)
  /\ schema.enum = {} \/ value.text \in schema.enum
  /\ value.type \in {"number", "integer", "string"} =>
       value.size \in schema.min..schema.max
  /\ value.type = "array" => Len(value.items) <= MaxArrayItems
  /\ value.type = "object" /\ schema.properties # <<>> =>
       \A key \in schema.required : Present(value.fields, key)

\* The items of an array and the fields of an object, each with its schema.
Parts(value, schema) ==
  {<<value.items[i], schema.items[1]>> : i \in
     IF value.type = "array" /\ schema.items # <<>> THEN DOMAIN value.items ELSE {}}
  \cup {<<value.fields[key], schema.properties[key]>> : key \in
     IF value.type = "object" THEN DOMAIN schema.properties \cap DOMAIN value.fields ELSE {}}

Fits(value, schema) ==
  LET level[n \in 0..MaxNesting] ==
        IF n = 0 THEN {<<value, schema>>} ELSE UNION {Parts(p[1], p[2]) : p \in level[n - 1]} IN
  \A n \in 0..MaxNesting : \A p \in level[n] : FitsItself(p[1], p[2])

\* Of the arguments themselves a null counts as absent, even where it is
\* declared.
ArgumentsFit(args, schema) ==
  \/ schema = Unset
  \/ /\ args.type = "object"
     /\ \A key \in schema.required : Present(args.fields, key)
     /\ \A key \in DOMAIN schema.properties :
          Present(args.fields, key) => Fits(args.fields[key], schema.properties[key])

(***************************************************************************)
(* The runtime policy.                                                     *)
(***************************************************************************)
IsInside(path, parent) == <<path, parent>> \in Within

AllowedPaths == IF scope.allowedPaths = Unset
                THEN {Workspace} \ {Unset} ELSE scope.allowedPaths

ScopeEscapes(s) ==
  Workspace # Unset /\ \E path \in s.disallowedPaths
                          \cup (IF s.allowedPaths = Unset THEN {} ELSE s.allowedPaths) :
                        ~IsInside(path, Workspace)

Granted(type, name) == [type |-> type, name |-> name] \in grant.capabilities

AllowsPath(path) ==
  /\ ~\E denied \in scope.disallowedPaths : IsInside(Real[path], Real[denied])
  /\ \E allowed \in AllowedPaths : IsInside(Real[path], Real[allowed])

\* Mutant: what the scope of the task names is taken for granted.
OnlyInScope(command) == command \in scope.allowedCommands

AllowsCommand(command) ==
  command \in scope.allowedCommands /\ Granted("command", command)

AllowsNetwork == scope.network # "none" /\ Granted("network", "network")

\* The texts of an argument; what is neither a text nor a list of texts
\* is refused.
IsTextList(value) ==
  \/ value.type = "string"
  \/ value.type = "array" /\ \A i \in DOMAIN value.items : value.items[i].type = "string"
Texts(value) == IF value.type = "string" THEN {value.text}
                ELSE {value.items[i].text : i \in DOMAIN value.items}

\* What a call can be about: what the model says or a hook makes of it.
GivenCalls == UNION {ToSet(calls) : calls \in Batches}
GivenArguments == {call.args : call \in GivenCalls}
                  \cup ({reply.modified : reply \in HookReplies} \ {Unmodified})
CallRec == [tool : {call.tool : call \in GivenCalls}, args : GivenArguments]

IsValue(v) == v = [type |-> v.type, size |-> v.size, text |-> v.text, items |-> v.items, fields |-> v.fields]

\* A path names one real path, which is its own.
ASSUME GateAssumption ==
  /\ \A calls \in Batches : calls \in Seq(CallRec)
  /\ \A reply \in HookReplies :
       reply.decision \in {"allow", "escalate", "block", "deny", "void", "throw", "timeout"}
  /\ \A path \in DOMAIN Real : Real[path] \in DOMAIN Real /\ Real[Real[path]] = Real[path]
  /\ \A args \in GivenArguments :
       /\ IsValue(args)
       /\ \A key \in PathArguments \cap DOMAIN args.fields :
            LET value == args.fields[key] IN
            /\ IsValue(value) /\ \A i \in DOMAIN value.items : IsValue(value.items[i])
            /\ IsTextList(value) => Texts(value) \subseteq DOMAIN Real

Checked(tool, args, names) ==
  IF Tools[tool].schema = Unset THEN {}
  ELSE names \cap DOMAIN Tools[tool].schema.properties \cap DOMAIN args.fields

PolicyAllows(tool, args) ==
  /\ grant.status = "active"
  /\ Granted("tool", tool)
  /\ Tools[tool].online => AllowsNetwork
  /\ args.type = "object" =>
       /\ \A key \in Checked(tool, args, PathArguments) :
            IsTextList(args.fields[key]) /\ \A path \in Texts(args.fields[key]) : AllowsPath(path)
       /\ \A key \in Checked(tool, args, CommandArguments) :
            IsTextList(args.fields[key]) /\ \A command \in Texts(args.fields[key]) : AllowsCommand(command)

AtRealPath(value) == [value EXCEPT !.text = Real[@]]
Resolved(value) ==
  IF value.type = "string" THEN AtRealPath(value)
  ELSE [value EXCEPT !.items = [i \in DOMAIN value.items |-> AtRealPath(value.items[i])]]

Rewritten(tool, args) ==
  IF Tools[tool].rewrites /\ args.type = "object"
  THEN [args EXCEPT !.fields = [key \in DOMAIN @ |->
          IF key \in Checked(tool, args, PathArguments) THEN Resolved(@[key]) ELSE @[key]]]
  ELSE args

(***************************************************************************)
(* The hooks engine.                                                       *)
(***************************************************************************)
Matches(matcher, call) ==
  CASE matcher.kind = "any"   -> TRUE
    [] matcher.kind = "tools" -> call.tool \in matcher.tools
    [] matcher.kind = "argument" ->
         /\ call.tool \in matcher.tools
         /\ call.args.type = "object"
         /\ \E key \in DOMAIN call.args.fields :
              /\ call.args.fields[key].type = "string"
              /\ <<call.args.fields[key].text, matcher.prefix>> \in StartsWith

Compose(engines) == FlattenSeq(engines)

\* The built-in guardrails look at the command and at the file of a call.
GuardrailReply(call) ==
  LET seen == IF call.args.type # "object" THEN {}
              ELSE {call.args.fields[key] : key \in DOMAIN call.args.fields
                                                     \cap (PathArguments \cup CommandArguments)}
  IN  [decision |-> IF \E value \in seen : value.type = "string" /\ value.text \in Dangerous
                    THEN "deny" ELSE "allow",
       modified |-> Unmodified]

RepliesOf(definition, call) ==
  IF definition.guardrail THEN {GuardrailReply(call)}
  ELSE {reply \in HookReplies : reply.decision = "timeout" => definition.timed}

Current == batch[IF fire.event \in {"PostToolUse", "PostToolUseFailure"}
                 THEN approved[1] ELSE position]

GateInit ==
  /\ registered \in [HookEvents -> {<<>>}] \cup
       {[e \in HookEvents |-> IF e \in events THEN Compose(lists) ELSE <<>>] :
          events \in {{"PreToolUse"}, {"PreToolUse", "PostToolUse", "PostToolUseFailure"}},
          lists \in HookLists}
  /\ fire = NoFire /\ batch = <<>> /\ serial = FALSE /\ position = 0
  /\ gateStage = "idle" /\ approved = <<>> /\ running = {} /\ outcome = <<>>
  /\ scope \in {s \in Scopes : ~ScopeEscapes(s)} /\ grant \in Grants
  /\ guarded \in Protected /\ hookChanges = 0
  /\ replies = {} /\ cleared = {} /\ ran = {}

HookOn(event, definition) ==
  /\ hookChanges < MaxHookChanges
  /\ hookChanges' = hookChanges + 1
  /\ registered' = [registered EXCEPT ![event] = Append(@, definition)]
  /\ fire' = IF fire.event = event /\ fire.live
             THEN [fire EXCEPT !.list = Append(@, definition)] ELSE fire
  /\ UNCHANGED <<batch, serial, position, gateStage, approved, running, outcome,
                 scope, grant, guarded, replies, cleared, ran>>

HookOff(event) ==
  /\ hookChanges < MaxHookChanges /\ registered[event] # <<>>
  /\ hookChanges' = hookChanges + 1
  /\ registered' = [registered EXCEPT ![event] = <<>>]
  /\ fire' = IF fire.event = event THEN [fire EXCEPT !.live = FALSE] ELSE fire
  /\ UNCHANGED <<batch, serial, position, gateStage, approved, running, outcome,
                 scope, grant, guarded, replies, cleared, ran>>

(***************************************************************************)
(* One batch of calls.                                                     *)
(***************************************************************************)
Known(call) == call.tool \in DOMAIN Tools

StartBatch(calls) ==
  /\ gateStage = "idle" /\ calls # <<>>
  /\ batch' = calls /\ position' = 1 /\ gateStage' = "hooks"
  /\ serial' = \E i \in DOMAIN calls : Known(calls[i]) /\ ~Tools[calls[i].tool].safe
  /\ outcome' = [i \in DOMAIN calls |-> "none"]
  /\ UNCHANGED <<registered, fire, approved, running, scope, grant, guarded,
                 hookChanges, replies, cleared, ran>>

\* The call at position is decided: on to the next check, or to the tools.
NextCall(queue) ==
  /\ approved' = queue
  /\ IF serial /\ queue # <<>> THEN gateStage' = "execution" /\ UNCHANGED position
     ELSE IF position < Len(batch) THEN gateStage' = "hooks" /\ position' = position + 1
     ELSE /\ gateStage' = IF queue = <<>> THEN "done" ELSE "execution"
          /\ UNCHANGED position

Turned(reason) ==
  /\ outcome' = [outcome EXCEPT ![position] = reason]
  /\ NextCall(approved)

FireHooks ==
  /\ gateStage \in {"hooks", "after"} /\ fire = NoFire
  /\ LET event == IF gateStage = "hooks" THEN "PreToolUse"
                  ELSE IF outcome[approved[1]] = "ok" THEN "PostToolUse"
                  ELSE "PostToolUseFailure"
     IN  fire' = [event |-> event, list |-> registered[event], live |-> TRUE,
                  at |-> 0, asked |-> FALSE]
  /\ UNCHANGED <<registered, batch, serial, position, gateStage, approved, running,
                 outcome, scope, grant, guarded, hookChanges, replies, cleared, ran>>

Matching == {i \in DOMAIN fire.list : i > fire.at /\ Matches(fire.list[i].matcher, Current)}

\* The hooks after a call decide nothing: the next one has its turn.
AfterHooks ==
  /\ fire' = NoFire
  /\ approved' = Tail(approved)
  /\ IF Len(approved) > 1 THEN UNCHANGED <<gateStage, position>>
     ELSE IF serial /\ position < Len(batch)
     THEN gateStage' = "hooks" /\ position' = position + 1
     ELSE gateStage' = "done" /\ UNCHANGED position
  /\ UNCHANGED <<batch, outcome>>

\* fire() returns: only the answer of a deny or a block keeps what the
\* handler made of the input.
FireEnds(reply) ==
  IF fire.event # "PreToolUse" THEN AfterHooks
  ELSE /\ fire' = NoFire
       /\ IF reply.decision = "deny" THEN Turned("denied") /\ UNCHANGED batch
          ELSE /\ gateStage' = "safety"
               /\ batch' = IF reply.modified = Unmodified THEN batch
                           ELSE [batch EXCEPT ![position].args = reply.modified]
               /\ UNCHANGED <<position, approved, outcome>>

ConsultHook ==
  /\ fire # NoFire /\ ~fire.asked /\ Matching # {}
  /\ fire' = [fire EXCEPT !.asked = TRUE, !.at = CHOOSE i \in Matching : \A j \in Matching : i <= j]
  /\ UNCHANGED <<registered, batch, serial, position, gateStage, approved, running,
                 outcome, scope, grant, guarded, hookChanges, replies, cleared, ran>>

HooksPass ==
  /\ fire # NoFire /\ ~fire.asked /\ Matching = {}
  /\ FireEnds([decision |-> "allow", modified |-> Unmodified])
  /\ UNCHANGED <<registered, serial, running, scope, grant, guarded, hookChanges,
                 replies, cleared, ran>>

OnlyThrowsDeny(reply) == reply.decision = "throw" /\ fire.event \in FailClosed

\* A handler that throws, returns nothing or is too late has no answer.
Fails(reply) == reply.decision \in {"throw", "void", "timeout"} /\ fire.event \in FailClosed

HookAnswers(reply) ==
  /\ fire # NoFire /\ fire.asked /\ reply \in RepliesOf(fire.list[fire.at], Current)
  /\ replies' = IF fire.event = "PreToolUse"
                THEN replies \cup {[call |-> position, at |-> fire.at, reply |-> reply]}
                ELSE replies
  /\ IF Fails(reply) THEN FireEnds([decision |-> "deny", modified |-> Unmodified])
     ELSE IF reply.decision \in {"deny", "block"} THEN FireEnds(reply)
     ELSE /\ fire' = [fire EXCEPT !.asked = FALSE]
          /\ UNCHANGED <<gateStage, position, approved, outcome, batch>>
  /\ UNCHANGED <<registered, serial, running, scope, grant, guarded, hookChanges,
                 cleared, ran>>

Answered(answer) == answer # "timeout"

\* Only a text with approved: true in it lets the call pass.
Approves(answer) == answer = "approved"

SafetyAnswers(answer) ==
  /\ gateStage = "safety"
  /\ IF batch[position].tool \notin guarded
     THEN answer = "unneeded" /\ UNCHANGED <<outcome, position, approved, cleared>>
          /\ gateStage' = "lookup"
     ELSE /\ answer \in {"approved", "refused", "garbled", "timeout"}
          /\ IF Approves(answer)
             THEN /\ cleared' = cleared \cup {[call |-> position, args |-> batch[position].args,
                                               answer |-> answer]}
                  /\ gateStage' = "lookup" /\ UNCHANGED <<outcome, position, approved>>
             ELSE Turned("unsafe") /\ UNCHANGED cleared
  /\ UNCHANGED <<registered, fire, batch, serial, running, scope, grant, guarded,
                 hookChanges, replies, ran>>

LookUp ==
  /\ gateStage = "lookup"
  /\ LET call == batch[position] IN
       IF ~Known(call) THEN Turned("unknown")
       ELSE IF ~ArgumentsFit(call.args, Tools[call.tool].schema) THEN Turned("invalid")
       ELSE NextCall(Append(approved, position)) /\ UNCHANGED outcome
  /\ UNCHANGED <<registered, fire, batch, serial, running, scope, grant, guarded,
                 hookChanges, replies, cleared, ran>>

\* Every approved call starts its tool; the wrapper of the policy throws
\* before the tool is reached.
Execute ==
  /\ gateStage = "execution"
  /\ LET Allowed == {i \in ToSet(approved) : PolicyAllows(batch[i].tool, batch[i].args)} IN
       /\ running' = Allowed
       /\ ran' = ran \cup {[call |-> i, args |-> Rewritten(batch[i].tool, batch[i].args)] : i \in Allowed}
       /\ outcome' = [i \in DOMAIN outcome |->
                        IF i \in ToSet(approved) \ Allowed THEN "refused" ELSE outcome[i]]
  /\ gateStage' = "running"
  /\ UNCHANGED <<registered, fire, batch, serial, position, approved, scope, grant,
                 guarded, hookChanges, replies, cleared>>

ToolEnds(i, how) ==
  /\ i \in running /\ how \in {"ok", "error"}
  /\ running' = running \ {i} /\ outcome' = [outcome EXCEPT ![i] = how]
  /\ UNCHANGED <<registered, fire, batch, serial, position, gateStage, approved, scope,
                 grant, guarded, hookChanges, replies, cleared, ran>>

ToolsEnded ==
  /\ gateStage = "running" /\ running = {} /\ gateStage' = "after"
  /\ UNCHANGED <<registered, fire, batch, serial, position, approved, running, outcome,
                 scope, grant, guarded, hookChanges, replies, cleared, ran>>

GateNext ==
  \/ \E calls \in Batches : StartBatch(calls)
  \/ \E event \in HookEvents :
       HookOff(event) \/ \E definition \in LateHooks : HookOn(event, definition)
  \/ FireHooks \/ ConsultHook \/ HooksPass
  \/ /\ fire # NoFire
     /\ \E reply \in HookReplies \cup {GuardrailReply(Current)} : HookAnswers(reply)
  \/ \E answer \in {"unneeded", "approved", "refused", "garbled", "timeout"} : SafetyAnswers(answer)
  \/ LookUp \/ Execute \/ ToolsEnded
  \/ \E i \in running, how \in {"ok", "error"} : ToolEnds(i, how)

GateSpec == GateInit /\ [][GateNext]_gateVars

(***************************************************************************)
(* A call that reached its tool passed every check with the arguments the  *)
(* tool was given: no hook that was asked about it refused, failed or was  *)
(* too late; a protected tool has the safety model's word for these        *)
(* arguments; nothing the schema requires is missing or null; the tool is  *)
(* granted, and the network if it needs it; every path it declares is,     *)
(* where it really is, in the scope of the task, and every command is in   *)
(* the scope and in the grant (tools.ts:117-190, 344-450;                  *)
(* platform/policy.ts:159-214).                                            *)
(***************************************************************************)
OnlyCheckedCallsRun ==
  \A r \in ran : LET call == batch[r.call] tool == Tools[call.tool] IN
    /\ \A said \in replies : said.call = r.call =>
         said.reply.decision \in {"allow", "escalate", "block"}
    /\ call.tool \in guarded =>
         \E c \in cleared : c.call = r.call /\ c.args = call.args /\ c.answer = "approved"
    /\ tool.schema # Unset => \A key \in tool.schema.required : Present(call.args.fields, key)
    /\ grant.status = "active" /\ Granted("tool", call.tool)
    /\ \A key \in Checked(call.tool, call.args, PathArguments) :
         \A path \in Texts(r.args.fields[key]) :
           /\ \E allowed \in AllowedPaths : <<Real[path], Real[allowed]>> \in Within
           /\ \A denied \in scope.disallowedPaths : <<Real[path], Real[denied]>> \notin Within
    /\ \A key \in Checked(call.tool, call.args, CommandArguments) :
         \A command \in Texts(call.args.fields[key]) :
           command \in scope.allowedCommands /\ Granted("command", command)
    /\ tool.online => scope.network # "none" /\ Granted("network", "network")

(***************************************************************************)
(* "hooks can deny the call or modify its input" (GUIDE.md:2219): what a   *)
(* hook made of the input is what the tool gets.                           *)
(***************************************************************************)
ModifiedInputApplies ==
  \A r \in ran, said \in replies :
    said.call = r.call /\ said.reply.modified # Unmodified
    /\ (\A later \in replies : later.call = r.call => later.at <= said.at)
      => batch[r.call].args = said.reply.modified
=============================================================================
