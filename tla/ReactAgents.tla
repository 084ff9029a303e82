----------------------------- MODULE ReactAgents -----------------------------
(***************************************************************************)
(* Agent nodes of one compiled graph: those of defineAgent(), a loop of    *)
(* model calls and tool calls, and those of agent(), a handler with a      *)
(* context.  They run side by side, on one thread or several, and share    *)
(* the graph's guardrails: tool permissions, one budget tracker and one    *)
(* audit log (agents/*.ts, guardrails/*.ts).                               *)
(***************************************************************************)
EXTENDS Naturals, Sequences, FiniteSets, SequencesExt, FiniteSetsExt

CONSTANTS
  AgentNodes, Declared,     \* all agents, and those of defineAgent
  Threads, ThreadOf,
  ToolsOf, SafeTools, Permissions,     \* tools, parallel-safe ones, who may use what
  CallLists, Usages,    \* answers of a model: tool calls, and [input, output]
  Prices,               \* price of a token by model, for the models with one
  ModelOf, SpendingLimits,     \* [perAgent, perRun, cost, mode]
  MaxSteps, MaxTokens, MaxThreadIds,
  Unlimited, NaN, AllTools,
  Scheduled,            \* the sets of agents a behaviour is about
  MaxRuns, MaxSent      \* bounds: runs of a node, messages of a handler

ASSUME AgentsAssumption ==
  /\ IsFiniteSet(AgentNodes) /\ ThreadOf \in [AgentNodes -> Threads] /\ NaN \notin Nat
  /\ MaxSteps \in Nat /\ MaxThreadIds \in Nat
  /\ \A u \in Usages : u.input \in Nat \cup {NaN} /\ u.output \in Nat \cup {NaN}
  /\ \A m \in DOMAIN Prices : Prices[m][1] \in Nat /\ Prices[m][2] \in Nat
  /\ \A b \in SpendingLimits : {b.perAgent, b.perRun, b.cost} \subseteq Nat \cup {Unlimited}
  /\ LET tools == UNION {{calls[i] : i \in DOMAIN calls} : calls \in CallLists} IN
       CallLists \subseteq Seq(tools)

VARIABLES doing, turn, used, transcript, toolAsks, answers, working, strays, sent,
          tokensOf, runTokens, cost, budget, logs, runs,
          recorded,     \* history: entries recorded for a thread
          overruns,     \* history: calls of this run begun over the budget
          toolRuns      \* history: who ran what

loopVars == <<doing, turn, used, transcript, toolAsks, answers, working, strays, sent, runs>>
guardVars == <<tokensOf, runTokens, cost, budget, logs, recorded>>
agentVars == <<loopVars, guardVars, overruns, toolRuns>>

(***************************************************************************)
(* The audit log: one list for a thread, the oldest thread gives way.      *)
(***************************************************************************)
LogOf(thread) == {i \in DOMAIN logs : logs[i].thread = thread}

Kept(all) == IF Len(all) > MaxThreadIds THEN Tail(all) ELSE all

RecordEntries(a, n) ==
  LET thread == ThreadOf[a] IN
  /\ recorded' = [recorded EXCEPT ![thread] = @ + n]
  /\ logs' = IF n = 0 THEN logs
             ELSE IF LogOf(thread) # {}
             THEN [i \in DOMAIN logs |-> IF i \in LogOf(thread)
                                         THEN [logs[i] EXCEPT !.entries = @ + n] ELSE logs[i]]
             ELSE Kept(Append(logs, [thread |-> thread, entries |-> n]))

(***************************************************************************)
(* The budget tracker.  A count that is not a number, or negative, is      *)
(* counted as none; the limits are looked at after the counters moved.     *)
(***************************************************************************)
Counted(n) == IF n = NaN THEN 0 ELSE n
Exceeds(n, limit) == limit # Unlimited /\ n > limit
Warns(n, limit) == limit # Unlimited /\ ~Exceeds(n, limit) /\ 10 * n >= 8 * limit

Spend(a, usage) ==
  LET n == Counted(usage.input) + Counted(usage.output) model == ModelOf[a] IN
  /\ tokensOf' = [tokensOf EXCEPT ![a] = @ + n]
  /\ runTokens' = runTokens + n
  /\ cost' = IF model \in DOMAIN Prices
             THEN cost + Counted(usage.input) * Prices[model][1] + Counted(usage.output) * Prices[model][2]
             ELSE cost

Totals(a) == << <<tokensOf'[a], budget.perAgent>>, <<runTokens', budget.perRun>>, <<cost', budget.cost>> >>

Refuses(a) == budget.mode = "error" /\ \E i \in 1..3 : Exceeds(Totals(a)[i][1], Totals(a)[i][2])

\* The entries record() returns; what it throws over has none.
EntriesOf(a, usage) ==
  (IF NaN \in {usage.input, usage.output} THEN 1 ELSE 0)
  + (IF ModelOf[a] \in DOMAIN Prices THEN 0 ELSE 1)
  + Cardinality({i \in 1..3 : Exceeds(Totals(a)[i][1], Totals(a)[i][2])
                              \/ Warns(Totals(a)[i][1], Totals(a)[i][2])})

OverBudget(a) == \/ Exceeds(runTokens, budget.perRun) \/ Exceeds(cost, budget.cost)
                 \/ Exceeds(tokensOf[a], budget.perAgent)

Permitted(a, tool) == tool \in Permissions[a] \/ AllTools \in Permissions[a]

AgentsInit ==
  /\ doing = [a \in AgentNodes |-> "idle"] /\ turn = [a \in AgentNodes |-> 0]
  /\ used = [a \in AgentNodes |-> 0] /\ transcript = [a \in AgentNodes |-> <<>>]
  /\ toolAsks = [a \in AgentNodes |-> <<>>] /\ answers = [a \in AgentNodes |-> <<>>]
  /\ working = [a \in AgentNodes |-> {}] /\ strays = [a \in AgentNodes |-> {}]
  /\ sent = [a \in AgentNodes |-> 0]
  /\ runs \in {[a \in AgentNodes |-> IF a \in team THEN 0 ELSE MaxRuns] : team \in Scheduled}
  /\ tokensOf = [a \in AgentNodes |-> 0] /\ runTokens = 0 /\ cost = 0
  /\ budget \in SpendingLimits /\ logs = <<>> /\ recorded = [t \in Threads |-> 0]
  /\ overruns = [a \in AgentNodes |-> 0] /\ toolRuns = {}

Over(a) == IF OverBudget(a) THEN 1 ELSE 0

\* The node runs, for the first time or again: a retry, another thread.
StartAgent(a) ==
  /\ doing[a] \in {"idle", "returned", "failed"} /\ runs[a] < MaxRuns
  /\ runs' = [runs EXCEPT ![a] = @ + 1]
  /\ doing' = [doing EXCEPT ![a] = IF a \notin Declared THEN "handling"
                                   ELSE IF MaxSteps = 0 THEN "returned" ELSE "calling"]
  /\ turn' = [turn EXCEPT ![a] = 0] /\ used' = [used EXCEPT ![a] = 0]
  /\ transcript' = [transcript EXCEPT ![a] = <<>>]
  /\ sent' = [sent EXCEPT ![a] = 0]
  /\ overruns' = [overruns EXCEPT ![a] = Over(a)]
  /\ UNCHANGED <<toolAsks, answers, working, strays, guardVars, toolRuns>>

ModelThrows(a) ==
  /\ doing[a] = "calling"
  /\ doing' = [doing EXCEPT ![a] = "failed"]
  /\ UNCHANGED <<turn, used, transcript, toolAsks, answers, working, strays, sent, runs,
                 guardVars, overruns, toolRuns>>

\* The loop's own count is of the raw numbers: one that is no number stays
\* so, and is never as large as the limit.
Add(total, usage) == IF NaN \in {total, usage.input, usage.output} THEN NaN
                     ELSE total + usage.input + usage.output
OutOfTokens(total) == MaxTokens # Unlimited /\ total # NaN /\ total >= MaxTokens

Speech(calls) == [role |-> "assistant", calls |-> calls]

KeepsCalls(a, calls) == IF OutOfTokens(used'[a]) THEN Speech(calls) ELSE Speech(calls)

\* Over its tokens, an agent keeps what the model said without the calls
\* nobody will answer.
Said(a, calls) == IF OutOfTokens(used'[a]) THEN Speech(<<>>) ELSE Speech(calls)

ModelAnswers(a, usage, calls) ==
  /\ doing[a] = "calling"
  /\ Spend(a, usage)
  /\ IF Refuses(a)
     THEN /\ RecordEntries(a, 1)
          /\ doing' = [doing EXCEPT ![a] = "failed"]
          /\ UNCHANGED <<used, transcript, toolAsks, answers>>
     ELSE /\ RecordEntries(a, 1 + EntriesOf(a, usage))
          /\ used' = [used EXCEPT ![a] = Add(@, usage)]
          /\ transcript' = [transcript EXCEPT ![a] = Append(@, Said(a, calls))]
          /\ LET ends == calls = <<>> \/ OutOfTokens(used'[a]) IN
               /\ doing' = [doing EXCEPT ![a] = IF ends THEN "returned" ELSE "acting"]
               /\ toolAsks' = [toolAsks EXCEPT ![a] = IF ends THEN <<>> ELSE calls]
               /\ answers' = [answers EXCEPT ![a] = <<>>]
  /\ UNCHANGED <<turn, working, strays, sent, runs, budget, overruns, toolRuns>>

(***************************************************************************)
(* Tool calls: one by one when one of them must not run beside another,    *)
(* else all at once.  A tool that may not be used fails the node of a      *)
(* declared agent, and what runs beside it runs on.                        *)
(***************************************************************************)
InTurn(calls) == \E i \in DOMAIN calls : calls[i] \notin SafeTools
HasTool(a, tool) == tool \in ToolsOf[a]
Forbidden(a, tool) == a \in Declared /\ HasTool(a, tool) /\ ~Permitted(a, tool)

\* The calls that are taken up now.
TakenUp(a) == IF InTurn(toolAsks[a])
            THEN {i \in DOMAIN toolAsks[a] : i = Cardinality(DOMAIN answers[a]) + 1}
            ELSE DOMAIN toolAsks[a] \ DOMAIN answers[a]

TakeUp(a) ==
  /\ doing[a] = "acting" /\ working[a] = {} /\ TakenUp(a) # {}
  /\ LET Runs == {i \in TakenUp(a) : HasTool(a, toolAsks[a][i]) /\ ~Forbidden(a, toolAsks[a][i])}
         fails == \E i \in TakenUp(a) : Forbidden(a, toolAsks[a][i]) IN
     /\ toolRuns' = toolRuns \cup {[agent |-> a, tool |-> toolAsks[a][i]] : i \in Runs}
     /\ IF fails
        THEN /\ doing' = [doing EXCEPT ![a] = "failed"]
             /\ strays' = [strays EXCEPT ![a] = @ \cup {[run |-> runs[a], call |-> i] : i \in Runs}]
             /\ UNCHANGED <<working, answers>>
        ELSE /\ working' = [working EXCEPT ![a] = Runs]
             /\ answers' = [answers EXCEPT ![a] = [i \in DOMAIN @ \cup (TakenUp(a) \ Runs) |->
                                                    IF i \in DOMAIN @ THEN @[i] ELSE "unknown"]]
             /\ UNCHANGED <<doing, strays>>
  /\ UNCHANGED <<turn, used, transcript, toolAsks, sent, runs, guardVars, overruns>>

ToolAnswers(a, i, how) ==
  /\ i \in working[a] /\ how \in {"ok", "error"}
  /\ working' = [working EXCEPT ![a] = @ \ {i}]
  /\ answers' = [answers EXCEPT ![a] = [j \in DOMAIN @ \cup {i} |-> IF j = i THEN how ELSE @[j]]]
  /\ RecordEntries(a, IF a \in Declared THEN 1 ELSE 0)
  /\ UNCHANGED <<doing, turn, used, transcript, toolAsks, strays, sent, runs, tokensOf,
                 runTokens, cost, budget, overruns, toolRuns>>

StrayEnds(a, stray) ==
  /\ stray \in strays[a]
  /\ strays' = [strays EXCEPT ![a] = @ \ {stray}]
  /\ RecordEntries(a, 1)
  /\ UNCHANGED <<doing, turn, used, transcript, toolAsks, answers, working, sent, runs,
                 tokensOf, runTokens, cost, budget, overruns, toolRuns>>

\* The results are appended in the order of the calls.
Results(calls) == [i \in DOMAIN calls |-> [role |-> "tool", call |-> i]]

CallsAnswered(a) ==
  /\ doing[a] = "acting" /\ working[a] = {} /\ DOMAIN answers[a] = DOMAIN toolAsks[a]
  /\ toolAsks' = [toolAsks EXCEPT ![a] = <<>>] /\ answers' = [answers EXCEPT ![a] = <<>>]
  /\ IF a \in Declared
     THEN /\ transcript' = [transcript EXCEPT ![a] = @ \o Results(toolAsks[a])]
          /\ turn' = [turn EXCEPT ![a] = @ + 1]
          /\ doing' = [doing EXCEPT ![a] = IF turn'[a] < MaxSteps THEN "calling" ELSE "returned"]
          /\ overruns' = [overruns EXCEPT ![a] = @ + (IF turn'[a] < MaxSteps THEN Over(a) ELSE 0)]
     ELSE /\ doing' = [doing EXCEPT ![a] = "handling"]
          /\ UNCHANGED <<transcript, turn, overruns>>
  /\ UNCHANGED <<used, working, strays, sent, runs, guardVars, toolRuns>>

(***************************************************************************)
(* The handler of agent(): it runs tools and sends messages as it likes;   *)
(* neither permissions nor the budget are asked.                           *)
(***************************************************************************)
HandlerRunsTools(a, calls) ==
  /\ doing[a] = "handling" /\ calls # <<>>
  /\ turn[a] < MaxSteps /\ turn' = [turn EXCEPT ![a] = @ + 1]
  /\ doing' = [doing EXCEPT ![a] = "acting"] /\ toolAsks' = [toolAsks EXCEPT ![a] = calls]
  /\ UNCHANGED <<used, transcript, answers, working, strays, sent, runs, guardVars,
                 overruns, toolRuns>>

HandlerSends(a) ==
  /\ doing[a] = "handling" /\ sent[a] < MaxSent
  /\ sent' = [sent EXCEPT ![a] = @ + 1]
  /\ UNCHANGED <<doing, turn, used, transcript, toolAsks, answers, working, strays, runs,
                 guardVars, overruns, toolRuns>>

\* What was sent is part of the update, after the handler's own messages.
HandlerReturns(a) ==
  /\ doing[a] = "handling"
  /\ doing' = [doing EXCEPT ![a] = "returned"]
  /\ transcript' = [transcript EXCEPT ![a] = [i \in 1..sent[a] |-> [role |-> "swarm", call |-> i]]]
  /\ UNCHANGED <<turn, used, toolAsks, answers, working, strays, sent, runs, guardVars,
                 overruns, toolRuns>>

AgentsNext ==
  \E a \in AgentNodes :
    \/ StartAgent(a) \/ ModelThrows(a) \/ TakeUp(a) \/ CallsAnswered(a)
    \/ \E usage \in Usages, calls \in CallLists : ModelAnswers(a, usage, calls)
    \/ \E i \in working[a], how \in {"ok", "error"} : ToolAnswers(a, i, how)
    \/ \E stray \in strays[a] : StrayEnds(a, stray)
    \/ \E calls \in CallLists : HandlerRunsTools(a, calls)
    \/ HandlerSends(a) \/ HandlerReturns(a)

AgentsSpec == AgentsInit /\ [][AgentsNext]_agentVars

(***************************************************************************)
(* What a run spends is bounded although nothing is asked before a model   *)
(* call: over the budget, an agent begins at most one more call, the one   *)
(* whose usage is refused.  The tracker's counts agree, and while there    *)
(* are not more threads than the audit log holds, none of what was         *)
(* recorded is missing (define-agent.ts:106-155, budget.ts:48-172,         *)
(* audit.ts:12-22).                                                        *)
(***************************************************************************)
SpendingBounded ==
  /\ budget.mode = "error" => \A a \in AgentNodes : overruns[a] <= 1
  /\ runTokens = MapThenSumSet(LAMBDA a : tokensOf[a], AgentNodes)
  /\ Cardinality({t \in Threads : recorded[t] > 0}) <= MaxThreadIds =>
       \A t \in Threads : recorded[t] > 0 =>
         \E i \in DOMAIN logs : logs[i] = [thread |-> t, entries |-> recorded[t]]

(***************************************************************************)
(* The messages an agent returns can be sent to a model again: every call  *)
(* in them is followed by its one result, in order, and nothing else is    *)
(* between them; and an agent of defineAgent runs only tools it may use    *)
(* (define-agent.ts:160-215).                                              *)
(***************************************************************************)
TranscriptSound ==
  /\ \A a \in AgentNodes : doing[a] = "returned" =>
       \A i \in DOMAIN transcript[a] :
         LET said == transcript[a][i] IN
         IF said.role = "assistant"
         THEN \A k \in DOMAIN said.calls :
                /\ i + k \in DOMAIN transcript[a]
                /\ transcript[a][i + k] = [role |-> "tool", call |-> k]
         ELSE said.role = "tool" =>
                i > said.call /\ LET asker == transcript[a][i - said.call] IN
                  asker.role = "assistant" /\ said.call \in DOMAIN asker.calls
  /\ \A r \in toolRuns : r.agent \in Declared => Permitted(r.agent, r.tool)
=============================================================================
