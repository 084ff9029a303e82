------------------------------ MODULE AgentLoop ------------------------------
(***************************************************************************)
(* The agent loop (src/src/harness/loop/): inference with retries, the     *)
(* Stop hook, the checks and the serial or parallel execution of tool      *)
(* calls, compaction of the conversation (context-compactor.ts); and the   *)
(* handle of spawnAgent (background-agent.ts) that sends it messages and   *)
(* cancels it while it runs.                                               *)
(*                                                                         *)
(* A message is its role with the tool calls it makes or answers.  All     *)
(* messages weigh the same, so the token estimate is their number.         *)
(***************************************************************************)
EXTENDS Integers, Sequences, FiniteSets, SequencesExt

CONSTANTS
  Tools,           \* names the model may call, known to the loop or not
  Unsafe,          \* tools with parallelSafe = false
  SkillTools,      \* tools that leave a skill to be injected
  Unserializable,  \* tools that may return what JSON.stringify cannot convert
  Batches,         \* the tool calls that one answer of the model may make
  MaxTurns,
  MaxRetries,      \* of an inference
  Budget,          \* maxTokens * threshold, in messages
  KeepRecent,      \* clearOldToolResults keeps this many messages
  SummaryMayFail,  \* the summary model throws
  HasTodos,        \* the todo list may have entries
  MaxSends         \* bound: messages sent to the running loop

ASSUME AgentLoopAssumption ==
  /\ Unsafe \subseteq Tools /\ SkillTools \subseteq Tools
  /\ Unserializable \subseteq Tools
  /\ Batches \subseteq Seq(Tools) \ {<<>>}
  /\ MaxTurns \in Nat /\ MaxRetries \in Nat /\ MaxSends \in Nat
  /\ Budget \in Nat /\ Budget > 2
  /\ KeepRecent \in Nat
  /\ SummaryMayFail \in BOOLEAN /\ HasTodos \in BOOLEAN

VARIABLES
  pc,           \* where agentLoop is
  turn, messages,
  attempt,      \* of the inference
  compacted,    \* the conversation was looked at in this turn
  pendingSkill, \* SkillLoader.pendingInjection
  batch,        \* the tool calls of this turn
  calls,        \* what became of each
  queue, sent,  \* messages waiting in config.messageQueue; sent so far
  aborted,      \* config.signal
  abortTurn,    \* history variable: the turn in which cancel() was called
  outcome,      \* sessionOutcome
  result,       \* a result event was yielded
  reported,     \* what the SessionEnd hook and the memory log were told
  status        \* AgentHandle.status

convVars == <<messages, compacted, pendingSkill>>
toolVars == <<batch, calls>>
outsideVars == <<queue, sent, aborted, abortTurn>>
endVars == <<outcome, result, reported, status>>
vars == <<pc, turn, convVars, attempt, toolVars, outsideVars, endVars>>

CallState == {"waiting", "refused", "approved", "running", "ok", "error", "unserializable"}
Outcome == {"completed", "interrupted", "error", "budget-exceeded"}

(* A call is named by the turn that made it and its position in the batch. *)
CallId == Nat \X (Nat \ {0})
Message == [role : {"user", "assistant", "tool"}, calls : Seq(CallId), answers : Seq(CallId)]

Plain(role) == [role |-> role, calls |-> <<>>, answers |-> <<>>]
Exchange == <<Plain("user"), Plain("assistant")>>

TypeOK ==
  /\ pc \in {"top", "infer", "backoff", "stopping", "tools", "ending", "done"}
  /\ turn \in 0..MaxTurns
  /\ messages \in Seq(Message)
  /\ attempt \in 0..MaxRetries
  /\ compacted \in BOOLEAN /\ pendingSkill \in BOOLEAN
  /\ batch \in Batches \cup {<<>>}
  /\ calls \in Seq(CallState) /\ Len(calls) = Len(batch)
  /\ queue \in 0..MaxSends /\ sent \in 0..MaxSends
  /\ aborted \in BOOLEAN /\ abortTurn \in 0..MaxTurns
  /\ outcome \in Outcome
  /\ result \in BOOLEAN
  /\ reported \in Outcome \cup {"nothing"}
  /\ status \in {"running", "completed", "failed", "cancelled"}

(* The SessionStart hook may add context ahead of the prompt. *)
Init ==
  /\ pc = "top" /\ turn = 0
  /\ messages \in {<<Plain("user")>>, Append(Exchange, Plain("user"))}
  /\ attempt = 0
  /\ compacted = FALSE /\ pendingSkill = FALSE
  /\ batch = <<>> /\ calls = <<>>
  /\ queue = 0 /\ sent = 0
  /\ aborted = FALSE /\ abortTurn = 0
  /\ outcome = "completed" /\ result = FALSE
  /\ reported = "nothing" /\ status = "running"

-----------------------------------------------------------------------------
(* Compaction *)

OverBudget(ms) == Len(ms) >= Budget

(* The elements of s at the positions in P, in their order. *)
ElementsAt(s, P) ==
  [i \in 1..Cardinality(P) |-> s[CHOOSE k \in P : Cardinality({j \in P : j <= k}) = i]]

Older(ms) == 1..(Len(ms) - KeepRecent)

(* removedToolCallIds: the calls whose answers are old. *)
RemovedIds(ms) == {ms[i].answers[1] : i \in {j \in Older(ms) : ms[j].role = "tool"}}

(* keptToolCallIds: those of a message that has another, recent answer. *)
KeptIds(ms) ==
  RemovedIds(ms) \cap UNION {ToSet(ms[i].calls) : i \in
    {j \in Older(ms) : ~ToSet(ms[j].calls) \subseteq RemovedIds(ms)}}

Removes(ms, i, kept) ==
  /\ i \in Older(ms)
  /\ IF ms[i].role = "tool" THEN ms[i].answers[1] \notin kept
     ELSE ms[i].calls # <<>> /\ ToSet(ms[i].calls) \subseteq RemovedIds(ms)

(* Mutant: an answer of a call that is kept is removed with the old ones. *)
ClearOldToolResultsAll(ms) == ElementsAt(ms, {i \in DOMAIN ms : ~Removes(ms, i, {})})

(* Old tool answers go, with the call they answer, unless another answer of *)
(* the same message is recent.                                              *)
ClearOldToolResults(ms) ==
  ElementsAt(ms, {i \in DOMAIN ms : ~Removes(ms, i, KeptIds(ms))})

(* fallbackTruncation: the newest messages that fit, behind a notice. *)
Truncated(ms) ==
  Exchange \o SubSeq(ms, IF Len(ms) > Budget THEN Len(ms) - Budget + 1 ELSE 1, Len(ms))

(* compact(): clear, then summarize, then truncate if the summary failed. *)
Compaction(ms) ==
  LET cleared == ClearOldToolResults(ms)
  IN  IF ~OverBudget(cleared) THEN {cleared}
      ELSE {Exchange} \cup (IF SummaryMayFail THEN {Truncated(cleared)} ELSE {})

-----------------------------------------------------------------------------
(* The end of the loop.  The handle sees an error event before the cleanup  *)
(* of the generator runs, and leaves if it was cancelled.                   *)

(* Mutant: the handle takes the error event for a failure, cancelled or not.*)
FailsUncancelled(how) ==
  /\ pc' = "ending"
  /\ outcome' = how
  /\ UNCHANGED <<result, reported, status>>

Fails(how) ==
  /\ pc' = "ending"
  /\ outcome' = how
  /\ status' = IF aborted THEN "cancelled" ELSE status
  /\ UNCHANGED <<result, reported>>

(* finally: SessionEnd hook and memory; then the handle settles. *)
Ends ==
  /\ pc = "ending"
  /\ pc' = "done"
  /\ reported' = outcome
  /\ status' = IF status # "running" THEN status
               ELSE IF result THEN "completed" ELSE "failed"
  /\ UNCHANGED <<turn, convVars, attempt, toolVars, outsideVars, outcome, result>>

-----------------------------------------------------------------------------
(* A turn *)

(* Mutant: the signal is not looked at between turns. *)
StopsIgnoringSignal == FALSE

Stops == aborted

TurnAborted ==
  /\ pc = "top" /\ turn < MaxTurns /\ Stops
  /\ Fails("interrupted")
  /\ UNCHANGED <<turn, convVars, attempt, toolVars, outsideVars>>

TurnsExhausted ==
  /\ pc = "top" /\ turn >= MaxTurns
  /\ Fails("budget-exceeded")
  /\ UNCHANGED <<turn, convVars, attempt, toolVars, outsideVars>>

Compacts ==
  /\ pc = "top" /\ turn < MaxTurns /\ ~compacted
  /\ ~Stops /\ OverBudget(messages)
  /\ messages' \in Compaction(messages)
  /\ compacted' = TRUE
  /\ UNCHANGED <<pc, turn, pendingSkill, attempt, toolVars, outsideVars, endVars>>

(* The signal was looked at before the compaction. *)
StartsInference ==
  /\ pc = "top" /\ turn < MaxTurns
  /\ compacted \/ (~Stops /\ ~OverBudget(messages))
  /\ pc' = "infer" /\ attempt' = 0
  /\ messages' = IF pendingSkill THEN messages \o Exchange ELSE messages
  /\ pendingSkill' = FALSE
  /\ UNCHANGED <<turn, compacted, toolVars, outsideVars, endVars>>

NextTurn ==
  /\ pc' = "top" /\ turn' = turn + 1
  /\ compacted' = FALSE

InferenceFails(retryable) ==
  /\ pc = "infer"
  /\ IF retryable /\ attempt < MaxRetries /\ ~aborted
       THEN pc' = "backoff" /\ UNCHANGED endVars
       ELSE Fails("error")
  /\ UNCHANGED <<turn, convVars, attempt, toolVars, outsideVars>>

(* The delay ends, early if the signal fires. *)
InferenceRetried ==
  /\ pc = "backoff"
  /\ pc' = "infer" /\ attempt' = attempt + 1
  /\ UNCHANGED <<turn, convVars, toolVars, outsideVars, endVars>>

AnswersFinally ==
  /\ pc = "infer"
  /\ pc' = "stopping"
  /\ UNCHANGED <<turn, convVars, attempt, toolVars, outsideVars, endVars>>

AnswersWithTools(b) ==
  /\ pc = "infer" /\ b \in Batches
  /\ pc' = "tools"
  /\ batch' = b
  /\ calls' = [i \in DOMAIN b |-> "waiting"]
  /\ UNCHANGED <<turn, convVars, attempt, outsideVars, endVars>>

(* Mutant: a blocked stop does not count as a turn. *)
StopBlockedForFree ==
  /\ pc = "stopping"
  /\ messages' = messages \o <<Plain("assistant"), Plain("user")>>
  /\ pc' = "top" /\ compacted' = FALSE
  /\ UNCHANGED <<turn, pendingSkill, attempt, toolVars, outsideVars, endVars>>

(* The Stop hook wants a more complete response. *)
StopBlocked ==
  /\ pc = "stopping"
  /\ messages' = messages \o <<Plain("assistant"), Plain("user")>>
  /\ NextTurn
  /\ UNCHANGED <<pendingSkill, attempt, toolVars, outsideVars, endVars>>

StopAllowed ==
  /\ pc = "stopping"
  /\ pc' = "ending"
  /\ messages' = Append(messages, Plain("assistant"))
  /\ result' = TRUE
  /\ UNCHANGED <<turn, compacted, pendingSkill, attempt, toolVars, outsideVars,
                 outcome, reported, status>>

-----------------------------------------------------------------------------
(* Tool calls *)

(* Mutant: the batch is serial only if every tool of it asks for it. *)
SerialIfAll(b) == \A i \in DOMAIN b : b[i] \in Unsafe

Serial(b) == \E i \in DOMAIN b : b[i] \in Unsafe

Some(s) == \E i \in DOMAIN calls : calls[i] = s

(* The next call to be checked; a serial batch first runs the one before.   *)
IsToCheck(i) ==
  /\ pc = "tools" /\ i \in DOMAIN calls
  /\ calls[i] = "waiting"
  /\ \A j \in DOMAIN calls : j < i => calls[j] # "waiting"
  /\ Serial(batch) => ~Some("running")

SetCall(i, s) ==
  /\ calls' = [calls EXCEPT ![i] = s]
  /\ UNCHANGED <<pc, turn, messages, compacted, attempt, batch, outsideVars, endVars>>

(* Denied by a PreToolUse hook or by the safety gate, both of which refuse  *)
(* when they fail or time out; unknown; or called with invalid arguments.   *)
CallRefused(i) ==
  IsToCheck(i) /\ SetCall(i, "refused") /\ UNCHANGED pendingSkill

CallApproved(i) ==
  /\ IsToCheck(i)
  /\ SetCall(i, IF Serial(batch) THEN "running" ELSE "approved")
  /\ UNCHANGED pendingSkill

(* Promise.all starts every approved call of a parallel batch. *)
CallsStart ==
  /\ pc = "tools" /\ ~Some("waiting") /\ Some("approved")
  /\ calls' = [i \in DOMAIN calls |-> IF calls[i] = "approved" THEN "running" ELSE calls[i]]
  /\ UNCHANGED <<pc, turn, convVars, attempt, batch, outsideVars, endVars>>

CallReturns(i) ==
  /\ pc = "tools" /\ i \in DOMAIN calls /\ calls[i] = "running"
  /\ SetCall(i, "ok")
  /\ pendingSkill' = (pendingSkill \/ batch[i] \in SkillTools)

(* A serial batch converts a result where an exception of the tool is       *)
(* caught, a parallel one where nothing catches it.                         *)
CallReturnsUnserializable(i) ==
  /\ pc = "tools" /\ i \in DOMAIN calls /\ calls[i] = "running"
  /\ batch[i] \in Unserializable
  /\ SetCall(i, IF Serial(batch) THEN "error" ELSE "unserializable")
  /\ UNCHANGED pendingSkill

CallThrows(i) ==
  /\ pc = "tools" /\ i \in DOMAIN calls /\ calls[i] = "running"
  /\ SetCall(i, "error")
  /\ UNCHANGED pendingSkill

Settled == pc = "tools" /\ \A i \in DOMAIN calls :
             calls[i] \notin {"waiting", "approved", "running"}

BatchFails ==
  /\ Settled /\ Some("unserializable")
  /\ Fails("error")
  /\ UNCHANGED <<turn, convVars, attempt, toolVars, outsideVars>>

ToolMessages ==
  LET ids == [i \in DOMAIN calls |-> <<turn, i>>]
  IN  <<[role |-> "assistant", calls |-> ids, answers |-> <<>>]>>
        \o [i \in DOMAIN calls |-> [role |-> "tool", calls |-> <<>>, answers |-> <<ids[i]>>]]

Exchanges(n) == [i \in 1..(2 * n) |-> Exchange[IF i % 2 = 1 THEN 1 ELSE 2]]

(* The answers, the todo reminder if there are todos and the messages sent  *)
(* meanwhile.                                                               *)
BatchAnswered ==
  /\ Settled /\ ~Some("unserializable")
  /\ \E reminders \in {0} \cup (IF HasTodos THEN {1} ELSE {}) :
       messages' = messages \o ToolMessages \o Exchanges(reminders + queue)
  /\ queue' = 0
  /\ batch' = <<>> /\ calls' = <<>>
  /\ NextTurn
  /\ UNCHANGED <<pendingSkill, attempt, sent, aborted, abortTurn, endVars>>

-----------------------------------------------------------------------------
(* The handle *)

Send ==
  /\ sent < MaxSends
  /\ sent' = sent + 1 /\ queue' = queue + 1
  /\ UNCHANGED <<pc, turn, convVars, attempt, toolVars, aborted, abortTurn, endVars>>

Cancel ==
  /\ ~aborted
  /\ aborted' = TRUE /\ abortTurn' = turn
  /\ UNCHANGED <<pc, turn, convVars, attempt, toolVars, queue, sent, endVars>>

-----------------------------------------------------------------------------
CallStep(i) ==
  \/ CallRefused(i) \/ CallApproved(i)
  \/ CallReturns(i) \/ CallReturnsUnserializable(i) \/ CallThrows(i)

Loop ==
  \/ TurnAborted \/ TurnsExhausted \/ Compacts \/ StartsInference
  \/ \E retryable \in BOOLEAN : InferenceFails(retryable)
  \/ InferenceRetried \/ AnswersFinally \/ \E b \in Batches : AnswersWithTools(b)
  \/ StopBlocked \/ StopAllowed
  \/ \E i \in DOMAIN calls : CallStep(i)
  \/ CallsStart \/ BatchFails \/ BatchAnswered \/ Ends

Next == Loop \/ Send \/ Cancel

(* The model, hooks and tools answer or throw; timers fire. *)
Fairness == WF_vars(Loop)

Spec == Init /\ [][Next]_vars /\ Fairness

-----------------------------------------------------------------------------
(* Properties *)

(* Answers(k) of the calls of message i stand right behind it, in order. *)
Answered(i) ==
  \A k \in DOMAIN messages[i].calls :
    /\ i + k \in DOMAIN messages
    /\ messages[i + k].answers = <<messages[i].calls[k]>>

HasCall(i) ==
  \E j \in 1..(i - 1) : \E k \in DOMAIN messages[j].calls :
    i = j + k /\ messages[i].answers = <<messages[j].calls[k]>>

(* Model APIs reject a conversation in which a tool call is not answered    *)
(* right behind it or an answer has no call: none is ever sent, whatever    *)
(* was refused, failed, ran in parallel or was compacted away.              *)
ToolCallsAnswered ==
  pc = "infer" =>
    \A i \in DOMAIN messages :
      /\ Answered(i)
      /\ messages[i].role = "tool" => HasCall(i)

(* The model is never called with a conversation above the compaction       *)
(* threshold, but for the skill that is added behind the compaction.        *)
ContextWithinBudget == pc = "infer" => Len(messages) < Budget + 2

(* What the model is sent is well formed and fits, through every retry,     *)
(* refusal, reminder and compaction.                                        *)
ConversationSound == TypeOK /\ ToolCallsAnswered /\ ContextWithinBudget

(* A tool that is not parallelSafe never runs beside another call.          *)
UnsafeRunsAlone ==
  \A i, j \in DOMAIN calls :
    calls[i] = "running" /\ calls[j] = "running" /\ batch[i] \in Unsafe => i = j

(* What the handle says and what the SessionEnd hook and the memory log are *)
(* told, however cancel() races the end of the loop.  They agree on whether *)
(* the loop completed, and an interruption is a cancelled handle.  The other*)
(* way round they may differ: a cancel that fires while the loop is past its*)
(* look at the signal, in an inference or a tool call that then fails or in *)
(* the last turn, cancels the handle while the hook and the memory are told *)
(* of an error or of the turn limit (loop/index.ts:207-213).                *)
OutcomeAgrees ==
  /\ status = "completed" => reported = "completed" /\ result
  /\ pc = "done" /\ reported = "completed" => status = "completed"
  /\ reported = "interrupted" => status = "cancelled"
  /\ status = "failed" => reported \in {"error", "budget-exceeded"}
  /\ status = "cancelled" => aborted /\ ~result
  /\ status = "cancelled" /\ reported = "error" => abortTurn = turn
  /\ status = "cancelled" /\ reported = "budget-exceeded" =>
       turn = MaxTurns /\ abortTurn + 1 >= MaxTurns

(* After cancel() the loop finishes at most the turn it is in: the model is *)
(* not asked and no tool runs in a later one.                               *)
CancelEndsWithinTurn ==
  aborted /\ turn > abortTurn => pc \in {"top", "ending", "done"}

(* cancel() at any moment: the loop ends within the turn, and what it tells *)
(* of it differs from the handle only where it could no longer see it.      *)
CancelHonoured == CancelEndsWithinTurn /\ OutcomeAgrees

(* The loop ends: by its answer, an error, the signal or maxTurns.          *)
LoopEnds == <>(pc = "done")
=============================================================================
