---------------------------- MODULE ModelRequests ----------------------------
(***************************************************************************)
(* One chat() of a model adapter (src/src/models): the conversation and    *)
(* the options become the body of the provider's request, its answer       *)
(* becomes a ChatResponse.                                                 *)
(*                                                                         *)
(* A message is a role, whether it has text or an image, the ids of its    *)
(* tool calls, and for a tool's result the id of the call it answers.  A   *)
(* message of a request is a role and blocks; texts, arguments, schemas    *)
(* and token counts are left out.                                          *)
(***************************************************************************)
EXTENDS Integers, Sequences, SequencesExt

CONSTANTS
  Providers,     \* "anthropic", "openai", "openrouter", "google", "ollama"
  CallLists,     \* sequences of tool-call ids an assistant message may have
  CallIds,
  NoId,          \* a tool message without toolCallId
  MaxMessages,   \* bound: messages of a conversation
  WaitCap        \* MAX_RETRY_AFTER_MS

ASSUME RequestAssumption ==
  /\ Providers \subseteq {"anthropic", "openai", "openrouter", "google", "ollama"}
  /\ CallLists \subseteq Seq(CallIds) /\ NoId \notin CallIds
  /\ MaxMessages \in Nat /\ WaitCap \in Nat \ {0}

VARIABLES
  provider,
  conversation,   \* params.messages
  params,         \* tools, toolChoice, responseFormat, systemPrompt
  phase,          \* "idle", "sent", "answered", "threw"
  body,           \* the request
  response        \* the ChatResponse, or the error

requestVars == <<provider, conversation, params, phase, body, response>>

Message(role, text, image, calls, id) ==
  [role |-> role, text |-> text, image |-> image, calls |-> calls, id |-> id]

Messages ==
  {Message("user", TRUE, i, <<>>, NoId) : i \in BOOLEAN}
    \cup {Message("system", TRUE, FALSE, <<>>, NoId)}
    \cup {Message("assistant", TRUE, FALSE, c, NoId) : c \in CallLists \cup {<<>>}}
    \cup {Message("assistant", FALSE, FALSE, c, NoId) : c \in CallLists}
    \cup {Message("tool", TRUE, FALSE, <<>>, i) : i \in CallIds \cup {NoId}}

Params ==
  [tools : BOOLEAN, choice : {"unset", "none", "auto", "required", "named"},
   format : BOOLEAN, prompt : BOOLEAN]
Plain == [tools |-> TRUE, choice |-> "auto", format |-> FALSE, prompt |-> TRUE]

-----------------------------------------------------------------------------
(* convertMessages *)

Block(type, id) == [type |-> type, id |-> id]
Turn(role, blocks) == [role |-> role, blocks |-> blocks]

TextBlocks(m) == IF m.text THEN <<Block("text", NoId)>> ELSE <<>>
CallBlocks(m) == [i \in DOMAIN m.calls |-> Block("call", m.calls[i])]
Multimodal(m) == TextBlocks(m) \o IF m.image THEN <<Block("image", NoId)>> ELSE <<>>
Spoken(m) == IF m.calls # <<>> THEN TextBlocks(m) \o CallBlocks(m) ELSE Multimodal(m)

(* Anthropic: the results of a turn are held until a message of another    *)
(* kind, and sent as one user message.                                     *)
Flushed(acc) ==
  IF acc.pending = <<>> THEN acc
  ELSE [turns |-> Append(acc.turns, Turn("user", acc.pending)), pending |-> <<>>]

NotFlushed(acc) == acc
BetweenTurns(acc) == Flushed(acc)

AnthropicStep(acc, m) ==
  CASE m.role = "system" -> acc
    [] m.role = "tool" -> [acc EXCEPT !.pending = Append(@, Block("result", m.id))]
    [] OTHER -> LET before == BetweenTurns(acc) IN
                [before EXCEPT !.turns = Append(@, Turn(m.role, Spoken(m)))]

AnthropicTurns(messages) ==
  Flushed(FoldLeft(AnthropicStep, [turns |-> <<>>, pending |-> <<>>], messages)).turns

SystemTurn == Turn("system", <<Block("text", NoId)>>)
Prompted(turns, prompt) == IF prompt THEN <<SystemTurn>> \o turns ELSE turns

OpenAITurn(m) ==
  CASE m.role = "system" -> SystemTurn
    [] m.role = "tool" -> Turn("tool", <<Block("result", m.id)>>)
    [] OTHER -> Turn(m.role, Spoken(m))
OpenAITurns(messages, prompt) ==
  Prompted([i \in DOMAIN messages |-> OpenAITurn(messages[i])], prompt)
OpenRouterTurns(messages, prompt) ==
  Prompted([i \in DOMAIN messages |-> OpenAITurn(messages[i])], prompt)

(* Gemini names roles in its own way and answers a call by its name. *)
GoogleTurn(m) ==
  CASE m.role = "tool" -> Turn("function", <<Block("result", m.id)>>)
    [] m.role = "assistant" -> Turn("model", Spoken(m))
    [] OTHER -> Turn("user", Multimodal(m))
GoogleStep(turns, m) == IF m.role = "system" THEN turns ELSE Append(turns, GoogleTurn(m))
GoogleTurns(messages) == FoldLeft(GoogleStep, <<>>, messages)

(* Ollama knows no tools: their results are what the user says. *)
OllamaTurns(messages, prompt) ==
  Prompted([i \in DOMAIN messages |->
              IF messages[i].role = "tool" THEN Turn("user", <<Block("result", messages[i].id)>>)
              ELSE Turn(messages[i].role, TextBlocks(messages[i]))], prompt)

(* Anthropic's and Gemini's system text comes apart from the messages. *)
HasSystem(p, messages, prompt) ==
  /\ p \in {"anthropic", "google"}
  /\ prompt \/ \E i \in DOMAIN messages : messages[i].role = "system"

-----------------------------------------------------------------------------
(* buildBody *)

Turns(p, messages, prompt) ==
  CASE p = "anthropic" -> AnthropicTurns(messages)
    [] p = "openai" -> OpenAITurns(messages, prompt)
    [] p = "openrouter" -> OpenRouterTurns(messages, prompt)
    [] p = "google" -> GoogleTurns(messages)
    [] p = "ollama" -> OllamaTurns(messages, prompt)

(* What is offered and what the model must choose: a response format is a  *)
(* tool of its own for Anthropic, and stands in for the others.            *)
Offered(p, o) ==
  CASE p = "anthropic" /\ o.format -> "format"
    [] p = "anthropic" /\ ~o.format /\ o.choice = "none" -> "nothing"
    [] p = "ollama" -> "nothing"
    [] OTHER -> IF o.tools THEN "tools" ELSE "nothing"

AnthropicChoice(o) ==
  CASE o.format -> "format" [] ~o.format /\ o.choice = "none" -> "unset" [] OTHER -> o.choice
OpenAIChoice(o) == o.choice
OpenRouterChoice(o) ==
  IF ~o.tools THEN "unset" ELSE IF o.choice = "unset" THEN "auto" ELSE o.choice
GoogleChoice(o) == IF o.tools THEN o.choice ELSE "unset"

Forced(p, o) ==
  CASE p = "anthropic" -> AnthropicChoice(o) [] p = "openai" -> OpenAIChoice(o)
    [] p = "openrouter" -> OpenRouterChoice(o) [] p = "google" -> GoogleChoice(o)
    [] p = "ollama" -> "unset"

Body(p, messages, o) ==
  [turns |-> Turns(p, messages, o.prompt), system |-> HasSystem(p, messages, o.prompt),
   offered |-> Offered(p, o), choice |-> Forced(p, o),
   format |-> o.format /\ p \in {"openai", "openrouter", "google"}]

NoBody == [turns |-> <<>>, system |-> FALSE, offered |-> "nothing", choice |-> "unset", format |-> FALSE]
NoResponse == [kind |-> "none"]

(* The results that come right after the message at i, and conversations   *)
(* in which every call has its result, as the agent loop keeps them.       *)
ResultsAfter(messages, i) ==
  LET last == CHOOSE j \in i..Len(messages) :
                /\ \A k \in (i + 1)..j : messages[k].role = "tool"
                /\ j < Len(messages) => messages[j + 1].role # "tool" IN
  [k \in 1..(last - i) |-> messages[i + k].id]

Answered(messages) ==
  \A i \in DOMAIN messages :
    /\ messages[i].calls # <<>> => ResultsAfter(messages, i) = messages[i].calls
    /\ messages[i].role = "tool" =>
         \E j \in 1..(i - 1) : messages[j].calls # <<>> /\ \A k \in (j + 1)..i : messages[k].role = "tool"

RequestInit ==
  /\ provider \in Providers
  /\ conversation \in {c \in BoundedSeq(Messages, MaxMessages) : Len(c) <= 2 \/ Answered(c)}
  /\ params \in Params
  /\ Len(conversation) <= 1 \/ params = Plain
  /\ phase = "idle" /\ body = NoBody /\ response = NoResponse

(* A result without an id cannot be sent to Anthropic. *)
Convertible ==
  provider = "anthropic" =>
    \A i \in DOMAIN conversation : conversation[i].role = "tool" => conversation[i].id # NoId

Send ==
  /\ phase = "idle" /\ Convertible
  /\ body' = Body(provider, conversation, params)
  /\ phase' = "sent"
  /\ UNCHANGED <<provider, conversation, params, response>>

CannotConvert ==
  /\ phase = "idle" /\ ~Convertible
  /\ phase' = "threw" /\ response' = [kind |-> "invalid"]
  /\ UNCHANGED <<provider, conversation, params, body>>

-----------------------------------------------------------------------------
(* What the provider answers: calls of the tools offered to it, the        *)
(* synthetic one of a response format among them, and a reason to stop.    *)

Synthetic(call) == call = "format"
AnswerCalls ==
  CASE body.offered = "tools" -> {<<>>, <<"tool">>, <<"tool", "tool">>}
    [] body.offered = "format" -> {<<>>, <<"format">>}
    [] OTHER -> {<<>>}

StopOf(calls, cut) == CASE cut -> "max_tokens" [] ~cut /\ calls # <<>> -> "tool_use" [] OTHER -> "end"

RealCalls(calls) == FoldLeft(LAMBDA real, c : IF Synthetic(c) THEN real ELSE Append(real, c), <<>>, calls)

(* chat(): Anthropic's stop reason is overridden when the only call was    *)
(* synthetic, Gemini's is made up from the calls, Ollama's is always the   *)
(* same; a response format is parsed from the call or from the text.       *)
AnthropicResponse(calls, cut) ==
  LET real == RealCalls(calls)
      stop == StopOf(calls, cut) IN
  [kind |-> "response", calls |-> real, parsed |-> params.format /\ calls # <<>>,
   stop |-> IF stop = "tool_use" /\ real = <<>> /\ params.format THEN "end" ELSE stop]

OpenAIResponse(calls, cut, json) ==
  [kind |-> "response", calls |-> calls, parsed |-> params.format /\ json, stop |-> StopOf(calls, cut)]
OpenRouterResponse(calls, cut, json) ==
  [kind |-> "response", calls |-> calls, parsed |-> params.format /\ json, stop |-> StopOf(calls, cut)]

GoogleResponse(calls, cut, json) ==
  [kind |-> "response", calls |-> calls, parsed |-> params.format /\ json,
   stop |-> IF cut THEN "max_tokens" ELSE IF calls # <<>> THEN "tool_use" ELSE "end"]

OllamaResponse == [kind |-> "response", calls |-> <<>>, parsed |-> FALSE, stop |-> "end"]

Response(calls, cut, json) ==
  CASE provider = "anthropic" -> AnthropicResponse(calls, cut)
    [] provider = "openai" -> OpenAIResponse(calls, cut, json)
    [] provider = "openrouter" -> OpenRouterResponse(calls, cut, json)
    [] provider = "google" -> GoogleResponse(calls, cut, json)
    [] provider = "ollama" -> OllamaResponse

Answers ==
  /\ phase = "sent" /\ phase' = "answered"
  /\ \E calls \in AnswerCalls, cut \in BOOLEAN, json \in BOOLEAN :
       response' = Response(calls, cut, json)
  /\ UNCHANGED <<provider, conversation, params, body>>

(* No candidate: a moderation block of OpenAI, a safety filter of Gemini. *)
Blocked ==
  /\ phase = "sent" /\ provider \in {"openai", "openrouter", "google"}
  /\ phase' = "answered"
  /\ response' = [kind |-> "response", calls |-> <<>>, parsed |-> FALSE, stop |-> "end"]
  /\ UNCHANGED <<provider, conversation, params, body>>

(* A rate limit says how long to wait, in one of two headers; a wait that  *)
(* is absent, zero or no number is left out, a long one is cut.            *)
Waits == {-1, 0, 1, WaitCap + 1}
RetryAfter(ms, sec) ==
  LET usable == SelectSeq(<<ms, sec>>, LAMBDA w : w > 0) IN
  IF usable = <<>> THEN -1 ELSE IF usable[1] > WaitCap THEN WaitCap ELSE usable[1]

RateLimited ==
  /\ phase = "sent" /\ phase' = "threw"
  /\ \E ms \in Waits, sec \in Waits :
       response' = [kind |-> "rate limit", wait |-> RetryAfter(ms, sec)]
  /\ UNCHANGED <<provider, conversation, params, body>>

(* Another status, or a body that cannot be read. *)
Refused ==
  /\ phase = "sent" /\ phase' = "threw"
  /\ \E k \in {"api error", "unreadable"} : response' = [kind |-> k]
  /\ UNCHANGED <<provider, conversation, params, body>>

RequestNext == Send \/ CannotConvert \/ Answers \/ Blocked \/ RateLimited \/ Refused

RequestSpec == RequestInit /\ [][RequestNext]_requestVars

-----------------------------------------------------------------------------
(* What a turn and a message say, and the calls a turn ends with. *)
Said(turn) == IF turn.role = "system" THEN <<>> ELSE turn.blocks
Meant(m) ==
  CASE m.role = "system" -> <<>> [] m.role = "tool" -> <<Block("result", m.id)>> [] OTHER -> Spoken(m)

HasCalls(blocks) == \E i \in DOMAIN blocks : blocks[i].type = "call"
CallsIn(blocks) ==
  LET first == CHOOSE i \in DOMAIN blocks :
                 blocks[i].type = "call" /\ \A j \in 1..(i - 1) : blocks[j].type # "call" IN
  SubSeq(blocks, first, Len(blocks))

(* In a conversation whose calls are all answered, the request keeps every *)
(* answer with its calls: Anthropic wants the results of a turn in the one *)
(* user message that follows it (models/anthropic.ts:102), the others one  *)
(* message for each result; and nothing the conversation says is lost or   *)
(* reordered on the way.                                                   *)
AnswersFollowCalls ==
  phase = "sent" /\ Answered(conversation) /\ provider # "ollama" =>
    LET turns == body.turns IN
    /\ FlattenSeq([i \in DOMAIN turns |-> Said(turns[i])])
         = FlattenSeq([i \in DOMAIN conversation |-> Meant(conversation[i])])
    /\ \A i \in DOMAIN turns : HasCalls(turns[i].blocks) =>
         LET calls == CallsIn(turns[i].blocks) IN
         IF provider = "anthropic"
         THEN i < Len(turns) /\ turns[i + 1].role = "user"
                /\ turns[i + 1].blocks = [k \in DOMAIN calls |-> Block("result", calls[k].id)]
         ELSE \A k \in DOMAIN calls :
                i + k \in DOMAIN turns /\ turns[i + k].blocks = <<Block("result", calls[k].id)>>

(* Who gets a response acts on its calls: one that stops for a tool has a  *)
(* call to run, and a call that stands for a response format never gets to *)
(* the tools (models/anthropic.ts:415, 436).                               *)
StopMatchesCalls ==
  response.kind = "response" =>
    /\ response.stop = "tool_use" => response.calls # <<>>
    /\ \A i \in DOMAIN response.calls : ~Synthetic(response.calls[i])
    /\ response.calls # <<>> => body.offered = "tools"
=============================================================================
