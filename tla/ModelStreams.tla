---------------------------- MODULE ModelStreams ----------------------------
(***************************************************************************)
(* One stream() of a model adapter (src/src/models): the body of the       *)
(* response comes in chunks cut anywhere, lines are put together from the  *)
(* chunks, events from the lines, and the events are turned into text,     *)
(* tool calls and usage.                                                   *)
(*                                                                         *)
(* A payload is a number into what the provider sent.  On the wire it is   *)
(* two symbols and the end of its line, so that a chunk may end inside a   *)
(* line, between two lines, or between a line and the blank one after it.  *)
(* The arguments of a call are the numbers of their pieces.                *)
(***************************************************************************)
EXTENDS Integers, Sequences, SequencesExt

CONSTANTS
  StreamProviders,  \* "anthropic", "openai", "openrouter", "google", "ollama"
  NoBlock,          \* no tool call under this index
  MaxPayloads, MaxBacklog  \* bounds: payloads sent, symbols not yet read

ASSUME StreamAssumption ==
  /\ StreamProviders \subseteq {"anthropic", "openai", "openrouter", "google", "ollama"}
  /\ NoBlock \notin [n : Nat, args : Seq(Nat)]
  /\ MaxPayloads \in Nat /\ MaxBacklog \in Nat \ {0}

VARIABLES
  source,    \* the provider
  format,    \* params.responseFormat is given
  sent,      \* the payloads sent
  wire,      \* symbols sent and not read
  buffer,    \* the incomplete last line
  dataLines, \* lines of the event that is being read
  active,    \* activeToolBlocks, activeToolCalls: the call under each index
  out,       \* the chunks yielded
  stage,     \* "reading", "ended", "threw", "left"
  lost       \* the connection broke before all was read

streamVars == <<source, format, sent, wire, buffer, dataLines, active, out, stage, lost>>

Indexes == 1..2
Payload(type, index) == [type |-> type, index |-> index]
Chunk(type, n, args) == [type |-> type, n |-> n, args |-> args]

StreamInit ==
  /\ source \in StreamProviders
  /\ format \in IF source = "anthropic" THEN BOOLEAN ELSE {FALSE}
  /\ sent = <<>> /\ wire = <<>> /\ buffer = <<>> /\ dataLines = <<>>
  /\ active = [i \in Indexes |-> NoBlock]
  /\ out = <<>> /\ stage = "reading" /\ lost = FALSE

-----------------------------------------------------------------------------
(* The provider.  Anthropic's blocks come one after the other, and with a  *)
(* response format the first is the synthetic tool; OpenAI's calls may be  *)
(* interleaved and end with the finish reason; Gemini's come whole.        *)

SentAs(type, i) == {n \in DOMAIN sent : sent[n] = Payload(type, i)}
Opened == {i \in Indexes : SentAs("start", i) # {}}
Stopped == {i \in Indexes : SentAs("stop", i) # {}}
HasSent(types) == \E n \in DOMAIN sent : sent[n].type \in types
Completions == {"openai", "openrouter"}

Fresh == {i \in Indexes \ Opened : \A j \in 1..(i - 1) : j \in Opened}
PayloadsOf(type, S) == {Payload(type, i) : i \in S}

NextPayloads ==
  LET common == {Payload("text", 0)} IN
  IF HasSent({"done", "error"}) THEN {}
  ELSE CASE source = "anthropic" ->
              common \cup PayloadsOf("start", IF Opened = Stopped THEN Fresh ELSE {})
                \cup PayloadsOf("delta", Opened \ Stopped) \cup PayloadsOf("stop", Opened \ Stopped)
                \cup {Payload("usage", 0)}
         [] source \in Completions ->
              IF HasSent({"finish", "length"}) THEN {Payload("usage", 0), Payload("done", 0)}
              ELSE common \cup PayloadsOf("start", Fresh)
                     \cup PayloadsOf("delta", Opened)
                     \cup {Payload(IF Opened = {} THEN "length" ELSE "finish", 0), Payload("length", 0)}
         [] source = "google" -> common \cup {Payload("call", 0), Payload("usage", 0)}
         [] source = "ollama" -> common \cup {Payload("usage", 0), Payload("error", 0)}

(* A line ends with a line break; in server-sent events a blank line ends  *)
(* the event, which some OpenAI-compatible servers leave out.              *)
LineBreak == [n |-> 0, half |-> 0]
LineOf(n) == <<[n |-> n, half |-> 1], [n |-> n, half |-> 2], LineBreak>>

ProviderSends(p, blank) ==
  /\ stage = "reading" /\ ~lost /\ Len(sent) < MaxPayloads /\ Len(wire) < MaxBacklog
  /\ p \in NextPayloads
  /\ blank \/ source \in Completions \cup {"ollama"}
  /\ sent' = Append(sent, p)
  /\ wire' = wire \o LineOf(Len(sent')) \o (IF blank /\ source # "ollama" THEN <<LineBreak>> ELSE <<>>)
  /\ UNCHANGED <<source, format, buffer, dataLines, active, out, stage, lost>>

-----------------------------------------------------------------------------
(* What the adapter makes of a payload: the calls by index and the chunks. *)

Synthetic1(i) == format /\ i = 1
Visible(i, chunk) == IF Synthetic1(i) THEN <<>> ELSE <<chunk>>

Started(acc, n) ==
  LET i == sent[n].index IN
  [acc EXCEPT !.active[i] = [n |-> n, args |-> <<>>],
              !.out = @ \o Visible(i, Chunk("start", n, <<>>))]

(* Anthropic passes a piece on for a call it knows, the others always. *)
Longer(call, n) == [call EXCEPT !.args = Append(@, n)]

Grown(acc, n) ==
  LET i == sent[n].index
      known == acc.active[i] # NoBlock IN
  [acc EXCEPT !.active[i] = IF known THEN Longer(@, n) ELSE @,
              !.out = IF known \/ source # "anthropic" THEN @ \o Visible(i, Chunk("delta", n, <<>>)) ELSE @]

Ended(acc, i) ==
  LET call == acc.active[i] IN
  IF call = NoBlock THEN acc
  ELSE [acc EXCEPT !.active[i] = NoBlock, !.out = @ \o Visible(i, Chunk("end", call.n, call.args))]

AnthropicPayload(acc, n) ==
  CASE sent[n].type = "start" -> Started(acc, n)
    [] sent[n].type = "delta" -> Grown(acc, n)
    [] sent[n].type = "stop" -> Ended(acc, sent[n].index)
    [] OTHER -> [acc EXCEPT !.out = Append(@, Chunk(sent[n].type, n, <<>>))]

(* The calls end together with the finish reason "tool_calls". *)
OpenAIPayload(acc, n) ==
  CASE sent[n].type = "start" -> Started(acc, n)
    [] sent[n].type = "delta" -> Grown(acc, n)
    [] sent[n].type = "finish" -> Ended(Ended(acc, 1), 2)
    [] sent[n].type = "length" -> acc
    [] OTHER -> [acc EXCEPT !.out = Append(@, Chunk(sent[n].type, n, <<>>))]
OpenRouterPayload(acc, n) == OpenAIPayload(acc, n)

GooglePayload(acc, n) ==
  IF sent[n].type = "call"
  THEN [acc EXCEPT !.out = Append(Append(@, Chunk("start", n, <<>>)), Chunk("end", n, <<>>))]
  ELSE [acc EXCEPT !.out = Append(@, Chunk(sent[n].type, n, <<>>))]

OllamaPayload(acc, n) ==
  IF sent[n].type = "error" THEN [acc EXCEPT !.stage = "threw"]
  ELSE [acc EXCEPT !.out = Append(@, Chunk(sent[n].type, n, <<>>))]

Told(acc, n) ==
  IF acc.stage # "reading" THEN acc
  ELSE CASE source = "anthropic" -> AnthropicPayload(acc, n)
         [] source = "openai" -> OpenAIPayload(acc, n)
         [] source = "openrouter" -> OpenRouterPayload(acc, n)
         [] source = "google" -> GooglePayload(acc, n)
         [] source = "ollama" -> OllamaPayload(acc, n)

-----------------------------------------------------------------------------
(* From symbols to payloads.  A line that lost its end does not parse, nor *)
(* do lines joined into one event, except where each is an object of its   *)
(* own; what does not parse is skipped with a warning.                     *)

Whole(line) == Len(line) = 2
NumbersOf(lines) == [k \in DOMAIN lines |-> lines[k][1].n]

ParsedStream(lines) ==
  IF \A k \in DOMAIN lines : Whole(lines[k])
  THEN IF Len(lines) = 1 \/ source \in Completions THEN NumbersOf(lines) ELSE <<>>
  ELSE <<>>

EventOf(acc) ==
  IF acc.lines = <<>> THEN acc
  ELSE FoldLeft(Told, [acc EXCEPT !.lines = <<>>], ParsedStream(acc.lines))

(* "[DONE]" ends the stream, after the lines before it. *)
IsDone(line) == Whole(line) /\ sent[line[1].n].type = "done"

DataLine(acc, line) ==
  CASE line = <<>> -> EventOf(acc)
    [] line # <<>> /\ IsDone(line) -> [EventOf(acc) EXCEPT !.stage = "ended"]
    [] OTHER -> [acc EXCEPT !.lines = Append(@, line)]

NdjsonLine(acc, line) == IF line = <<>> THEN acc ELSE EventOf([acc EXCEPT !.lines = <<line>>])

LineEnds(acc) ==
  LET read == [acc EXCEPT !.line = <<>>] IN
  IF source = "ollama" THEN NdjsonLine(read, acc.line) ELSE DataLine(read, acc.line)

Symbol(acc, s) ==
  IF acc.stage # "reading" THEN acc
  ELSE IF s = LineBreak THEN LineEnds(acc) ELSE [acc EXCEPT !.line = Append(@, s)]

(* The buffer keeps the last line, which is not complete yet. *)
Kept(line) == line

Reading == [line |-> buffer, lines |-> dataLines, active |-> active, out |-> out, stage |-> stage]
Becomes(acc) ==
  /\ buffer' = Kept(acc.line) /\ dataLines' = acc.lines /\ active' = acc.active
  /\ out' = acc.out /\ stage' = acc.stage

ChunkArrives(k) ==
  /\ stage = "reading" /\ k \in DOMAIN wire
  /\ Becomes(FoldLeft(Symbol, Reading, SubSeq(wire, 1, k)))
  /\ wire' = SubSeq(wire, k + 1, Len(wire))
  /\ UNCHANGED <<source, format, sent, lost>>

(* The body ends, when all was sent or earlier: what is in the buffer is a *)
(* line, and the lines that are there an event.                            *)
BodyEnds ==
  /\ stage = "reading" /\ wire = <<>>
  /\ LET flushed == EventOf(IF buffer = <<>> THEN Reading ELSE LineEnds(Reading)) IN
     Becomes([flushed EXCEPT !.stage = IF @ = "threw" THEN @ ELSE "ended"])
  /\ UNCHANGED <<source, format, sent, wire, lost>>

(* The rest of the body is lost, and its end comes at once or as an error. *)
ConnectionBreaks ==
  /\ stage = "reading" /\ wire # <<>>
  /\ wire' = <<>> /\ lost' = TRUE
  /\ stage' \in {"reading", "threw"}
  /\ UNCHANGED <<source, format, sent, buffer, dataLines, active, out>>

(* The consumer of the generator leaves its loop: the reader is released. *)
ConsumerLeaves ==
  /\ stage = "reading" /\ out # <<>> /\ stage' = "left"
  /\ UNCHANGED <<source, format, sent, wire, buffer, dataLines, active, out, lost>>

StreamNext ==
  \/ \E p \in NextPayloads, blank \in BOOLEAN : ProviderSends(p, blank)
  \/ \E k \in DOMAIN wire : ChunkArrives(k)
  \/ BodyEnds \/ ConnectionBreaks \/ ConsumerLeaves

StreamSpec == StreamInit /\ [][StreamNext]_streamVars

-----------------------------------------------------------------------------
(* A sequence lists the numbers of a set in their order. *)
Lists(s, S) ==
  /\ \A k \in DOMAIN s : s[k] \in S /\ \A j \in 1..(k - 1) : s[j] < s[k]
  /\ \A n \in S : \E k \in DOMAIN s : s[k] = n
PiecesOf(n) == IF source = "google" THEN {} ELSE SentAs("delta", sent[n].index)
Texts == SentAs("text", 0)
CallsEndWith(n) ==
  CASE source = "anthropic" -> SentAs("stop", sent[n].index) # {}
    [] source \in Completions -> HasSent({"finish"})
    [] OTHER -> TRUE

(* However the body was cut into chunks: text comes in the order sent and  *)
(* none twice; a call ends once, after it started, with all the pieces     *)
(* sent for it and none of another's (models/anthropic.ts:486); and a body *)
(* read to its end has told everything, but for a call the provider cut    *)
(* off (models/openai.ts:438) and the synthetic one.                       *)
StreamTellsReply ==
  /\ \A k \in DOMAIN out : out[k].type = "text" =>
       /\ out[k].n \in Texts
       /\ \A j \in 1..(k - 1) : out[j].type = "text" => out[j].n < out[k].n
       /\ \A n \in Texts : n < out[k].n => \E j \in 1..(k - 1) : out[j] = Chunk("text", n, <<>>)
  /\ \A k \in DOMAIN out : out[k].type = "end" =>
       /\ \E j \in 1..(k - 1) : out[j].type = "start" /\ out[j].n = out[k].n
       /\ \A j \in 1..(k - 1) : ~(out[j].type = "end" /\ out[j].n = out[k].n)
       /\ Lists(out[k].args, PiecesOf(out[k].n))
  /\ stage = "ended" /\ ~lost =>
       /\ \A n \in Texts : \E k \in DOMAIN out : out[k] = Chunk("text", n, <<>>)
       /\ \A n \in DOMAIN sent :
            sent[n].type = "start" /\ ~Synthetic1(sent[n].index) /\ CallsEndWith(n)
              => \E k \in DOMAIN out : out[k].type = "end" /\ out[k].n = n
=============================================================================
