---------------------------- MODULE RemoteAgents ----------------------------
(***************************************************************************)
(* One task between an A2AClient and an A2AServer that listens             *)
(* (src/packages/a2a/src): sendTask asks for the whole answer, streamTask  *)
(* reads it as server-sent events while the handler is still at work.      *)
(*                                                                         *)
(* A chunk of the answer is its number.  An event is two pieces on the     *)
(* wire, its text and the end of its line, and a read takes any number of  *)
(* pieces.                                                                 *)
(***************************************************************************)
EXTENDS Naturals, Sequences, SequencesExt

CONSTANT MaxChunks  \* bound: chunks of one answer

ASSUME RemoteAssumption == MaxChunks \in Nat \ {0}

VARIABLES
  ask,      \* <<the task and how both sides are set up>>, or <<>>
  handler,  \* "idle", "running", "done", "threw"
  said,     \* the chunks the handler yielded, or the one it returned
  answer,   \* what the server answered the request with, or "none"
  enqueued, \* events the response has not given to the socket yet
  socket,   \* pieces that were sent and not read
  buffer,   \* what the client has read and not looked at
  got,      \* the chunks the caller of the client has
  client    \* "idle", "waiting", "reading", or how the call ended

remoteVars == <<ask, handler, said, answer, enqueued, socket, buffer, got, client>>

Asks == [method : {"send", "stream"},
         authorised : BOOLEAN,  \* the key is the server's, or the server has none
         fits : BOOLEAN,        \* the body is not larger than MAX_BODY_SIZE
         streaming : BOOLEAN,   \* agentCard.capabilities.streaming
         generator : BOOLEAN,   \* the handler yields chunks
         timed : BOOLEAN]       \* config.timeout of the client

RemoteInit ==
  /\ ask = <<>>
  /\ handler = "idle" /\ said = <<>> /\ answer = "none" /\ enqueued = <<>>
  /\ socket = <<>> /\ buffer = <<>> /\ got = <<>> /\ client = "idle"

Task == ask[1]
Streams == Task.method = "stream"
Event(kind, chunk) == [kind |-> kind, chunk |-> chunk]
Pieces(event) == <<[half |-> "text", event |-> event], [half |-> "end", event |-> event]>>

(* sendTask or streamTask is called. *)
Ask ==
  /\ client = "idle" /\ client' = "waiting"
  /\ \E task \in Asks : ask' = <<task>>
  /\ UNCHANGED <<handler, said, answer, enqueued, socket, buffer, got>>

-----------------------------------------------------------------------------
(* The server.  The size is checked while the body arrives, then the key.  *)

Unserved == ask # <<>> /\ handler = "idle" /\ answer = "none"

Refuse ==
  /\ Unserved
  /\ \/ ~Task.fits /\ answer' = "too large"
     \/ Task.fits /\ ~Task.authorised /\ answer' = "unauthorized"
     \/ Task.fits /\ Task.authorised /\ Streams /\ ~Task.streaming /\ answer' = "error"
  /\ UNCHANGED <<ask, handler, said, enqueued, socket, buffer, got, client>>

(* A generator is a stream at once, a promise when it has its text.        *)
CallHandler ==
  /\ Unserved
  /\ Task.fits /\ Task.authorised /\ (Streams => Task.streaming)
  /\ handler' = "running"
  /\ answer' = IF Streams /\ Task.generator THEN "stream" ELSE answer
  /\ UNCHANGED <<ask, said, enqueued, socket, buffer, got, client>>

HandlerSays ==
  /\ handler = "running" /\ Len(said) < (IF Task.generator THEN MaxChunks ELSE 1)
  /\ said' = Append(said, Len(said) + 1)
  /\ enqueued' = IF Streams THEN Append(enqueued, Event("text", Len(said) + 1)) ELSE enqueued
  /\ answer' = IF Streams THEN "stream" ELSE answer
  /\ UNCHANGED <<ask, handler, socket, buffer, got, client>>

HandlerEnds ==
  /\ handler = "running" /\ (Task.generator \/ said # <<>>)
  /\ handler' = "done"
  /\ IF Streams
     THEN /\ enqueued' = enqueued \o <<Event("completed", 0), Event("done", 0)>>
          /\ UNCHANGED answer
     ELSE answer' = "result" /\ UNCHANGED enqueued
  /\ UNCHANGED <<ask, said, socket, buffer, got, client>>

(* An error of the response empties its queue; the event that tells of the *)
(* error is sent only if the socket has taken everything before it.        *)
HandlerThrows ==
  /\ handler = "running" /\ (Task.generator \/ said = <<>>)
  /\ handler' = "threw"
  /\ IF answer = "stream"
     THEN /\ enqueued' = <<>>
          /\ socket' = IF enqueued = <<>> THEN socket \o Pieces(Event("error", 0)) ELSE socket
          /\ UNCHANGED answer
     ELSE answer' = "error" /\ UNCHANGED <<enqueued, socket>>
  /\ UNCHANGED <<ask, said, buffer, got, client>>

(* listen() copies the response to the socket, also when nobody reads it,  *)
(* and ends the socket in the same way after the last event and after an   *)
(* error.                                                                  *)
Pump ==
  /\ enqueued # <<>>
  /\ socket' = socket \o Pieces(Head(enqueued)) /\ enqueued' = Tail(enqueued)
  /\ UNCHANGED <<ask, handler, said, answer, buffer, got, client>>

SocketEnded == handler \in {"done", "threw"} /\ enqueued = <<>>

-----------------------------------------------------------------------------
(* The client.                                                             *)

(* The head of a stream comes with its first event or its end.  A JSON-RPC *)
(* error is an error to sendTask; to streamTask it is a body without a     *)
(* line of data.                                                           *)
HearAnswer ==
  /\ client = "waiting" /\ answer # "none"
  /\ answer = "stream" => socket # <<>> \/ SocketEnded
  /\ client' = CASE answer \in {"too large", "unauthorized"} -> "threw"
                 [] answer = "error" -> IF Streams THEN "ended" ELSE "threw"
                 [] answer = "result" -> "returned"
                 [] answer = "stream" -> "reading"
  /\ got' = IF answer = "result" THEN said ELSE got
  /\ UNCHANGED <<ask, handler, said, answer, enqueued, socket, buffer>>

(* buffer.split("\n"): a line of n pieces is there with its end. *)
LineAt(n) ==
  /\ n \in DOMAIN buffer /\ buffer[n].half = "end"
  /\ \A i \in 1..(n - 1) : buffer[i].half = "text"
HasLine == \E n \in DOMAIN buffer : LineAt(n)

Read ==
  /\ client = "reading" /\ ~HasLine
  /\ \E n \in 1..Len(socket) :
       /\ buffer' = buffer \o SubSeq(socket, 1, n)
       /\ socket' = SubSeq(socket, n + 1, Len(socket))
  /\ UNCHANGED <<ask, handler, said, answer, enqueued, got, client>>

(* Each line of a read is looked at before the next read, and the consumer  *)
(* has its text in between; a line that lost its text does not start with   *)
(* "data: ".                                                                *)
TakeLine ==
  /\ client = "reading"
  /\ \E n \in DOMAIN buffer :
       LET event == buffer[n].event
           kind == IF n = 1 THEN "none" ELSE event.kind IN
       /\ LineAt(n)
       /\ buffer' = SubSeq(buffer, n + 1, Len(buffer))
       /\ got' = IF kind = "text" THEN Append(got, event.chunk) ELSE got
       /\ client' = IF kind = "done" THEN "completed" ELSE client
  /\ UNCHANGED <<ask, handler, said, answer, enqueued, socket>>

(* The end of the body, or 30 s without one: r.cancel() ends the read as   *)
(* the end of the body does.                                               *)
ReadEnds ==
  /\ client = "reading" /\ ~HasLine /\ socket = <<>> /\ (SocketEnded \/ ~Task.timed)
  /\ client' = "ended"
  /\ UNCHANGED <<ask, handler, said, answer, enqueued, socket, buffer, got>>

(* AbortSignal.timeout(config.timeout) runs over the whole call; the lines *)
(* that are already there come first.                                      *)
TimeIsUp ==
  /\ client = "waiting" \/ (client = "reading" /\ ~HasLine)
  /\ Task.timed
  /\ client' = "threw"
  /\ UNCHANGED <<ask, handler, said, answer, enqueued, socket, buffer, got>>

(* The consumer stops iterating; only the lock of the reader is released.  *)
Leave ==
  /\ client = "reading" /\ got # <<>>
  /\ client' = "left"
  /\ UNCHANGED <<ask, handler, said, answer, enqueued, socket, buffer, got>>

RemoteNext ==
  \/ Ask \/ Refuse \/ CallHandler \/ HandlerSays \/ HandlerEnds \/ HandlerThrows \/ Pump
  \/ HearAnswer \/ Read \/ TakeLine \/ ReadEnds \/ TimeIsUp \/ Leave

(* What was sent is read and what is asked is answered, by a handler that  *)
(* ends: MaxChunks bounds what it says, and then it returns or throws.     *)
RemoteFairness ==
  /\ WF_remoteVars(Refuse) /\ WF_remoteVars(CallHandler)
  /\ WF_remoteVars(HandlerSays) /\ WF_remoteVars(HandlerEnds \/ HandlerThrows)
  /\ WF_remoteVars(Pump) /\ WF_remoteVars(HearAnswer) /\ WF_remoteVars(Read)
  /\ WF_remoteVars(TakeLine) /\ WF_remoteVars(ReadEnds)

-----------------------------------------------------------------------------
(* The caller has the chunks of the handler in their order and without a   *)
(* hole, wherever the body was cut; it has all of them if sendTask         *)
(* returned, or if the stream came to its [DONE].  A stream that ends in   *)
(* any other way may be short, although streamTask returns (client:114).   *)
RemoteAnswersTrue ==
  /\ IsPrefix(got, said)
  /\ client \in {"returned", "completed"} => handler = "done" /\ got = said
  /\ client = "threw" => \/ Task.timed \/ ~Task.fits \/ ~Task.authorised
                         \/ ~Streams /\ handler = "threw"

(* Whoever asks a remote agent is answered, or told that it will not be.   *)
RemoteSettles == client \in {"waiting", "reading"} ~> client \notin {"waiting", "reading"}
=============================================================================
