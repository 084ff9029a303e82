---------------------------- MODULE Coordination ----------------------------
(***************************************************************************)
(* What agents and observers talk through inside one process: the broker   *)
(* of requests and replies, the topics of PubSub, the event bus, and the   *)
(* dead letters of failed nodes (coordination/*.ts, events/bus.ts, dlq.ts).*)
(* Handlers are called synchronously, one inside another: what a handler   *)
(* does to the subscriptions happens in the middle of a delivery.          *)
(***************************************************************************)
EXTENDS Naturals, Sequences, FiniteSets, SequencesExt, Functions

CONSTANTS
  Requests,                            \* requests between agents
  Patterns, Topics, Subscribers,       \* patterns and topics are sequences
  MaxBuffer, MaxPublished,
  Types, Listeners, Onces, Waiters, Observers,   \* on, once, waitFor, onAll
  MaxEmitted, MaxDepth,
  LetterThreads, MaxPerThread, MaxLetters,
  MaxChanges                           \* bound: changes of subscriptions

\* once() and waitFor() make a listener of their own each time.
OnceOnly == Onces \cup Waiters

ASSUME CoordinationAssumption ==
  /\ Patterns \cup Topics \subseteq Seq(STRING)
  /\ MaxBuffer \in Nat /\ MaxPerThread \in Nat
  /\ Onces \cap Waiters = {} /\ OnceOnly \cap (Listeners \cup Observers) = {}

VARIABLES
  request, pending, resolvers, timeouts,       \* the broker
  subscriptions, recent, deliveries,           \* PubSub
  published, expected, delivered,              \* history
  changed,                                     \* counted against MaxChanges
  handlers, observers, emissions, waiting, waitTimers, disposed,   \* the bus
  emitted, heard, onceUsed, clearedWithin,     \* history
  busChanged,                                  \* counted against MaxChanges
  letters, letterCount, letterHistory          \* the dead letters

brokerVars == <<request, pending, resolvers, timeouts>>
topicVars == <<subscriptions, recent, deliveries, published, expected, delivered, changed>>
busVars == <<handlers, observers, emissions, waiting, waitTimers, disposed,
             emitted, heard, onceUsed, clearedWithin, busChanged>>
letterVars == <<letters, letterCount, letterHistory>>

(***************************************************************************)
(* Requests and replies.                                                   *)
(***************************************************************************)
BrokerInit == /\ request = [r \in Requests |-> "idle"]
              /\ pending = {} /\ resolvers = {} /\ timeouts = {}

\* A payload that cannot be written as JSON is refused before anything is
\* remembered of it.
MakeRequest(r, serializable) ==
  /\ request[r] = "idle"
  /\ IF serializable
     THEN /\ request' = [request EXCEPT ![r] = "pending"]
          /\ pending' = pending \cup {r} /\ resolvers' = resolvers \cup {r}
          /\ timeouts' = timeouts \cup {r}
     ELSE /\ request' = [request EXCEPT ![r] = "failed"]
          /\ UNCHANGED <<pending, resolvers, timeouts>>

Settled(R, how) == [r \in Requests |-> IF r \in R /\ request[r] = "pending" THEN how ELSE request[r]]

RequestTimesOut(r) ==
  /\ r \in timeouts /\ r \in pending
  /\ request' = Settled({r}, "failed")
  /\ pending' = pending \ {r} /\ resolvers' = resolvers \ {r} /\ timeouts' = timeouts \ {r}

Reply(r) ==
  /\ r \in pending
  /\ timeouts' = timeouts \ {r}
  /\ request' = IF r \in resolvers THEN Settled({r}, "answered") ELSE request
  /\ resolvers' = resolvers \ {r} /\ pending' = pending \ {r}

DisposeSilently ==
  /\ timeouts # {}
  /\ timeouts' = {} /\ resolvers' = {} /\ pending' = {} /\ UNCHANGED request

DisposeBroker ==
  /\ timeouts # {}
  /\ request' = Settled(resolvers \cap pending, "failed")
  /\ timeouts' = {} /\ resolvers' = {} /\ pending' = {}

BrokerNext ==
  \/ \E r \in Requests : RequestTimesOut(r) \/ Reply(r)
                         \/ \E serializable \in BOOLEAN : MakeRequest(r, serializable)
  \/ DisposeBroker

(***************************************************************************)
(* Topics: "*" is any one segment (alone, any topic), "**" any number.     *)
(***************************************************************************)
MatchSegments(pattern, topic) ==
  LET match[p \in 0..Len(pattern)] ==
        [t \in 0..Len(topic) |->
           IF p = 0 THEN t = 0
           ELSE IF pattern[p] = "**" THEN \E before \in 0..t : match[p - 1][before]
           ELSE t > 0 /\ pattern[p] \in {"*", topic[t]} /\ match[p - 1][t - 1]]
  IN match[Len(pattern)][Len(topic)]

TopicMatches(pattern, topic) ==
  pattern = topic \/ pattern = <<"*">> \/ MatchSegments(pattern, topic)

TopicInit ==
  /\ subscriptions = <<>> /\ recent = <<>> /\ deliveries = <<>>
  /\ published = <<>> /\ expected = <<>> /\ delivered = <<>> /\ changed = 0

\* Code outside, or the handler that is being called, has the thread.
AtWork(stack) == IF stack = <<>> THEN TRUE ELSE Head(stack).calling

\* A set in the order in which its elements came, without one of them.
Excluding(s, e) == IF e \in ToSet(s) THEN RemoveAt(s, CHOOSE k \in DOMAIN s : s[k] = e) ELSE s

Entry(p) == {i \in DOMAIN subscriptions : subscriptions[i].pattern = p}
Subscribed == UNION {{[pattern |-> subscriptions[i].pattern, handler |-> h] :
                        h \in ToSet(subscriptions[i].handlers)} : i \in DOMAIN subscriptions}

Subscribe(p, h) ==
  /\ AtWork(deliveries) /\ [pattern |-> p, handler |-> h] \notin Subscribed
  /\ subscriptions' =
       IF Entry(p) = {} THEN Append(subscriptions, [pattern |-> p, handlers |-> <<h>>])
       ELSE [i \in DOMAIN subscriptions |->
               IF i \in Entry(p) THEN [subscriptions[i] EXCEPT !.handlers = Append(@, h)]
               ELSE subscriptions[i]]
  /\ changed < MaxChanges /\ changed' = changed + 1
  /\ UNCHANGED <<recent, deliveries, published, expected, delivered>>

\* A pattern without subscribers is forgotten.
Unsubscribe(p, h) ==
  /\ AtWork(deliveries) /\ [pattern |-> p, handler |-> h] \in Subscribed
  /\ \E i \in Entry(p) :
       LET others == Excluding(subscriptions[i].handlers, h) IN
       subscriptions' = IF others = <<>> THEN RemoveAt(subscriptions, i)
                        ELSE [subscriptions EXCEPT ![i].handlers = others]
  /\ changed < MaxChanges /\ changed' = changed + 1
  /\ UNCHANGED <<recent, deliveries, published, expected, delivered>>

Newest(all, n) == IF Len(all) > n THEN SubSeq(all, Len(all) - n + 1, Len(all)) ELSE all

(* The reference: a pattern covers a topic if the topic can be cut into    *)
(* pieces that its segments stand for.                                     *)
Covers(pattern, topic) ==
  pattern = <<"*">> \/
  \E cut \in [0..Len(pattern) -> 0..Len(topic)] :
    /\ cut[0] = 0 /\ cut[Len(pattern)] = Len(topic)
    /\ \A i \in DOMAIN pattern :
         IF pattern[i] = "**" THEN cut[i] >= cut[i - 1]
         ELSE cut[i] = cut[i - 1] + 1 /\ pattern[i] \in {"*", topic[cut[i]]}

\* The subscribers of entries, each at its place in the snapshot.
PlacesOf(entries) ==
  UNION {{[entry |-> i, place |-> k,
           to |-> [pattern |-> subscriptions[i].pattern, handler |-> subscriptions[i].handlers[k]]] :
            k \in DOMAIN subscriptions[i].handlers} : i \in entries}
Earlier(a, b) == a.entry < b.entry \/ (a.entry = b.entry /\ a.place < b.place)

EntriesFor(topic) == {i \in DOMAIN subscriptions : TopicMatches(subscriptions[i].pattern, topic)}

(* Mutant: only the pattern subscribed first.                              *)
FirstEntryOnly(topic) == PlacesOf({i \in EntriesFor(topic) : \A j \in EntriesFor(topic) : i <= j})

Recipients(topic) == PlacesOf(EntriesFor(topic))

Publish(topic) ==
  /\ AtWork(deliveries) /\ Len(deliveries) < MaxDepth /\ Len(published) < MaxPublished
  /\ LET m == Len(published) + 1 IN
     /\ published' = Append(published, topic)
     /\ recent' = Newest(Append(recent, m), MaxBuffer)
     /\ deliveries' = <<[message |-> m, left |-> Recipients(topic), calling |-> FALSE]>> \o deliveries
     /\ expected' = Append(expected, {s \in Subscribed : Covers(s.pattern, topic)})
  /\ UNCHANGED <<subscriptions, delivered, changed>>

\* The next subscriber of the snapshot, whether it is still subscribed or
\* not; an error of it is logged.
Deliver ==
  /\ deliveries # <<>> /\ ~Head(deliveries).calling
  /\ \E next \in Head(deliveries).left :
       /\ \A other \in Head(deliveries).left \ {next} : Earlier(next, other)
       /\ deliveries' = [deliveries EXCEPT ![1].left = @ \ {next}, ![1].calling = TRUE]
       /\ delivered' = Append(delivered, [message |-> Head(deliveries).message, to |-> next.to])
  /\ UNCHANGED <<subscriptions, recent, published, expected, changed>>

SubscriberReturns ==
  /\ deliveries # <<>> /\ Head(deliveries).calling
  /\ deliveries' = [deliveries EXCEPT ![1].calling = FALSE]
  /\ UNCHANGED <<subscriptions, recent, published, expected, delivered, changed>>

PublishReturns ==
  /\ deliveries # <<>> /\ ~Head(deliveries).calling /\ Head(deliveries).left = {}
  /\ deliveries' = Tail(deliveries)
  /\ UNCHANGED <<subscriptions, recent, published, expected, delivered, changed>>

Flush ==
  /\ AtWork(deliveries) /\ recent # <<>> /\ recent' = <<>>
  /\ UNCHANGED <<subscriptions, deliveries, published, expected, delivered, changed>>

DisposeTopics ==
  /\ AtWork(deliveries) /\ subscriptions # <<>>
  /\ subscriptions' = <<>> /\ recent' = <<>>
  /\ changed < MaxChanges /\ changed' = changed + 1
  /\ UNCHANGED <<deliveries, published, expected, delivered>>

TopicNext ==
  \/ \E p \in Patterns, h \in Subscribers : Subscribe(p, h) \/ Unsubscribe(p, h)
  \/ \E topic \in Topics : Publish(topic)
  \/ Deliver \/ SubscriberReturns \/ PublishReturns \/ Flush \/ DisposeTopics

(***************************************************************************)
(* The event bus.  The listeners of a type are one set that an emission    *)
(* goes through while handlers change it; removeAll() drops the sets, and  *)
(* an emission in progress goes on with the one it holds.                  *)
(***************************************************************************)
NoSet == <<"no set">>
BusInit ==
  /\ handlers = [t \in Types |-> NoSet] /\ observers = <<>> /\ emissions = <<>>
  /\ waiting = [w \in Waiters |-> "idle"] /\ waitTimers = {} /\ disposed = FALSE
  /\ emitted = 0 /\ heard = [l \in Listeners \cup OnceOnly |-> 0] /\ onceUsed = {} /\ clearedWithin = FALSE
  /\ busChanged = 0

Members(t) == IF handlers[t] = NoSet THEN <<>> ELSE handlers[t]

Registered(t, l) == [handlers EXCEPT ![t] = Append(Members(t), l)]
Unregistered(t, l) == IF handlers[t] = NoSet THEN handlers
                      ELSE [handlers EXCEPT ![t] = Excluding(@, l)]

\* The set an emission goes through: the live one, or the one it was left.
Going(e) == IF e.phase = "all" THEN observers
            ELSE IF e.live THEN Members(e.type) ELSE e.held
Unheard(e) == {k \in DOMAIN Going(e) : Going(e)[k] \notin e.seen}

\* A listener that comes back to a set is new to it.
Forget(l) == [i \in DOMAIN emissions |-> [emissions[i] EXCEPT !.seen = @ \ {l}]]

On(t, l) ==
  /\ AtWork(emissions) /\ ~disposed /\ l \in Listeners \cup Onces
  /\ \A other \in Types : l \notin ToSet(Members(other))
  /\ l \notin onceUsed /\ onceUsed' = IF l \in Onces THEN onceUsed \cup {l} ELSE onceUsed
  /\ handlers' = Registered(t, l) /\ emissions' = Forget(l)
  /\ busChanged < MaxChanges /\ busChanged' = busChanged + 1
  /\ UNCHANGED <<observers, waiting, waitTimers, disposed, emitted, heard, clearedWithin>>

Off(t, l) ==
  /\ AtWork(emissions) /\ l \in ToSet(Members(t)) \ Waiters
  /\ handlers' = Unregistered(t, l)
  /\ busChanged < MaxChanges /\ busChanged' = busChanged + 1
  /\ UNCHANGED <<observers, emissions, waiting, waitTimers, disposed, emitted, heard, onceUsed, clearedWithin>>

OnAll(o) ==
  /\ AtWork(emissions) /\ ~disposed /\ o \notin ToSet(observers)
  /\ observers' = Append(observers, o) /\ emissions' = Forget(o)
  /\ busChanged < MaxChanges /\ busChanged' = busChanged + 1
  /\ UNCHANGED <<handlers, waiting, waitTimers, disposed, emitted, heard, onceUsed, clearedWithin>>

OffAll(o) ==
  /\ AtWork(emissions) /\ o \in ToSet(observers)
  /\ observers' = Excluding(observers, o)
  /\ busChanged < MaxChanges /\ busChanged' = busChanged + 1
  /\ UNCHANGED <<handlers, emissions, waiting, waitTimers, disposed, emitted, heard, onceUsed, clearedWithin>>

\* The timer is armed even where a disposed bus takes no listener.
WaitFor(t, w) ==
  /\ AtWork(emissions) /\ waiting[w] = "idle"
  /\ waiting' = [waiting EXCEPT ![w] = "pending"] /\ waitTimers' = waitTimers \cup {w}
  /\ handlers' = IF disposed THEN handlers ELSE Registered(t, w)
  /\ UNCHANGED <<observers, emissions, disposed, emitted, heard, onceUsed, clearedWithin, busChanged>>

Drop(w) == [t \in Types |-> IF handlers[t] = NoSet THEN NoSet ELSE Excluding(handlers[t], w)]

WaitTimesOut(w) ==
  /\ emissions = <<>> /\ w \in waitTimers
  /\ waitTimers' = waitTimers \ {w} /\ handlers' = Drop(w)
  /\ waiting' = [waiting EXCEPT ![w] = IF @ = "pending" THEN "failed" ELSE @]
  /\ UNCHANGED <<observers, emissions, disposed, emitted, heard, onceUsed, clearedWithin, busChanged>>

Emit(t) ==
  /\ AtWork(emissions) /\ ~disposed /\ Len(emissions) < MaxDepth /\ emitted < MaxEmitted
  /\ emitted' = emitted + 1
  /\ emissions' = <<[type |-> t, phase |-> "type", live |-> handlers[t] # NoSet, held |-> <<>>,
                     seen |-> {}, calling |-> FALSE]>> \o emissions
  /\ UNCHANGED <<handlers, observers, waiting, waitTimers, disposed, heard, onceUsed, clearedWithin, busChanged>>

\* once() unsubscribes before it calls its handler, in the set the bus has
\* now.
AfterCall(t, l) == IF l \in OnceOnly THEN Unregistered(t, l) ELSE handlers

CallListener ==
  /\ emissions # <<>> /\ ~Head(emissions).calling
  /\ \E k \in Unheard(Head(emissions)) :
     LET e == Head(emissions) l == Going(e)[k] IN
     /\ \A j \in Unheard(e) : k <= j
     /\ emissions' = [emissions EXCEPT ![1].seen = @ \cup {l}, ![1].calling = TRUE]
     /\ handlers' = AfterCall(e.type, l)
     /\ heard' = IF l \in DOMAIN heard THEN [heard EXCEPT ![l] = @ + 1] ELSE heard
     /\ IF l \in Waiters
        THEN /\ waitTimers' = waitTimers \ {l}
             /\ waiting' = [waiting EXCEPT ![l] = IF @ = "pending" THEN "answered" ELSE @]
        ELSE UNCHANGED <<waitTimers, waiting>>
  /\ UNCHANGED <<observers, disposed, emitted, onceUsed, clearedWithin, busChanged>>

ListenerReturns ==
  /\ emissions # <<>> /\ Head(emissions).calling
  /\ emissions' = [emissions EXCEPT ![1].calling = FALSE]
  /\ UNCHANGED <<handlers, observers, waiting, waitTimers, disposed, emitted, heard, onceUsed, clearedWithin, busChanged>>

EmissionMovesOn ==
  /\ emissions # <<>> /\ ~Head(emissions).calling /\ Unheard(Head(emissions)) = {}
  /\ emissions' = IF Head(emissions).phase = "type"
                  THEN [emissions EXCEPT ![1].phase = "all", ![1].seen = {}]
                  ELSE Tail(emissions)
  /\ UNCHANGED <<handlers, observers, waiting, waitTimers, disposed, emitted, heard, onceUsed, clearedWithin, busChanged>>

RejectAll == [w \in Waiters |-> IF waiting[w] = "pending" /\ w \in waitTimers THEN "failed" ELSE waiting[w]]

\* removeAll(), and dispose(), which also ends the bus.
RemoveAll(forGood) ==
  /\ AtWork(emissions)
  /\ waitTimers # {} \/ \E t \in Types : handlers[t] # NoSet
  /\ disposed' = (disposed \/ forGood)
  /\ waiting' = RejectAll /\ waitTimers' = {}
  /\ handlers' = [t \in Types |-> NoSet] /\ observers' = <<>>
  /\ emissions' = [i \in DOMAIN emissions |->
                     IF emissions[i].live
                     THEN [emissions[i] EXCEPT !.live = FALSE, !.held = Members(emissions[i].type)]
                     ELSE emissions[i]]
  /\ clearedWithin' = (clearedWithin \/ Len(emissions) > 1)
  /\ busChanged < MaxChanges /\ busChanged' = busChanged + 1
  /\ UNCHANGED <<emitted, heard, onceUsed>>

BusNext ==
  \/ \E t \in Types :
       \/ Emit(t)
       \/ \E l \in Listeners \cup Onces : On(t, l) \/ Off(t, l)
       \/ \E w \in Waiters : WaitFor(t, w)
  \/ \E o \in Observers : OnAll(o) \/ OffAll(o)
  \/ \E w \in Waiters : WaitTimesOut(w)
  \/ CallListener \/ ListenerReturns \/ EmissionMovesOn
  \/ \E forGood \in BOOLEAN : RemoveAll(forGood)

(***************************************************************************)
(* Dead letters, by thread.                                                *)
(***************************************************************************)
LetterInit == /\ letters = [t \in LetterThreads |-> <<>>] /\ letterCount = 0
              /\ letterHistory = [t \in LetterThreads |-> <<>>]

RecordLetter(t) ==
  /\ letterCount < MaxLetters /\ letterCount' = letterCount + 1
  /\ letters' = [letters EXCEPT ![t] = Newest(Append(@, letterCount'), MaxPerThread)]
  /\ letterHistory' = [letterHistory EXCEPT ![t] = Append(@, letterCount')]

RemoveLetter(t, id) ==
  /\ id \in ToSet(letters[t])
  /\ letters' = [letters EXCEPT ![t] = Excluding(@, id)]
  /\ letterHistory' = [letterHistory EXCEPT ![t] = Excluding(@, id)]
  /\ UNCHANGED letterCount

ClearLetters(t) ==
  /\ letters[t] # <<>>
  /\ letters' = [letters EXCEPT ![t] = <<>>]
  /\ letterHistory' = [letterHistory EXCEPT ![t] = <<>>]
  /\ UNCHANGED letterCount

LetterNext == \E t \in LetterThreads :
  RecordLetter(t) \/ ClearLetters(t) \/ \E id \in 1..MaxLetters : RemoveLetter(t, id)

(***************************************************************************)
(* Every request to another agent and every waitFor() is settled, once: by *)
(* its answer, its timeout, or the end of the broker or the bus.           *)
(* (request-reply.ts:73-88, 105-134, 172-188; bus.ts:68-90, 96-111).       *)
(***************************************************************************)
Asking == Requests \cup Waiters
Promised == INSTANCE SettleOnce WITH Requests <- Asking,
  status <- [r \in Asking |-> IF r \in Requests THEN request[r] ELSE waiting[r]]
AnswersSettle == Promised!Spec

(***************************************************************************)
(* The buffer of PubSub and the dead letters of a thread hold the newest   *)
(* of what was put there, in order (pubsub.ts:36-40, dlq.ts:31-34).        *)
(***************************************************************************)
BuffersKeepNewest ==
  /\ recent # <<>> => recent = [i \in DOMAIN recent |-> Len(published) - Len(recent) + i]
  /\ Len(recent) <= MaxBuffer
  /\ \A t \in LetterThreads :
       IsSuffix(letters[t], letterHistory[t]) /\ Len(letters[t]) <= MaxPerThread

(***************************************************************************)
(* A finished publish() has called everyone who was subscribed to its topic*)
(* when it began, once for each pattern, whatever handlers did meanwhile;  *)
(* and a once() listener is called once, unless removeAll() comes inside   *)
(* nested emissions; and the buffers hold the newest (pubsub.ts:33-56,     *)
(* bus.ts:37-66).                                                          *)
(***************************************************************************)
DeliveredOnce ==
  /\ \A m \in DOMAIN published :
       (\A i \in DOMAIN deliveries : deliveries[i].message # m) =>
         /\ \A s \in expected[m] :
              Cardinality({k \in DOMAIN delivered : delivered[k] = [message |-> m, to |-> s]}) = 1
         /\ \A k \in DOMAIN delivered : delivered[k].message = m => delivered[k].to \in expected[m]
  /\ ~clearedWithin => \A l \in OnceOnly : heard[l] <= 1
  /\ BuffersKeepNewest
=============================================================================
