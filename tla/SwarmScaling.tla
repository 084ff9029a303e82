---------------------------- MODULE SwarmScaling ----------------------------
(***************************************************************************)
(* The scaling monitor (src/src/swarm/scaling.ts) over the events a tracer *)
(* records (tracer.ts): decisions to add or remove agents from the error   *)
(* rate, the latency and the idle time of the swarm, when the application  *)
(* polls evaluate() or reactively after each event.                        *)
(*                                                                         *)
(* Time is a clock of small steps that starts at 1.  The application does  *)
(* what a decision says at once: it calls setCurrentAgentCount and, when   *)
(* it polls, recordDecision.                                               *)
(***************************************************************************)
EXTENDS Integers, FiniteSets, Sequences, SequencesExt

CONSTANTS
  Workers,              \* agent ids the tracer is attached to
  MinAgents, MaxAgents, StartAgents,
  ErrorPercent,         \* scaleUpErrorRate in percent
  LatencyLimit,         \* scaleUpLatencyMs
  IdleLimit,            \* scaleDownIdleSeconds
  Cooldown,             \* cooldownMs
  Window,               \* ERROR_RATE_WINDOW_MS
  Stale,                \* STALE_AGENT_MS
  MaxEvents,            \* the tracer's maxEvents
  MaxTime, MaxExecutions  \* bounds

ASSUME ScalingAssumption ==
  /\ MinAgents \in Nat \ {0} /\ MaxAgents \in Nat /\ StartAgents \in MinAgents..MaxAgents
  /\ ErrorPercent \in 0..100 /\ LatencyLimit \in Nat /\ IdleLimit \in Nat
  /\ Cooldown \in Nat /\ Window \in Nat /\ Stale \in Nat /\ MaxEvents \in Nat \ {0}

VARIABLES
  now,            \* clockFn()
  events,         \* the tracer's timeline
  agentCount,     \* currentAgentCount
  lastDecision,   \* lastDecisionTime
  reactive,       \* unsubscribeTracer is set
  executions,     \* executions under way: agent and start
  started         \* bound: executions so far

scalingVars == <<now, events, agentCount, lastDecision, reactive, executions, started>>

Event(type, w, t) == [type |-> type, worker |-> w, at |-> t]

ScalingInit ==
  /\ now = 1 /\ events = <<>> /\ agentCount = StartAgents
  /\ lastDecision = 0 /\ reactive = FALSE
  /\ executions = {} /\ started = 0

(* SwarmTracer.record: the newest MaxEvents are kept. *)
Recorded(e) ==
  LET all == Append(events, e) IN
  IF Len(all) > MaxEvents THEN SubSeq(all, Len(all) - MaxEvents + 1, Len(all)) ELSE all

(* Starts matched with ends first in, first out for each agent, from the   *)
(* starts at or after a time on: the starts left over and the longest gap. *)
Matched(timeline, since) ==
  FoldLeft(
    LAMBDA acc, e :
      IF e.type = "start"
      THEN IF e.at >= since THEN [acc EXCEPT !.open[e.worker] = Append(@, e.at)] ELSE acc
      ELSE IF acc.open[e.worker] = <<>> THEN acc
      ELSE [open |-> [acc.open EXCEPT ![e.worker] = Tail(@)],
            longest |-> LET gap == e.at - Head(acc.open[e.worker]) IN
                        IF gap > acc.longest THEN gap ELSE acc.longest],
    [open |-> [w \in Workers |-> <<>>], longest |-> 0], timeline)

InWindow(timeline, type) ==
  {i \in 1..Len(timeline) : timeline[i].type = type /\ timeline[i].at >= now - Window}

SmallerOf(a, b) == IF a < b THEN a ELSE b
Add(n, share) == SmallerOf((n + share - 1) \div share, MaxAgents - n)

(* checkScaleUp: by half for errors, by a quarter for latency. *)
ScaleUp(timeline) ==
  LET starts == Cardinality(InWindow(timeline, "start"))
      errors == Cardinality(InWindow(timeline, "error")) IN
  IF agentCount >= MaxAgents THEN 0
  ELSE IF starts > 0 /\ 100 * errors >= ErrorPercent * starts THEN Add(agentCount, 2)
  ELSE IF Matched(timeline, now - Window).longest > LatencyLimit THEN Add(agentCount, 4)
  ELSE 0

InFlightIgnored(timeline) == FALSE
(* Starts without an end count as in flight until they are stale. *)
InFlight(timeline) ==
  \E w \in Workers : \E i \in DOMAIN Matched(timeline, 0).open[w] :
     now - Matched(timeline, 0).open[w][i] < Stale

(* checkScaleDown: half of them, down to the minimum. *)
ScaleDown(timeline) ==
  IF agentCount <= MinAgents \/ now - Last(timeline).at <= IdleLimit THEN 0
  ELSE SmallerOf(IF agentCount < 2 THEN 1 ELSE agentCount \div 2, agentCount - MinAgents)

Cooling == lastDecision > 0 /\ now - lastDecision < Cooldown

(* evaluate(): the change of the number of agents, 0 when idle. *)
ScalingDecision(timeline) ==
  IF Cooling \/ agentCount = 0 \/ timeline = <<>> THEN 0
  ELSE IF ScaleUp(timeline) > 0 THEN ScaleUp(timeline)
  ELSE IF InFlight(timeline) THEN 0 ELSE -ScaleDown(timeline)

Applied(change) ==
  /\ agentCount' = agentCount + change
  /\ lastDecision' = IF change # 0 THEN now ELSE lastDecision

Poll ==
  /\ ScalingDecision(events) # 0 /\ Applied(ScalingDecision(events))
  /\ UNCHANGED <<now, events, reactive, executions, started>>

SetReactive(on) ==
  /\ reactive # on /\ reactive' = on
  /\ UNCHANGED <<now, events, agentCount, lastDecision, executions, started>>

ExecutionStarts(w) ==
  /\ started < MaxExecutions
  /\ started' = started + 1
  /\ executions' = executions \cup {[worker |-> w, at |-> now, no |-> started]}
  /\ events' = Recorded(Event("start", w, now))
  /\ UNCHANGED <<now, agentCount, lastDecision, reactive>>

(* agent_complete and agent_error notify the subscribed monitor. *)
ExecutionEnds(x, type) ==
  /\ executions' = executions \ {x}
  /\ events' = Recorded(Event(type, x.worker, now))
  /\ IF reactive THEN Applied(ScalingDecision(events')) ELSE UNCHANGED <<agentCount, lastDecision>>
  /\ UNCHANGED <<now, reactive, started>>

TimePasses ==
  /\ now < MaxTime /\ now' = now + 1
  /\ UNCHANGED <<events, agentCount, lastDecision, reactive, executions, started>>

ScalingNext ==
  \/ Poll \/ TimePasses
  \/ \E on \in BOOLEAN : SetReactive(on)
  \/ \E w \in Workers : ExecutionStarts(w)
  \/ \E x \in executions, type \in {"complete", "error"} : ExecutionEnds(x, type)

-----------------------------------------------------------------------------
(* A decision keeps the swarm between minAgents and maxAgents, comes       *)
(* cooldownMs or more after the one before, and removes agents only when   *)
(* no execution younger than the staleness limit is under way              *)
(* (scaling.ts:158, 232).                                                  *)
Paced ==
  agentCount' # agentCount =>
    /\ agentCount' \in MinAgents..MaxAgents
    /\ lastDecision > 0 => now - lastDecision >= Cooldown
SparesTheBusy == agentCount' < agentCount => \A x \in executions' : now - x.at >= Stale

ScalingIsSteady == [][Paced /\ SparesTheBusy]_scalingVars
=============================================================================
