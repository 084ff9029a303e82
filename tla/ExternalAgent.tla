--------------------------- MODULE ExternalAgent ---------------------------
(***************************************************************************)
(* External coding agents (src/src/harness/external-agent.ts): a registry  *)
(* of runtimes, a host that runs them, and the CLI driver that owns one    *)
(* child process for each run, with its output limits, its two watchdogs   *)
(* (overall timeout and idle timeout) and the abort listener.              *)
(*                                                                         *)
(* The child process is the environment: it writes lines, exits by itself  *)
(* or when killed, and its pipes close after it exited unless a descendant *)
(* holds them.  Prompt and argument texts are left out; what they refuse   *)
(* is kept.                                                                *)
(***************************************************************************)
EXTENDS Integers, FiniteSets

CONSTANTS
  Runs,          \* calls of host.run / the node function
  Providers,
  ProviderOf,    \* the provider each run names
  RequestOf,     \* the request of each run, a member of Request
  OptionsOf,     \* the options a provider is registered with
  Lines,         \* the lines a process may write, members of Line
  MaxEvents,     \* config.maxEvents
  MaxOutput,     \* config.maxOutputChars, in chunks
  MaxLines       \* bound: lines a process writes

(* ExternalAgentOwnership and a path, by what the policy asks of them.      *)
Path == [empty : BOOLEAN, inAllowed : BOOLEAN, inDisallowed : BOOLEAN]
Ownership == [allow : BOOLEAN, disallow : BOOLEAN]
Request == [own : Ownership, cwd : Path, dirs : SUBSET Path,
            timeout : BOOLEAN, idle : BOOLEAN]
Options == [bypass : BOOLEAN, extraArgs : BOOLEAN,
            allowBypass : BOOLEAN, allowExtraArgs : BOOLEAN]

(* A line of stdout, by what parseGenericJsonAgentLine looks at.            *)
Hints == {"reasoning", "tool", "diff", "error"}
Line == [json : {"blank", "text", "value", "object"}, hints : SUBSET Hints,
         text : BOOLEAN, encrypted : BOOLEAN]

ASSUME ExternalAgentAssumption ==
  /\ Lines \subseteq Line
  /\ ProviderOf \in [Runs -> Providers]
  /\ RequestOf \in [Runs -> Request]
  /\ OptionsOf \in [Providers -> Options]
  /\ MaxEvents \in Nat /\ MaxOutput \in Nat /\ MaxLines \in Nat

VARIABLES
  definitions,   \* providers with a runtime definition
  drivers,       \* drivers of the host, {} before createHost
  run            \* the state of each run

externalVars == <<definitions, drivers, run>>

Finished == {"completed", "failed", "cancelled"}
Watchdogs == {"timeout", "idle", "abort"}

RunState ==
  [caller : {"idle", "running", "rejected"} \cup Finished,
   proc : {"none", "live", "exited", "closed"},
   watch : SUBSET Watchdogs,      \* armed timers and the abort listener
   settled : BOOLEAN,             \* the watchdogs were cleared
   aborted : BOOLEAN,             \* signal.aborted
   killed : BOOLEAN,              \* a kill signal was sent
   unkillable : BOOLEAN,          \* and could not be delivered
   held : BOOLEAN,                \* a descendant holds the pipes
   zero : BOOLEAN,                \* exit code 0
   lines : 0..MaxLines,
   kept : Nat, dropped : Nat,     \* events pushed, droppedEventCount
   output : Nat]

ExternalInit ==
  /\ definitions = {}
  /\ drivers = {}
  /\ run = [r \in Runs |->
      [caller |-> "idle", proc |-> "none", watch |-> {},
       settled |-> FALSE, aborted |-> FALSE, killed |-> FALSE, unkillable |-> FALSE,
       held |-> FALSE, zero |-> FALSE, lines |-> 0,
       kept |-> 0, dropped |-> 0, output |-> 0]]

-----------------------------------------------------------------------------
(* Policies *)

(* assertExternalAgentPathAllowed: not empty, outside every disallowed      *)
(* path, inside an allowed one when there are any.                          *)
PathAllowed(p, own) ==
  /\ ~p.empty
  /\ own.disallow => ~p.inDisallowed
  /\ own.allow => p.inAllowed

(* validateCodexExecDriverOptions, validateClaudeCodeDriverOptions.         *)
OptionsAllowed(o) ==
  /\ o.bypass => o.allowBypass
  /\ o.extraArgs => o.allowExtraArgs

(* buildClaudeCodeArgs and buildCodexExecArgs: addDirs, mcpConfig, worktree. *)
DirsAllowed(q) == \A d \in q.dirs : PathAllowed(d, q.own)

(* The checks that run() makes before there is a process.                   *)
RequestAllowed(q) == PathAllowed(q.cwd, q.own) /\ DirsAllowed(q)

-----------------------------------------------------------------------------
(* Lines of the process and the events they become *)

(* mapJsonObjectToEvents: the first family its type hints name.             *)
ObjectEvent(l) ==
  CASE "reasoning" \in l.hints -> IF l.text \/ l.encrypted THEN "thinking" ELSE "none"
    [] l.hints \cap {"reasoning", "tool"} = {"tool"} -> "tool"
    [] l.hints \cap {"reasoning", "tool", "diff"} = {"diff"} -> "diff"
    [] l.hints = {"error"} -> "error"
    [] OTHER -> IF l.text THEN "text_delta" ELSE "artifact"

(* parseGenericJsonAgentLine *)
ParsedEvent(l) ==
  CASE l.json = "blank" -> "none"
    [] l.json = "text" -> "text_delta"
    [] l.json = "value" -> "artifact"
    [] l.json = "object" -> ObjectEvent(l)

(* appendCapped(): the output keeps its tail. *)
Capped(output, chunks) == IF output + chunks < MaxOutput THEN output + chunks ELSE MaxOutput

(* forward() of n events, chunks of which go to the output: the events      *)
(* beyond maxEvents are dropped and counted.                                *)
Forward(s, n, chunks) ==
  LET room == MaxEvents - s.kept
      fit == IF n <= room THEN n ELSE room
  IN [s EXCEPT !.kept = @ + fit, !.dropped = @ + (n - fit),
               !.output = Capped(@, chunks)]

(* resetIdle *)
ResetIdle(s, r) ==
  IF RequestOf[r].idle /\ ~s.settled THEN [s EXCEPT !.watch = @ \cup {"idle"}] ELSE s

(* clearProcessWatchdogs *)
Disarmed(s) == [s EXCEPT !.watch = {}, !.settled = TRUE]

Become(r, s) == run' = [run EXCEPT ![r] = s] /\ UNCHANGED <<definitions, drivers>>

-----------------------------------------------------------------------------
(* Registry and host *)

(* register(); a second registration of a provider throws.                  *)
Register(p) ==
  /\ p \notin definitions
  /\ definitions' = definitions \cup {p}
  /\ UNCHANGED <<drivers, run>>

(* createHost(): one driver for each definition; an option that is denied   *)
(* by default makes it throw before there is a host.                        *)
CreateHost ==
  /\ drivers = {} /\ definitions # {}
  /\ \A p \in definitions : OptionsAllowed(OptionsOf[p])
  /\ drivers' = definitions
  /\ UNCHANGED <<definitions, run>>

(* host.run() for a provider without a driver. *)
RunRejected(r) ==
  /\ run[r].caller = "idle" /\ ProviderOf[r] \notin drivers
  /\ Become(r, [run[r] EXCEPT !.caller = "rejected"])

(* driver.run() throws before the process exists; runExternalAgent turns it *)
(* into a result.                                                           *)
RunRefused(r) ==
  /\ run[r].caller = "idle" /\ ProviderOf[r] \in drivers
  /\ ~RequestAllowed(RequestOf[r])
  /\ Become(r, [run[r] EXCEPT !.caller = IF run[r].aborted THEN "cancelled" ELSE "failed"])

(* spawn(), the listener and the timers.  A listener added to a signal that *)
(* has already fired is never called, so it does not count as armed.        *)
Spawn(r) ==
  /\ run[r].caller = "idle" /\ ProviderOf[r] \in drivers
  /\ RequestAllowed(RequestOf[r])
  /\ Become(r, [run[r] EXCEPT
       !.caller = "running", !.proc = "live",
       !.watch = (IF run[r].aborted THEN {} ELSE {"abort"})
                 \cup (IF RequestOf[r].timeout THEN {"timeout"} ELSE {})
                 \cup (IF RequestOf[r].idle THEN {"idle"} ELSE {})])

-----------------------------------------------------------------------------
(* The driver's handlers *)

(* handleStdoutLine, handleStderrLine: an event for the line, then those it *)
(* parses to.  Lines still in the pipe come after the exit as well.         *)
StdoutLine(r, l) ==
  LET e == ParsedEvent(l)
      out == IF e \in {"text_delta", "artifact"} THEN 1 ELSE 0
  IN
  /\ run[r].proc \in {"live", "exited"} /\ run[r].lines < MaxLines
  /\ Become(r, Forward(ResetIdle([run[r] EXCEPT !.lines = @ + 1], r),
                       IF e = "none" THEN 1 ELSE 2, out))

StderrLine(r) ==
  /\ run[r].proc \in {"live", "exited"} /\ run[r].lines < MaxLines
  /\ Become(r, Forward(ResetIdle([run[r] EXCEPT !.lines = @ + 1], r), 1, 0))

(* kill() and terminateChildProcess: nothing once the run settled or the    *)
(* process exited.                                                          *)
Kill(s) == IF s.proc = "live" /\ ~s.settled THEN [s EXCEPT !.killed = TRUE] ELSE s

(* The overall or the idle timeout: one error event, then kill().           *)
Timeout(r, w) ==
  /\ w \in {"timeout", "idle"} /\ w \in run[r].watch
  /\ Become(r, Kill(Forward([run[r] EXCEPT !.watch = @ \ {w}], 1, 0)))

(* abort() of the run's signal, and the listener if it is armed.            *)
Abort(r) ==
  LET s == [run[r] EXCEPT !.aborted = TRUE] IN
  /\ ~run[r].aborted /\ run[r].caller \in {"idle", "running"}
  /\ Become(r, IF "abort" \in s.watch
                 THEN Kill(Forward([s EXCEPT !.watch = @ \ {"abort"}], 1, 0))
                 ELSE s)

(* 'exit': the process is gone and the watchdogs are cleared; its pipes may *)
(* be held by a process it started.                                         *)
Exit(r) ==
  /\ run[r].proc = "live"
  /\ \E zero, held \in BOOLEAN :
       Become(r, Disarmed([run[r] EXCEPT !.proc = "exited", !.zero = zero, !.held = held]))

(* The held pipes are let go. *)
LetGo(r) == run[r].held /\ Become(r, [run[r] EXCEPT !.held = FALSE])

(* The status the 'close' handler reports. *)
StatusAtClose(s) ==
  IF s.aborted THEN "cancelled" ELSE IF s.zero THEN "completed" ELSE "failed"

(* 'close': the result is resolved, unless 'error' has resolved it.         *)
Close(r) ==
  /\ run[r].proc = "exited" /\ ~run[r].held
  /\ Become(r, [run[r] EXCEPT
       !.proc = "closed",
       !.caller = IF @ = "running" THEN StatusAtClose(run[r]) ELSE @])

(* 'error': the command cannot be started, or the kill signal cannot be     *)
(* delivered.  The run fails at once and gives its watchdogs up.            *)
SpawnFails(r) ==
  /\ run[r].caller = "running" /\ run[r].proc = "live"
  /\ run[r].lines = 0
  /\ Become(r, [Forward(Disarmed(run[r]), 1, 0) EXCEPT !.proc = "closed", !.caller = "failed"])

KillFails(r) ==
  /\ run[r].caller = "running" /\ run[r].proc = "live"
  /\ run[r].killed /\ ~run[r].unkillable
  /\ Become(r, [Forward(Disarmed(run[r]), 1, 0) EXCEPT
                  !.unkillable = TRUE, !.caller = "failed"])

-----------------------------------------------------------------------------
Driver(r) == Close(r) \/ \E w \in Watchdogs : Timeout(r, w)
Killed(r) == run[r].killed /\ Exit(r)

ExternalNext ==
  \/ \E p \in Providers : Register(p)
  \/ CreateHost
  \/ \E r \in Runs :
       \/ RunRejected(r) \/ RunRefused(r) \/ Spawn(r) \/ Abort(r)
       \/ StderrLine(r) \/ \E l \in Lines : StdoutLine(r, l)
       \/ Driver(r) \/ Exit(r) \/ LetGo(r) \/ SpawnFails(r) \/ KillFails(r)

(* Timers fire and Node reports the end of a process; a process that was    *)
(* sent SIGTERM exits.  Nothing makes a descendant let the pipes go.        *)
ExternalFairness ==
  \A r \in Runs : WF_externalVars(Driver(r)) /\ WF_externalVars(Killed(r))

ExternalSpec == ExternalInit /\ [][ExternalNext]_externalVars /\ ExternalFairness

-----------------------------------------------------------------------------
(* Properties *)

ExternalTypeOK ==
  definitions \subseteq Providers /\ drivers \subseteq definitions /\ run \in [Runs -> RunState]

(* A run that has been answered leaves no process behind, unless the kill   *)
(* signal could not be delivered; completed means that the process ended    *)
(* with code 0 and nobody had aborted it; and the watchdogs, which would    *)
(* kill a process that is not theirs any more, are gone.                    *)
AnsweredRunsAreOver ==
  \A r \in Runs : run[r].caller \in Finished =>
    /\ run[r].proc \in {"none", "closed"} \/ run[r].unkillable
    /\ run[r].watch = {}
    /\ run[r].caller = "completed" => run[r].zero /\ ~run[r].aborted

(* However much the process writes, a run keeps maxEvents events at most,   *)
(* and counts each of the others as dropped.                                *)
OutputBounded ==
  \A r \in Runs : run[r].kept <= MaxEvents /\ run[r].output <= MaxOutput
                  /\ (run[r].dropped > 0 => run[r].kept = MaxEvents)

(* external-agent.ts:1034: a hung process is bounded by the timeout and the *)
(* idle timeout; so a run with one of them settles, and an abort settles    *)
(* it, except while a descendant of the dead process holds its pipes.       *)
BoundedRunsSettle ==
  \A r \in Runs :
    run[r].caller = "running" /\ run[r].watch \cap {"timeout", "idle"} # {}
      ~> run[r].caller \in Finished \/ run[r].held
=============================================================================
