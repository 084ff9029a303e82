----------------------------- MODULE McpClient -----------------------------
(***************************************************************************)
(* MCPClient over its StdioTransport (src/src/mcp): connecting with a lock *)
(* that concurrent callers join, the tool list and the lock of its         *)
(* refreshes, calls that race the end of the server, their timeout and     *)
(* disconnect(), and the notifications and requests of the server.         *)
(*                                                                         *)
(* A macrotask (a chunk of stdout, a timer, the end of the process) runs to*)
(* its end and then the continuations of what it settled: "got" holds an   *)
(* outcome that an awaiting function has not looked at yet, and while there*)
(* is one, only continuations, callers and the rest of the chunk can run.  *)
(***************************************************************************)
EXTENDS Integers, Sequences, FiniteSets

CONSTANTS
  Connects,      \* calls of connect()
  Calls,         \* calls of callTool()
  McpCommand,    \* config.command, a member of Command
  MaxChanges,    \* bound: changes of the server's tool list
  MaxAsks        \* bound: requests of the server to the client

(* A command, by what validateSpawnCommand asks of it; "found": the file of *)
(* an absolute path exists, a bare name is on the PATH.                     *)
Command == [empty : BOOLEAN, metacharacters : BOOLEAN, traversal : BOOLEAN, found : BOOLEAN]
CommandAllowed(c) == ~c.empty /\ ~c.metacharacters /\ ~c.traversal /\ c.found

ASSUME McpAssumption ==
  /\ MaxChanges \in Nat /\ MaxAsks \in Nat /\ McpCommand \in Command
  /\ Connects \cap Calls = {} /\ Calls \cap {"connector", "refresh"} = {}

VARIABLES
  mcpState,      \* this.state
  connector,     \* _runConnect: what it awaits, and the outcome it got
  refresh,       \* the refresh behind _refreshLock
  connected,     \* transport.connected
  proc,          \* the server process of the transport
  orphans,       \* processes whose transport is gone and that got no signal
  nextId, pending, \* the transport's request table
  inbox,         \* requests the server has not answered
  pipe,          \* messages on their way to the client
  tools,         \* the version of the list the client holds
  serverTools,   \* the version the server has
  asks,          \* requests the server has made
  chunk,         \* the next message may be part of the chunk just handled
  mcpTask        \* status of each call of connect() and callTool()

mcpVars == <<mcpState, connector, refresh, connected, proc, orphans, nextId, pending,
             inbox, pipe, tools, serverTools, asks, chunk, mcpTask>>

McpTasks == Connects \cup Calls
Await == {"none", "start", "initialize", "tools/list"}
Outcome == {"none", "result", "error"}
Owner == {"connector", "refresh"} \cup Calls
PendingRequest == [id : Nat, of : Owner]
Message == [kind : {"response"}, id : Nat, of : Owner, ok : BOOLEAN, version : 0..MaxChanges]
           \cup [kind : {"request"}, id : Nat] \cup [kind : {"list_changed"}]

McpTypeOK ==
  /\ mcpState \in {"disconnected", "connecting", "ready", "error"}
  /\ connector \in [await : Await, got : Outcome]
  /\ refresh \in [on : BOOLEAN, got : Outcome, version : 0..MaxChanges]
  /\ connected \in BOOLEAN /\ chunk \in BOOLEAN
  /\ proc \in {"none", "live", "gone"} /\ orphans \in Nat
  /\ pending \subseteq PendingRequest /\ inbox \subseteq PendingRequest
  /\ pipe \in Seq(Message)
  /\ tools \in 0..MaxChanges /\ serverTools \in 0..MaxChanges /\ asks \in 0..MaxAsks
  /\ mcpTask \in [McpTasks -> {"idle", "pending", "answered", "failed"}]

NoConnector == [await |-> "none", got |-> "none"]
NoRefresh == [on |-> FALSE, got |-> "none", version |-> 0]

McpInit ==
  /\ mcpState = "disconnected" /\ connector = NoConnector /\ refresh = NoRefresh
  /\ connected = FALSE /\ proc = "none" /\ orphans = 0
  /\ nextId = 1 /\ pending = {} /\ inbox = {} /\ pipe = << >>
  /\ tools = 0 /\ serverTools = 0 /\ asks = 0 /\ chunk = FALSE
  /\ mcpTask = [k \in McpTasks |-> "idle"]

Settles(K, out) == mcpTask' = [k \in McpTasks |-> IF k \in K THEN out ELSE mcpTask[k]]
Joined == {k \in Connects : mcpTask[k] = "pending"}
Continuations == connector.got # "none" \/ refresh.got # "none"

-----------------------------------------------------------------------------
(* The transport *)

(* send(): a fresh id, an entry of the table and a frame to the server.     *)
Send(o) ==
  /\ nextId' = nextId + 1
  /\ pending' = pending \cup {[id |-> nextId, of |-> o]}
  /\ inbox' = inbox \cup {[id |-> nextId, of |-> o]}

NoSend == UNCHANGED <<nextId, pending, inbox>>

(* The outcome a rejected or resolved request hands to who awaits it.       *)
HandOver(owners, out, version) ==
  /\ connector' = IF "connector" \in owners THEN [connector EXCEPT !.got = out] ELSE connector
  /\ refresh' = IF "refresh" \in owners
                  THEN [refresh EXCEPT !.got = out, !.version = version] ELSE refresh

Owners == {q.of : q \in pending}

(* The whole table is rejected: stop(), the end of the process.             *)
RejectAll ==
  /\ pending' = {} /\ inbox' = {} /\ pipe' = << >>
  /\ HandOver(Owners, "error", 0)
  /\ Settles(Owners \cap Calls, "failed")

-----------------------------------------------------------------------------
(* Connecting *)

(* connect() of a client that has no attempt in flight and is not ready:    *)
(* the lock and the process exist before its first await.  A command that   *)
(* validateSpawnCommand or spawn refuses fails the start.                   *)
ConnectStarts(k) ==
  /\ mcpTask[k] = "idle"
  /\ connector.await = "none" /\ mcpState # "ready"
  /\ mcpState' = "connecting"
  /\ orphans' = IF proc = "live" THEN orphans + 1 ELSE orphans
  /\ nextId' = 1 /\ pending' = {} /\ inbox' = {} /\ pipe' = << >>
  /\ \E spawned \in {b \in BOOLEAN : b => CommandAllowed(McpCommand)} :
       /\ connected' = spawned
       /\ proc' = IF spawned THEN "live" ELSE "none"
       /\ connector' = [await |-> "start", got |-> IF spawned THEN "result" ELSE "error"]
  /\ Settles({k}, "pending")
  /\ chunk' = FALSE
  /\ UNCHANGED <<refresh, tools, serverTools, asks>>

(* connect() while an attempt is in flight shares it; a ready client        *)
(* returns at once.                                                         *)
ConnectJoins(k) ==
  /\ mcpTask[k] = "idle"
  /\ connector.await # "none" \/ mcpState = "ready"
  /\ Settles({k}, IF connector.await # "none" THEN "pending" ELSE "answered")
  /\ chunk' = FALSE
  /\ UNCHANGED <<mcpState, connector, refresh, connected, proc, orphans, nextId, pending,
                 inbox, pipe, tools, serverTools, asks>>

(* _runConnect ends: the lock is released and all who share it are told.    *)
ConnectorEnds(out) == connector' = NoConnector /\ Settles(Joined, out)

(* Mutant: the server is left running when the handshake fails.             *)
CleanUpNothing == UNCHANGED <<connected, proc>>

(* transport.stop() of the catch of _runConnect.                            *)
CleanUp == /\ connected' = FALSE
           /\ proc' = IF proc = "live" THEN "gone" ELSE proc

(* The catch: after disconnect() the state is left as it is, otherwise it   *)
(* becomes "error" and the transport is stopped.                            *)
ConnectorFails ==
  /\ connector.got = "error"
  /\ IF mcpState = "disconnected" THEN UNCHANGED <<mcpState, connected, proc>>
       ELSE mcpState' = "error" /\ CleanUp
  /\ pending' = {} /\ inbox' = {} /\ pipe' = << >>
  /\ refresh' = IF "refresh" \in Owners THEN [refresh EXCEPT !.got = "error"] ELSE refresh
  /\ connector' = NoConnector
  /\ Settles(Joined \cup (Owners \cap Calls), "failed")
  /\ chunk' = FALSE
  /\ UNCHANGED <<orphans, nextId, tools, serverTools, asks>>

(* After an await the attempt stops quietly when disconnect() was called.   *)
ConnectorAbandoned ==
  /\ connector.got = "result" /\ mcpState = "disconnected"
  /\ ConnectorEnds("answered")
  /\ chunk' = FALSE
  /\ UNCHANGED <<mcpState, refresh, connected, proc, orphans, nextId, pending, inbox,
                 pipe, tools, serverTools, asks>>

(* The process is there: the initialize request. *)
ConnectorStarted ==
  /\ connector = [await |-> "start", got |-> "result"] /\ mcpState = "connecting"
  /\ connector' = [await |-> "initialize", got |-> "none"]
  /\ Send("connector")
  /\ chunk' = FALSE
  /\ UNCHANGED <<mcpState, refresh, connected, proc, orphans, pipe, tools, serverTools,
                 asks, mcpTask>>

(* refreshTools() of the attempt: it joins a refresh in flight, and throws  *)
(* without a connection.                                                    *)
ConnectorInitialized ==
  /\ connector = [await |-> "initialize", got |-> "result"] /\ mcpState = "connecting"
  /\ IF refresh.on \/ ~connected
       THEN NoSend /\ UNCHANGED refresh
       ELSE Send("refresh") /\ refresh' = [NoRefresh EXCEPT !.on = TRUE]
  /\ connector' = [await |-> "tools/list",
                   got |-> IF refresh.on \/ connected THEN "none" ELSE "error"]
  /\ chunk' = FALSE
  /\ UNCHANGED <<mcpState, connected, proc, orphans, pipe, tools, serverTools, asks, mcpTask>>

ConnectorListed ==
  /\ connector = [await |-> "tools/list", got |-> "result"] /\ mcpState = "connecting"
  /\ mcpState' = "ready"
  /\ ConnectorEnds("answered")
  /\ chunk' = FALSE
  /\ UNCHANGED <<refresh, connected, proc, orphans, nextId, pending, inbox, pipe, tools,
                 serverTools, asks>>

(* The rest of refreshTools(): the list is replaced by the answer's, the    *)
(* lock released, and an attempt that waits for it goes on.                 *)
RefreshEnds ==
  /\ refresh.got # "none"
  /\ tools' = IF refresh.got = "result" THEN refresh.version ELSE tools
  /\ connector' = IF connector.await = "tools/list" /\ connector.got = "none"
                    THEN [connector EXCEPT !.got = refresh.got] ELSE connector
  /\ refresh' = NoRefresh
  /\ chunk' = FALSE
  /\ UNCHANGED <<mcpState, connected, proc, orphans, nextId, pending, inbox, pipe,
                 serverTools, asks, mcpTask>>

(* disconnect(): stops the transport if there is one. *)
Disconnect ==
  /\ mcpState # "disconnected"
  /\ mcpState' = "disconnected" /\ tools' = 0
  /\ connected' = FALSE
  /\ proc' = IF proc = "live" THEN "gone" ELSE proc
  /\ RejectAll
  /\ chunk' = FALSE
  /\ UNCHANGED <<orphans, nextId, serverTools, asks>>

-----------------------------------------------------------------------------
(* Calls, and the server *)

(* callTool(): refused unless the client is ready and the server there.     *)
CallTool(k) ==
  /\ mcpTask[k] = "idle"
  /\ IF connected /\ mcpState = "ready"
       THEN Send(k) /\ Settles({k}, "pending")
       ELSE NoSend /\ Settles({k}, "failed")
  /\ chunk' = FALSE
  /\ UNCHANGED <<mcpState, connector, refresh, connected, proc, orphans, pipe, tools,
                 serverTools, asks>>

(* The server answers a request, in any order, or has its list changed, or  *)
(* makes a request of its own, numbered from 1 as its ids are its own.      *)
Answer(q, ok) ==
  /\ proc = "live" /\ ~Continuations /\ q \in inbox
  /\ inbox' = inbox \ {q}
  /\ pipe' = Append(pipe, [kind |-> "response", id |-> q.id, of |-> q.of,
                           ok |-> ok, version |-> serverTools])
  /\ UNCHANGED <<mcpState, connector, refresh, connected, proc, orphans, nextId, pending,
                 tools, serverTools, asks, chunk, mcpTask>>

ToolsChange ==
  /\ proc = "live" /\ ~Continuations /\ serverTools < MaxChanges
  /\ serverTools' = serverTools + 1
  /\ pipe' = Append(pipe, [kind |-> "list_changed"])
  /\ UNCHANGED <<mcpState, connector, refresh, connected, proc, orphans, nextId, pending,
                 inbox, tools, asks, chunk, mcpTask>>

ServerAsks ==
  /\ proc = "live" /\ ~Continuations /\ asks < MaxAsks
  /\ asks' = asks + 1
  /\ pipe' = Append(pipe, [kind |-> "request", id |-> asks + 1])
  /\ UNCHANGED <<mcpState, connector, refresh, connected, proc, orphans, nextId, pending,
                 inbox, tools, serverTools, chunk, mcpTask>>

(* handleMessage(): whatever has a numeric id is taken for the response to  *)
(* the request of that id; a request of the server has no tool list and no  *)
(* handshake in it, so the attempt fails and a list becomes empty.          *)
HandleResponse(m) ==
  LET hit == {q \in pending : q.id = m.id}
      owners == {q.of : q \in hit}
      fine == m.kind = "response" /\ m.ok
      out == IF fine \/ (m.kind = "request" /\ "refresh" \in owners) THEN "result" ELSE "error"
  IN
  /\ pending' = pending \ hit
  /\ HandOver(owners, out, IF m.kind = "response" THEN m.version ELSE 0)
  /\ Settles(owners \cap Calls, "answered")
  /\ UNCHANGED <<nextId, inbox>>

(* handleNotification(): a refresh, unless one is in flight.                *)
HandleListChanged ==
  /\ IF refresh.on \/ ~connected
       THEN NoSend /\ UNCHANGED refresh
       ELSE Send("refresh") /\ refresh' = [NoRefresh EXCEPT !.on = TRUE]
  /\ UNCHANGED <<connector, mcpTask>>

(* One message of a chunk; the next one may be in the same chunk, whose     *)
(* loop runs before the continuations do.                                   *)
Receive ==
  /\ pipe # << >> /\ (Continuations => chunk)
  /\ pipe' = Tail(pipe)
  /\ IF Head(pipe).kind = "list_changed" THEN HandleListChanged ELSE HandleResponse(Head(pipe))
  /\ chunk' = TRUE
  /\ UNCHANGED <<mcpState, connected, proc, orphans, tools, serverTools, asks>>

(* The timer of a request, or the error of its write. *)
RequestFails(q) ==
  /\ q \in pending /\ ~Continuations
  /\ pending' = pending \ {q}
  /\ HandOver({q.of}, "error", 0)
  /\ Settles({q.of} \cap Calls, "failed")
  /\ chunk' = FALSE
  /\ UNCHANGED <<mcpState, connected, proc, orphans, nextId, inbox, pipe, tools,
                 serverTools, asks>>

(* 'exit' or 'error' of the process, or stop() by processBuffer, which got  *)
(* more than MAX_BUFFER_SIZE without a message: the client's state stays.   *)
ServerEnds ==
  /\ proc = "live" /\ ~Continuations
  /\ proc' = "gone" /\ connected' = FALSE
  /\ RejectAll
  /\ chunk' = FALSE
  /\ UNCHANGED <<mcpState, orphans, nextId, tools, serverTools, asks>>

-----------------------------------------------------------------------------
Continue == ConnectorFails \/ ConnectorAbandoned \/ ConnectorStarted
            \/ ConnectorInitialized \/ ConnectorListed \/ RefreshEnds

McpNext ==
  \/ \E k \in Connects : ConnectStarts(k) \/ ConnectJoins(k)
  \/ \E k \in Calls : CallTool(k)
  \/ Disconnect \/ Continue \/ Receive \/ ToolsChange \/ ServerAsks
  \/ \E q \in inbox, ok \in BOOLEAN : Answer(q, ok)
  \/ \E q \in pending : RequestFails(q)
  \/ ServerEnds

(* Promises run and timers fire; the server owes nothing.                   *)
McpFairness ==
  /\ WF_mcpVars(Continue)
  /\ WF_mcpVars(\E q \in pending : RequestFails(q))

McpSpec == McpInit /\ [][McpNext]_mcpVars /\ McpFairness

-----------------------------------------------------------------------------
(* Properties *)

(* A client that gave up or was disconnected has no server running, and no  *)
(* attempt ever loses the process of the one before (client.ts:66 "rather   *)
(* than each spawning their own transport process").                        *)
NoServerLeftRunning ==
  /\ orphans = 0
  /\ mcpState \in {"disconnected", "error"} => proc # "live"

(* Every connect() and every callTool() is settled, whatever the server     *)
(* does and whenever disconnect() is called: the client implements          *)
(* SettleOnce.                                                              *)
Promise == INSTANCE SettleOnce WITH Requests <- McpTasks, status <- mcpTask
McpSettles == Promise!Spec
=============================================================================
