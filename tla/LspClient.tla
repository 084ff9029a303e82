----------------------------- MODULE LspClient -----------------------------
(***************************************************************************)
(* The language servers.                                                   *)
(*                                                                         *)
(* LSPClient (src/src/lsp/client.ts): one language server over its standard*)
(* input and output; starting it with a lock that concurrent callers join, *)
(* the open documents and their versions, the cached diagnostics, requests *)
(* and waiters for diagnostics with their timers, the end of the process   *)
(* and stop().                                                             *)
(*                                                                         *)
(* Every handler runs to its end before the next one; the answer to        *)
(* initialize and the rest of start() are one step, as nothing that could  *)
(* run between the two calls stop().                                       *)
(***************************************************************************)
EXTENDS Integers, Sequences, FiniteSets, SequencesExt

CONSTANTS
  Tasks,         \* calls of the client's methods
  CallOf,        \* [method, file] of each task
  Files,
  MaxTracked     \* MAX_TRACKED_FILES

Methods == {"start", "touchFile", "touchAndWait", "request"}

ASSUME LspAssumption ==
  /\ CallOf \in [Tasks -> [method : Methods, file : Files]]
  /\ MaxTracked \in Nat \ {0}

VARIABLES
  lspState,      \* this.state
  live,          \* this.process is there
  fileVersions,  \* tracked files, the oldest first, with their versions
  cache,         \* files with cached diagnostics, the oldest first
  server,        \* the server: the version of each document, -1 if not open
  lspTask        \* where each call is

lspVars == <<lspState, live, fileVersions, cache, server, lspTask>>

Waiting == {"starting", "requesting", "waiting", "debouncing"}
Tracked == {fileVersions[i].file : i \in DOMAIN fileVersions}
VersionOf(f) == (CHOOSE e \in ToSet(fileVersions) : e.file = f).version

LspTypeOK ==
  /\ lspState \in {"disconnected", "connecting", "ready", "broken"}
  /\ live \in BOOLEAN
  /\ fileVersions \in Seq([file : Files, version : Nat])
  /\ cache \in Seq(Files)
  /\ server \in [Files -> Int]
  /\ lspTask \in [Tasks -> {"idle", "answered", "failed"} \cup Waiting]

NoDocuments == [f \in Files |-> -1]

LspInit ==
  /\ lspState = "disconnected" /\ live = FALSE
  /\ fileVersions = << >> /\ cache = << >> /\ server = NoDocuments
  /\ lspTask = [k \in Tasks |-> "idle"]

At(step) == {k \in Tasks : lspTask[k] = step}

(* The calls in K are answered, those in F fail. *)
SettleTasks(K, F) ==
  lspTask' = [k \in Tasks |-> IF k \in K THEN "answered" ELSE IF k \in F THEN "failed"
                              ELSE lspTask[k]]

(* rejectAllPending and clearAllWaiters: a start fails, a request method    *)
(* swallows the error and answers with nothing, a waiter is let go.         *)
LetAllGo == SettleTasks(At("requesting") \cup At("waiting") \cup At("debouncing"),
                        At("starting"))

KeepsDocuments == UNCHANGED <<fileVersions, cache, server>>

-----------------------------------------------------------------------------
(* Starting and stopping *)

(* start() that needs no process: ready, marked as broken, or in flight.    *)
StartAnswered(k) ==
  /\ lspTask[k] = "idle" /\ CallOf[k].method = "start"
  /\ lspState # "disconnected"
  /\ lspTask' = [lspTask EXCEPT ![k] = CASE lspState = "ready" -> "answered"
                                         [] lspState = "broken" -> "failed"
                                         [] OTHER -> "starting"]
  /\ KeepsDocuments /\ UNCHANGED <<lspState, live>>

(* start(): validateSpawnCommand and spawn may throw, which breaks the      *)
(* client; otherwise initialize is sent.                                    *)
StartSpawns(k) ==
  /\ lspTask[k] = "idle" /\ CallOf[k].method = "start"
  /\ lspState = "disconnected"
  /\ \/ /\ lspState' = "connecting" /\ live' = TRUE /\ server' = NoDocuments
        /\ lspTask' = [lspTask EXCEPT ![k] = "starting"]
        /\ UNCHANGED <<fileVersions, cache>>
     \/ /\ lspState' = "broken"
        /\ lspTask' = [lspTask EXCEPT ![k] = "failed"]
        /\ fileVersions' = << >> /\ cache' = << >>
        /\ UNCHANGED <<live, server>>

(* The answer to initialize: the client is ready. *)
Initialized ==
  /\ lspState = "connecting"
  /\ lspState' = "ready" /\ SettleTasks(At("starting"), {})
  /\ KeepsDocuments /\ UNCHANGED live

(* Mutant: the documents stay tracked for the next process.                 *)
ForgetNothing == UNCHANGED <<fileVersions, cache>>

(* The end of stop(). *)
Forget == fileVersions' = << >> /\ cache' = << >>

(* initialize answers with an error or times out: the catch stops the       *)
(* process and marks the client as broken.                                  *)
InitializeFails ==
  /\ lspState = "connecting"
  /\ lspState' = "broken" /\ live' = FALSE /\ server' = NoDocuments
  /\ Forget /\ LetAllGo

(* stop(); the catch of a start in flight finds "disconnected" and leaves   *)
(* it.  Also the way out of processBuffer over MAX_BUFFER_SIZE.             *)
Stop ==
  /\ lspState # "disconnected"
  /\ lspState' = "disconnected" /\ live' = FALSE /\ server' = NoDocuments
  /\ Forget /\ LetAllGo

(* 'exit' and 'error' of the process: broken for good, or until stop().     *)
ProcessEnds ==
  /\ live
  /\ live' = FALSE /\ lspState' = "broken" /\ server' = NoDocuments
  /\ LetAllGo
  /\ UNCHANGED <<fileVersions, cache>>

-----------------------------------------------------------------------------
(* Documents *)

(* The oldest entry goes when the map is at its cap. *)
Evicted(s) == IF Len(s) >= MaxTracked THEN Tail(s) ELSE s

Raised(f) == [i \in DOMAIN fileVersions |->
               IF fileVersions[i].file = f
                 THEN [fileVersions[i] EXCEPT !.version = @ + 1] ELSE fileVersions[i]]

(* didOpen with version 0, or didChange with the next version.  A file that *)
(* was evicted is opened again without having been closed.                  *)
OpenOrChange(f) ==
  IF f \in Tracked
    THEN /\ fileVersions' = Raised(f)
         /\ server' = [server EXCEPT ![f] = VersionOf(f) + 1]
    ELSE /\ fileVersions' = Append(Evicted(fileVersions), [file |-> f, version |-> 0])
         /\ server' = [server EXCEPT ![f] = 0]

(* touchFile(): nothing unless the client is ready and the file readable;   *)
(* the waiter is there before the notification is sent.                     *)
Touch(k) ==
  /\ lspTask[k] = "idle" /\ CallOf[k].method \in {"touchFile", "touchAndWait"}
  /\ \/ /\ lspState = "ready" /\ OpenOrChange(CallOf[k].file)
        /\ lspTask' = [lspTask EXCEPT
             ![k] = IF CallOf[k].method = "touchAndWait" THEN "waiting" ELSE "answered"]
     \/ /\ lspTask' = [lspTask EXCEPT ![k] = "answered"]
        /\ UNCHANGED <<fileVersions, server>>
  /\ UNCHANGED <<lspState, live, cache>>

(* sendRequest(): an entry of the request table, with a timer.              *)
Sends(k) == lspTask' = [lspTask EXCEPT ![k] = "requesting"]

(* getDefinition, getReferences, getDocumentSymbols, getHover and           *)
(* getCompletions: ensureFileOpen, then the request.                        *)
RequestMethod(k) ==
  /\ lspTask[k] = "idle" /\ CallOf[k].method = "request"
  /\ IF lspState # "ready"
       THEN lspTask' = [lspTask EXCEPT ![k] = "answered"] /\ UNCHANGED <<fileVersions, server>>
       ELSE /\ Sends(k)
            /\ \/ CallOf[k].file \notin Tracked /\ OpenOrChange(CallOf[k].file)
               \/ UNCHANGED <<fileVersions, server>>     \* open, or not readable
  /\ UNCHANGED <<lspState, live, cache>>

(* The response, or the timer: either way the caller is answered.           *)
RequestEnds(k) ==
  /\ lspTask[k] = "requesting"
  /\ SettleTasks({k}, {})
  /\ KeepsDocuments /\ UNCHANGED <<lspState, live>>

-----------------------------------------------------------------------------
(* Diagnostics *)

(* publishDiagnostics: cached, the oldest entry evicted at the cap, and the *)
(* debounce timer of every waiter of the file is started anew.              *)
Publish(f) ==
  /\ live /\ lspState \in {"connecting", "ready"}
  /\ cache' = IF f \in ToSet(cache) THEN cache ELSE Append(Evicted(cache), f)
  /\ lspTask' = [k \in Tasks |-> IF lspTask[k] = "waiting" /\ CallOf[k].file = f
                                   THEN "debouncing" ELSE lspTask[k]]
  /\ UNCHANGED <<lspState, live, fileVersions, server>>

(* The debounce timer or the overall timer of a waiter.                     *)
WaiterResolved(k) ==
  /\ lspTask[k] \in {"waiting", "debouncing"}
  /\ SettleTasks({k}, {})
  /\ KeepsDocuments /\ UNCHANGED <<lspState, live>>

-----------------------------------------------------------------------------
LspNext ==
  \/ Initialized \/ InitializeFails \/ Stop \/ ProcessEnds
  \/ \E f \in Files : Publish(f)
  \/ \E k \in Tasks : StartAnswered(k) \/ StartSpawns(k) \/ Touch(k) \/ RequestMethod(k)
                      \/ RequestEnds(k) \/ WaiterResolved(k)

(* Every request and every waiter has a timer. *)
LspFairness ==
  /\ WF_lspVars(InitializeFails)
  /\ \A k \in Tasks : WF_lspVars(RequestEnds(k)) /\ WF_lspVars(WaiterResolved(k))

LspSpec == LspInit /\ [][LspNext]_lspVars /\ LspFairness

-----------------------------------------------------------------------------
(* Properties *)

(* client.ts:13: "file versions are tracked atomically".  A client that is  *)
(* ready has its process, tracks as many files as it may at most, and the   *)
(* version it has for a file is the one this very process was told.         *)
DocumentsInStep ==
  lspState = "ready" =>
    /\ live
    /\ Len(fileVersions) <= MaxTracked /\ Len(cache) <= MaxTracked
    /\ \A f \in Tracked : server[f] = VersionOf(f)

(* Every start(), touchFile() and request method is settled, although the   *)
(* server may never answer: the client implements SettleOnce.               *)
Promised == INSTANCE SettleOnce WITH
  Requests <- Tasks,
  status <- [k \in Tasks |-> IF lspTask[k] \in Waiting THEN "pending" ELSE lspTask[k]]
LspSettles == Promised!Spec

-----------------------------------------------------------------------------
(***************************************************************************)
(* LSPManager (src/src/lsp/index.ts): the language servers of a workspace, *)
(* started on the first file that needs them, shared by concurrent callers,*)
(* given up when their start fails, and disposed of.  Of each client it    *)
(* matters here whether it is starting, ready or over.                     *)
(***************************************************************************)
CONSTANTS
  Touches,       \* calls of touchFile() and of the request methods
  ServersOf,     \* the servers for the file of each call, built in or custom
  MaxSpawns      \* bound: clients ever made

AllServers == UNION {ToSet(ServersOf[k]) : k \in Touches}

ASSUME ManagerAssumption ==
  /\ MaxSpawns \in Nat
  /\ \A k \in Touches : ServersOf[k] \in Seq(AllServers)

VARIABLES
  registered,    \* this.clients: the client of each server, 0 if there is none
  brokenServers, \* this.broken
  spawning,      \* this.spawning: the client in flight, 0 if there is none
  spawned,       \* every client made: [of, state]
  disabled,
  touch          \* each call: the client it awaits, the servers left, clients found

managerVars == <<registered, brokenServers, spawning, spawned, disabled, touch>>

ClientId == 0..MaxSpawns
NoClients == [s \in AllServers |-> 0]

ManagerTypeOK ==
  /\ registered \in [AllServers -> ClientId] /\ spawning \in [AllServers -> ClientId]
  /\ brokenServers \subseteq AllServers /\ disabled \in BOOLEAN
  /\ spawned \in Seq([of : AllServers, state : {"starting", "ready", "failed", "over"}])
  /\ touch \in [Touches -> [at : {"idle", "looking", "joined", "owner", "answered"},
                            awaits : ClientId, left : Seq(AllServers), found : SUBSET ClientId]]

ManagerInit ==
  /\ registered = NoClients /\ spawning = NoClients
  /\ brokenServers = {} /\ spawned = << >> /\ disabled = FALSE
  /\ touch = [k \in Touches |-> [at |-> "idle", awaits |-> 0, left |-> << >>, found |-> {}]]

StateOf(c) == IF c = 0 THEN "none" ELSE spawned[c].state
Goes(k, t) == touch' = [touch EXCEPT ![k] = t]

-----------------------------------------------------------------------------
(* touchFile() and the request methods: nothing when disabled. *)
Called(k) ==
  /\ touch[k].at = "idle"
  /\ Goes(k, [touch[k] EXCEPT !.at = IF disabled THEN "answered" ELSE "looking",
                              !.left = ServersOf[k]])
  /\ UNCHANGED <<registered, brokenServers, spawning, spawned, disabled>>

(* getClientsForFile is through: each client found is asked; its own call   *)
(* settles (LspSettles), and its error is swallowed.                        *)
Served(k) ==
  /\ touch[k].at = "looking" /\ touch[k].left = << >>
  /\ Goes(k, [touch[k] EXCEPT !.at = "answered"])
  /\ UNCHANGED <<registered, brokenServers, spawning, spawned, disabled>>

Looking(k, s) == touch[k].at = "looking" /\ touch[k].left # << >> /\ Head(touch[k].left) = s
Usable(s) == StateOf(registered[s]) = "ready"
Advanced(k) == [touch[k] EXCEPT !.left = Tail(@)]

(* A broken server is skipped, a ready client is taken. *)
PassesOrTakes(k, s) ==
  /\ Looking(k, s) /\ (s \in brokenServers \/ Usable(s))
  /\ Goes(k, [Advanced(k) EXCEPT !.found = IF s \in brokenServers THEN @ ELSE @ \cup {registered[s]}])
  /\ UNCHANGED <<registered, brokenServers, spawning, spawned, disabled>>

Joins(k, s) ==
  /\ Looking(k, s) /\ s \notin brokenServers /\ ~Usable(s) /\ spawning[s] # 0
  /\ Goes(k, [touch[k] EXCEPT !.at = "joined", !.awaits = spawning[s]])
  /\ UNCHANGED <<registered, brokenServers, spawning, spawned, disabled>>

(* spawnClient(): a new client, whose start is in flight.  A client that    *)
(* has crashed since it was ready is replaced, without being marked.        *)
Spawns(k, s) ==
  /\ Looking(k, s) /\ s \notin brokenServers /\ ~Usable(s) /\ spawning[s] = 0
  /\ Len(spawned) < MaxSpawns
  /\ spawned' = Append(spawned, [of |-> s, state |-> "starting"])
  /\ spawning' = [spawning EXCEPT ![s] = Len(spawned) + 1]
  /\ Goes(k, [touch[k] EXCEPT !.at = "owner", !.awaits = Len(spawned) + 1])
  /\ UNCHANGED <<registered, brokenServers, disabled>>

(* The rest of spawnClient(): the client is registered, whatever happened   *)
(* meanwhile, or its server is marked as broken.                            *)
StartResolves(c) ==
  /\ spawned[c].state = "starting"
  /\ \/ /\ spawned' = [spawned EXCEPT ![c].state = "ready"]
        /\ registered' = [registered EXCEPT ![spawned[c].of] = c]
        /\ UNCHANGED brokenServers
     \/ /\ spawned' = [spawned EXCEPT ![c].state = "failed"]
        /\ brokenServers' = brokenServers \cup {spawned[c].of}
        /\ UNCHANGED registered
  /\ UNCHANGED <<spawning, disabled, touch>>

Found(k) ==
  [Advanced(k) EXCEPT !.at = "looking", !.awaits = 0,
     !.found = IF StateOf(touch[k].awaits) = "failed" THEN @ ELSE @ \cup {touch[k].awaits}]

(* Mutant: who joined a spawn waits for the spawning that is current.       *)
JoinedGoesOnLate(k) ==
  /\ touch[k].at = "joined" /\ spawning[Head(touch[k].left)] = touch[k].awaits
  /\ StateOf(touch[k].awaits) # "starting"
  /\ Goes(k, Found(k))
  /\ UNCHANGED <<registered, brokenServers, spawning, spawned, disabled>>

JoinedGoesOn(k) ==
  /\ touch[k].at = "joined" /\ StateOf(touch[k].awaits) # "starting"
  /\ Goes(k, Found(k))
  /\ UNCHANGED <<registered, brokenServers, spawning, spawned, disabled>>

(* The caller that spawned takes the entry away, if it is another one too.  *)
OwnerGoesOn(k) ==
  /\ touch[k].at = "owner" /\ StateOf(touch[k].awaits) # "starting"
  /\ spawning' = [spawning EXCEPT ![Head(touch[k].left)] = 0]
  /\ Goes(k, Found(k))
  /\ UNCHANGED <<registered, brokenServers, spawned, disabled>>

-----------------------------------------------------------------------------
(* The process of a ready client ends. *)
ClientCrashes(c) ==
  /\ spawned[c].state = "ready"
  /\ spawned' = [spawned EXCEPT ![c].state = "over"]
  /\ UNCHANGED <<registered, brokenServers, spawning, disabled, touch>>

(* disposeAll(), which disable() calls too: the registered clients are      *)
(* stopped; those in flight are forgotten.                                  *)
DisposeAll ==
  /\ \E off \in {TRUE, disabled} : disabled' = off
  /\ spawned' = [c \in DOMAIN spawned |->
       IF registered[spawned[c].of] = c THEN [spawned[c] EXCEPT !.state = "over"] ELSE spawned[c]]
  /\ registered' = NoClients /\ spawning' = NoClients
  /\ UNCHANGED <<brokenServers, touch>>

-----------------------------------------------------------------------------
Proceeds(k) == Served(k) \/ JoinedGoesOn(k) \/ OwnerGoesOn(k)
               \/ \E s \in AllServers : PassesOrTakes(k, s) \/ Joins(k, s) \/ Spawns(k, s)

ManagerNext ==
  \/ \E k \in Touches : Called(k) \/ Proceeds(k)
  \/ \E c \in DOMAIN spawned : StartResolves(c) \/ ClientCrashes(c)
  \/ DisposeAll

(* Promises run, and a start settles (LspSettles). *)
ManagerFairness ==
  /\ \A k \in Touches : WF_managerVars(Proceeds(k))
  /\ WF_managerVars(\E c \in DOMAIN spawned : StartResolves(c))

ManagerSpec == ManagerInit /\ [][ManagerNext]_managerVars /\ ManagerFairness

-----------------------------------------------------------------------------
(* Properties *)

(* Every call is answered, although starts fail, clients crash and the      *)
(* manager is disposed of while they wait: it implements SettleOnce.        *)
Answering == INSTANCE SettleOnce WITH
  Requests <- Touches,
  status <- [k \in Touches |-> IF touch[k].at \in {"idle", "answered"} THEN touch[k].at
                               ELSE "pending"]
ManagerSettles == Answering!Spec
=============================================================================
