----------------------------- MODULE MCClients -----------------------------
(***************************************************************************)
(* The clients of what runs elsewhere: the harness's child processes       *)
(* (external agents, an MCP server, one language server and the manager of *)
(* several) and a remote agent.  They share no state, so a behaviour is    *)
(* about one of them, its focus, and the state spaces add up instead of    *)
(* multiplying.                                                            *)
(***************************************************************************)
EXTENDS ExternalAgent, McpClient, LspClient, RemoteAgents, TLC

VARIABLE focus
localVars == <<externalVars, mcpVars, lspVars, managerVars>>
clientVars == <<focus, localVars, remoteVars>>

ClientInit ==
  /\ focus \in {"external", "mcp", "lsp", "manager", "remote"}
  /\ ExternalInit /\ McpInit /\ LspInit /\ ManagerInit /\ RemoteInit

ClientNext ==
  /\ UNCHANGED focus
  /\ \/ focus = "external" /\ ExternalNext /\ UNCHANGED <<mcpVars, lspVars, managerVars, remoteVars>>
     \/ focus = "mcp" /\ McpNext /\ UNCHANGED <<externalVars, lspVars, managerVars, remoteVars>>
     \/ focus = "lsp" /\ LspNext /\ UNCHANGED <<externalVars, mcpVars, managerVars, remoteVars>>
     \/ focus = "manager" /\ ManagerNext /\ UNCHANGED <<externalVars, mcpVars, lspVars, remoteVars>>
     \/ focus = "remote" /\ RemoteNext /\ UNCHANGED localVars

(* A component that is not in focus stays where nothing of it is enabled.   *)
ClientSpec == ClientInit /\ [][ClientNext]_clientVars
              /\ ExternalFairness /\ McpFairness /\ LspFairness /\ ManagerFairness
              /\ RemoteFairness

(* Child processes: whoever has been answered, given up or disconnected     *)
(* leaves none running, and their output is bounded (external-agent.ts,     *)
(* mcp/client.ts); a remote agent: its chunks arrive in order and without   *)
(* a hole (a2a/src/client/index.ts).                                        *)
ClientsSound ==
  /\ ExternalTypeOK /\ McpTypeOK /\ LspTypeOK /\ ManagerTypeOK
  /\ AnsweredRunsAreOver /\ OutputBounded /\ NoServerLeftRunning
  /\ RemoteAnswersTrue

(* Every call of every client is answered, once, although its process hangs,*)
(* dies, is stopped or is replaced meanwhile: each implements SettleOnce; a *)
(* remote call is, although the stream breaks off or nobody reads it.       *)
ClientsSettle == BoundedRunsSettle /\ McpSettles /\ LspSettles /\ ManagerSettles
                 /\ RemoteSettles

-----------------------------------------------------------------------------
PathIn == [empty |-> FALSE, inAllowed |-> TRUE, inDisallowed |-> FALSE]
PathOut == [PathIn EXCEPT !.inAllowed = FALSE, !.inDisallowed = TRUE]
ExternalProviders == [r \in Runs |-> r]
ExternalRequests ==
  ("codex" :> [own |-> [allow |-> TRUE, disallow |-> TRUE], cwd |-> PathIn,
               dirs |-> {PathIn}, timeout |-> TRUE, idle |-> TRUE])
  @@ ("claude" :> [own |-> [allow |-> FALSE, disallow |-> TRUE], cwd |-> PathIn,
                   dirs |-> {PathOut}, timeout |-> TRUE, idle |-> FALSE])
ExternalOptions == [p \in Providers |->
  [bypass |-> p = "codex", extraArgs |-> FALSE, allowBypass |-> TRUE, allowExtraArgs |-> FALSE]]

Writes(json, hints, text) == [json |-> json, hints |-> hints, text |-> text, encrypted |-> FALSE]
ExternalLines == {Writes("text", {}, TRUE), Writes("object", {"reasoning", "diff"}, FALSE),
                  Writes("object", {"tool"}, TRUE), Writes("object", {}, FALSE)}

PlainCommand == [empty |-> FALSE, metacharacters |-> FALSE, traversal |-> FALSE, found |-> TRUE]

Call(m, f) == [method |-> m, file |-> f]
LspCalls == <<Call("start", "a"), Call("start", "a"), Call("touchFile", "a"),
              Call("touchAndWait", "a"), Call("request", "b")>>

TouchServers == <<<<"ts", "eslint">>, <<"ts">>>>
=============================================================================
