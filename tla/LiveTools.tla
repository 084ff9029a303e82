------------------------------ MODULE LiveTools ------------------------------
(***************************************************************************)
(* Tools that change while a graph runs: the registry behind one node      *)
(* (src/src/registry/dynamic-tool-registry.ts) and the watcher that loads  *)
(* extension files into it (src/packages/hot-loader/src/watch.ts).         *)
(*                                                                         *)
(* A file holds a version, which exports tools or cannot be loaded.  The   *)
(* watcher hears of a change later, and reads what the file holds by then. *)
(***************************************************************************)
EXTENDS Naturals, FiniteSets

CONSTANTS
  Extensions,  \* the files with a suffix that is watched
  ToolNames,
  Nobody,
  ToolCalls,   \* the calls of the registry's node
  MaxEdits     \* bound: changes of the files

ASSUME LiveAssumption ==
  /\ MaxEdits \in Nat
  /\ \A f \in Extensions, version \in 0..MaxEdits : [file |-> f, version |-> version] # Nobody

VARIABLES
  disk,      \* the version in each file: its number, what it exports, whether it loads
  edits,
  unheard,   \* files that changed since the watcher last heard of them
  toolHandlers,  \* the registry: the file and version behind each name
  fileTools, \* fileToolMap: names registered from each file
  loaded,    \* ghost: the version of each file that was loaded last
  shared,    \* ghost: names that two files had registered at once
  called     \* the handler of each call, and whether it has answered

liveVars == <<disk, edits, unheard, toolHandlers, fileTools, loaded, shared, called>>

Version(number, exports, loads) == [number |-> number, exports |-> exports, loads |-> loads]
Absent == Version(0, {}, FALSE)
NoCall == [stage |-> "none", handler |-> Nobody]

LiveInit ==
  /\ disk = [f \in Extensions |-> Absent] /\ edits = 0 /\ unheard = {}
  /\ toolHandlers = [n \in ToolNames |-> Nobody] /\ fileTools = [f \in Extensions |-> {}]
  /\ loaded = [f \in Extensions |-> 0] /\ shared = {}
  /\ called = [c \in ToolCalls |-> NoCall]

Edit(f) ==
  /\ edits < MaxEdits /\ edits' = edits + 1 /\ unheard' = unheard \cup {f}
  /\ disk' \in {[disk EXCEPT ![f] = v] :
                  v \in {Version(edits', exports, TRUE) : exports \in SUBSET ToolNames}
                        \cup {Version(edits', {}, FALSE), Absent}}
  /\ UNCHANGED <<toolHandlers, fileTools, loaded, shared, called>>

(* unloadFile() takes the names of the file away, whoever registered them  *)
(* last; a file that is gone, or does not load, leaves it at that.         *)
Unloaded(f) == [n \in ToolNames |-> IF n \in fileTools[f] THEN Nobody ELSE toolHandlers[n]]
RegisterAll(f, registry) ==
  [n \in ToolNames |-> IF n \in disk[f].exports
                       THEN [file |-> f, version |-> disk[f].number] ELSE registry[n]]

(* add, change and unlink: unloadFile, and loadFile if the file is there.  *)
Hear(f) ==
  /\ f \in unheard /\ unheard' = unheard \ {f}
  /\ toolHandlers' = RegisterAll(f, Unloaded(f))
  /\ fileTools' = [fileTools EXCEPT ![f] = disk[f].exports]
  /\ loaded' = [loaded EXCEPT ![f] = disk[f].number]
  /\ shared' = shared \cup {n \in disk[f].exports : \E g \in Extensions \ {f} : n \in fileTools[g]}
  /\ UNCHANGED <<disk, edits, called>>

(* The node takes the first pending tool: an error in its place if it is   *)
(* not registered; otherwise the handler it found runs on, also when it is *)
(* replaced meanwhile, and what it throws is an answer too.                *)
Dispatch(c, n) ==
  /\ called[c].stage = "none"
  /\ called' = [called EXCEPT ![c] = [stage |-> IF toolHandlers[n] = Nobody THEN "unknown" ELSE "running",
                                      handler |-> toolHandlers[n]]]
  /\ UNCHANGED <<disk, edits, unheard, toolHandlers, fileTools, loaded, shared>>

HandlerAnswers(c) ==
  /\ called[c].stage = "running"
  /\ \E stage \in {"result", "error"} : called' = [called EXCEPT ![c].stage = stage]
  /\ UNCHANGED <<disk, edits, unheard, toolHandlers, fileTools, loaded, shared>>

LiveNext ==
  \/ \E f \in Extensions : Edit(f) \/ Hear(f)
  \/ \E c \in ToolCalls : HandlerAnswers(c) \/ \E n \in ToolNames : Dispatch(c, n)

-----------------------------------------------------------------------------
(* After any changes, failed loads and removals, heard in any order: what  *)
(* is registered comes from the version of its file that was loaded last,  *)
(* and a name that two files never shared is registered exactly while its  *)
(* file has it (watch.ts:48).                                              *)
LoadedToolsTrue ==
  /\ \A n \in ToolNames : toolHandlers[n] # Nobody =>
       LET h == toolHandlers[n] IN n \in fileTools[h.file] /\ h.version = loaded[h.file]
  /\ \A n \in ToolNames \ shared :
       toolHandlers[n] # Nobody <=> \E f \in Extensions : n \in fileTools[f]
=============================================================================
