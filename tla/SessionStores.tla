---------------------------- MODULE SessionStores ----------------------------
(***************************************************************************)
(* The stores of sessions and artifacts of the background platform: in     *)
(* memory, SQLite, Postgres and a JSON file (src/src/platform/in-memory.ts,*)
(* sqlite-store.ts, postgres-store.ts, filesystem.ts).  A store holds one  *)
(* kind of records.                                                        *)
(*                                                                         *)
(* The first two answer in the call.  Postgres looks for the session and   *)
(* inserts it in two queries; its primary key decides.  The file is read,  *)
(* changed and replaced as a whole under a lock of the process, by writing *)
(* a temporary file and renaming it.  Callers belong to one process.       *)
(***************************************************************************)
EXTENDS Integers, Sequences

CONSTANTS Callers, Keys, Values, None,
  Backends,   \* the stores to check
  MaxCalls    \* bound

Finals == {"ok", "refused", "failed", "lost"}
Stages == {"called", "selected", "queued", "loaded", "written"} \cup Finals
OpsOf == [sessions |-> {"create", "save"}, artifacts |-> {"put"}]
StoreCalls == [op : {"create", "save", "put"}, key : Keys, value : Values, at : Stages,
          file : [Keys -> Values \cup {None}]]
Asked == [op : {"create", "save", "put"}, key : Keys, value : Values, answer : {"pending"} \cup Finals]

ASSUME SessionStoreAssumption ==
  /\ None \notin Values /\ None \notin StoreCalls /\ None \notin Asked
  /\ MaxCalls \in Nat
  /\ Backends \subseteq {"memory", "sqlite", "postgres", "file"}

VARIABLES
  backend,
  holds,      \* "sessions" or "artifacts"
  table,      \* the rows, or the content of the file
  caller,     \* the call of each caller: what it asked and how far it is
  lock,       \* JsonFileLock: the callers in the order of their calls
  calls       \* bound

sessionVars == <<backend, holds, table, caller, lock, calls>>

SessionTypeOK ==
  /\ backend \in Backends /\ holds \in {"sessions", "artifacts"}
  /\ table \in [Keys -> Values \cup {None}]
  /\ caller \in [Callers -> StoreCalls \cup {None}]
  /\ lock \in Seq(Callers) /\ calls \in Nat

NoRows == [k \in Keys |-> None]

SessionInit ==
  /\ backend \in Backends
  /\ holds \in {"sessions", "artifacts"}
  /\ table = NoRows /\ caller = [c \in Callers |-> None] /\ lock = <<>> /\ calls = 0

At(c, stage) == caller[c] # None /\ caller[c].at = stage
Idle(c) == caller[c] # None => caller[c].at \in Finals
GoTo(c, stage) == caller' = [caller EXCEPT ![c].at = stage]
With(rows, c) == [rows EXCEPT ![caller[c].key] = caller[c].value]
Free(c) == table[caller[c].key] = None
Fits(c) == caller[c].op = "put" \/ ((caller[c].op = "create") <=> Free(c))

Call(c, op, k, v) ==
  /\ Idle(c) /\ calls < MaxCalls
  /\ calls' = calls + 1
  /\ caller' = [caller EXCEPT ![c] =
       [op |-> op, key |-> k, value |-> v, file |-> NoRows,
        at |-> IF backend = "file" THEN "queued" ELSE "called"]]
  /\ lock' = IF backend = "file" THEN Append(lock, c) ELSE lock
  /\ UNCHANGED <<backend, holds, table>>

PerformNow(c) ==
  /\ IF Fits(c) THEN table' = With(table, c) /\ GoTo(c, "ok")
                ELSE GoTo(c, "refused") /\ UNCHANGED table
  /\ UNCHANGED <<backend, holds, lock, calls>>

(* The map, or statements of one turn. *)
AnswerAtOnce(c) == At(c, "called") /\ backend \in {"memory", "sqlite"} /\ PerformNow(c)

(* The UPDATE of save, and the upsert of put. *)
Update(c) == At(c, "called") /\ backend = "postgres" /\ caller[c].op = "save" /\ PerformNow(c)
Upsert(c) == At(c, "called") /\ backend = "postgres" /\ caller[c].op = "put" /\ PerformNow(c)

Select(c) ==
  /\ At(c, "called") /\ backend = "postgres" /\ caller[c].op = "create"
  /\ GoTo(c, IF Free(c) THEN "selected" ELSE "refused")
  /\ UNCHANGED <<backend, holds, table, lock, calls>>

(* The primary key refuses a session inserted in between. *)
Insert(c) ==
  /\ At(c, "selected")
  /\ PerformNow(c)

(* The connection breaks after the statement was done. *)
AnswerIsLost(c) ==
  /\ backend = "postgres"
  /\ (At(c, "called") /\ caller[c].op # "create" /\ Fits(c)) \/ (At(c, "selected") /\ Free(c))
  /\ table' = With(table, c) /\ GoTo(c, "lost")
  /\ UNCHANGED <<backend, holds, lock, calls>>

(* A query that the server or the disk refuses. *)
QueryFails(c) ==
  /\ backend \in {"sqlite", "postgres"} /\ (At(c, "called") \/ At(c, "selected"))
  /\ GoTo(c, "failed")
  /\ UNCHANGED <<backend, holds, table, lock, calls>>

-----------------------------------------------------------------------------
(* The file: a caller loads it when the callers before it have released    *)
(* the lock.                                                               *)

NotLocked(c) == TRUE
HasLock(c) == lock # <<>> /\ Head(lock) = c
Released == lock' = Tail(lock)

Load(c) ==
  /\ At(c, "queued") /\ HasLock(c)
  /\ IF Fits(c)
     THEN caller' = [caller EXCEPT ![c].at = "loaded", ![c].file = table] /\ UNCHANGED lock
     ELSE GoTo(c, "refused") /\ Released
  /\ UNCHANGED <<backend, holds, table, calls>>

WriteTemporary(c) ==
  /\ At(c, "loaded") /\ GoTo(c, "written")
  /\ UNCHANGED <<backend, holds, table, lock, calls>>

Rename(c) ==
  /\ At(c, "written")
  /\ table' = With(caller[c].file, c)
  /\ GoTo(c, "ok") /\ Released
  /\ UNCHANGED <<backend, holds, calls>>

(* Reading, writing or renaming fails: finally releases the lock. *)
FileFails(c) ==
  /\ (At(c, "queued") /\ HasLock(c)) \/ At(c, "loaded") \/ At(c, "written")
  /\ GoTo(c, "failed") /\ Released
  /\ UNCHANGED <<backend, holds, table, calls>>

-----------------------------------------------------------------------------
(* The process stops and starts again over the same database or file. *)
ProcessRestarts ==
  /\ caller' = [c \in Callers |-> None] /\ lock' = <<>>
  /\ table' = IF backend = "memory" THEN NoRows ELSE table
  /\ UNCHANGED <<backend, holds, calls>>

CallerStep(c) ==
  \/ \E op \in OpsOf[holds], k \in Keys, v \in Values : Call(c, op, k, v)
  \/ AnswerAtOnce(c) \/ Update(c) \/ Upsert(c) \/ Select(c) \/ Insert(c) \/ AnswerIsLost(c) \/ QueryFails(c)
  \/ Load(c) \/ WriteTemporary(c) \/ Rename(c) \/ FileFails(c)

SessionNext == ProcessRestarts \/ \E c \in Callers : CallerStep(c)

SessionSpec == SessionInit /\ [][SessionNext]_sessionVars

-----------------------------------------------------------------------------
(* The answer a caller has, in the terms of the promise. *)
AnswerOf(stage) == IF stage \in Finals THEN stage ELSE "pending"
RequestOf(c) ==
  IF caller[c] = None THEN None
  ELSE [op |-> caller[c].op, key |-> caller[c].key, value |-> caller[c].value,
        answer |-> AnswerOf(caller[c].at)]

Promise == INSTANCE AtomicStore WITH map <- table, request <- [c \in Callers |-> RequestOf(c)]

(* Every backend keeps the promise: of two concurrent creates of a session *)
(* one is refused although both found it missing, a save never takes back  *)
(* another session's save although the file is replaced as a whole, and a  *)
(* call that failed or was interrupted halfway has changed nothing         *)
(* (postgres-store.ts:207, filesystem.ts:50, 72).                          *)
SessionsAreAtomic == Promise!AtomicSpec
=============================================================================
