-------------------------- MODULE CheckpointStores --------------------------
(***************************************************************************)
(* The checkpointers of a thread (src/src/checkpointers/*.ts, and the one  *)
(* in memory of checkpoint.ts).  A table answers a call with one statement *)
(* over its rows.  Redis keeps an entry for each step and a sorted set of  *)
(* the steps: put writes both in one script, but get, list and delete read *)
(* the set first and go to the entries in later commands.                  *)
(*                                                                         *)
(* A thread is a pair of the namespace of a subgraph and the id of the     *)
(* thread, or of "" and the id, as NamespacedCheckpointer makes them.      *)
(***************************************************************************)
EXTENDS Integers, FiniteSets, FiniteSetsExt

CONSTANTS
  Namespaces,   \* "" and the namespaces of subgraphs
  ThreadIds,
  Steps,        \* superstep numbers
  CheckpointBackends,  \* "table" and "redis"
  Readers,      \* concurrent callers of get and list
  Missing, Damaged,   \* no entry, and an entry that does not parse
  MaxPuts, MaxDeletes \* bounds

ASSUME CheckpointAssumption ==
  /\ Steps \subseteq Nat /\ CheckpointBackends \subseteq {"table", "redis"}
  /\ Missing \notin Nat /\ Damaged \notin Nat /\ Missing # Damaged
  /\ MaxPuts \in Nat /\ MaxDeletes \in Nat

Threads == Namespaces \X ThreadIds
NoEntries == [s \in Steps |-> Missing]
NoReader == [at |-> "idle", thread |-> <<"", "">>, op |-> "get", left |-> {}, found |-> NoEntries, seen |-> {}]

VARIABLES
  kept,      \* "table" or "redis"
  entry,     \* the row or entry of each step of each thread: the number of its put
  index,     \* redis: the sorted set of each thread
  reader,    \* get and list under way
  deleting,  \* redis: delete() between its two commands, with the steps it read
  puts, deletes

checkpointVars == <<kept, entry, index, reader, deleting, puts, deletes>>

CheckpointInit ==
  /\ kept \in CheckpointBackends
  /\ entry = [t \in Threads |-> NoEntries]
  /\ index = [t \in Threads |-> {}]
  /\ reader = [r \in Readers |-> NoReader]
  /\ deleting = {} /\ puts = 0 /\ deletes = 0

(* What is stored is what a reader that starts now would find. *)
StoredIn(entries, steps) ==
  IF kept = "table" THEN entries ELSE [s \in Steps |-> IF s \in steps THEN entries[s] ELSE Missing]
Stored(t) == StoredIn(entry[t], index[t])

(* Ghost: each reader under way sees every state of its thread. *)
Witnessed ==
  [r \in Readers |-> IF reader[r].at = "idle" THEN reader[r]
                     ELSE [reader[r] EXCEPT !.seen = @ \cup {StoredIn(entry'[reader[r].thread], index'[reader[r].thread])}]]

Put(t, s) ==
  /\ puts < MaxPuts /\ puts' = puts + 1
  /\ entry' = [entry EXCEPT ![t][s] = puts]
  /\ index' = IF kept = "redis" THEN [index EXCEPT ![t] = @ \cup {s}] ELSE index
  /\ UNCHANGED <<kept, deleting, deletes>>
  /\ reader' = Witnessed

DeleteRows(t) ==
  /\ kept = "table" /\ deletes < MaxDeletes /\ deletes' = deletes + 1
  /\ entry' = [entry EXCEPT ![t] = NoEntries]
  /\ UNCHANGED <<kept, index, deleting, puts>>
  /\ reader' = Witnessed

DeleteReadsSteps(t) ==
  /\ kept = "redis" /\ deletes < MaxDeletes /\ deletes' = deletes + 1
  /\ deleting' = deleting \cup {[thread |-> t, steps |-> index[t]]}
  /\ UNCHANGED <<kept, entry, index, reader, puts>>

(* One DEL of the sorted set and of the entries read before. *)
DeleteRemoves(d) ==
  /\ entry' = [entry EXCEPT ![d.thread] = [s \in Steps |-> IF s \in d.steps THEN Missing ELSE @[s]]]
  /\ index' = [index EXCEPT ![d.thread] = {}]
  /\ deleting' = deleting \ {d}
  /\ UNCHANGED <<kept, puts, deletes>>
  /\ reader' = Witnessed

(* A row or an entry is damaged where it lies. *)
Damage(t, s) ==
  /\ entry[t][s] \in Nat
  /\ entry' = [entry EXCEPT ![t][s] = Damaged]
  /\ UNCHANGED <<kept, index, deleting, puts, deletes>>
  /\ reader' = Witnessed

-----------------------------------------------------------------------------
(* get(), list() and getAt(): begin, and with Redis the read of each entry.*)
(* An entry that does not parse throws CheckpointCorruptError.             *)

HighestOf(S) == IF S = {} THEN {} ELSE {Max(S)}
StepsOf(t) == {s \in Steps : Stored(t)[s] # Missing}

(* The steps a reader will look at. *)
Wanted(t, op) == IF op = "get" THEN HighestOf(StepsOf(t)) ELSE StepsOf(t)

Finished(found) == IF \E s \in Steps : found[s] = Damaged THEN "corrupt" ELSE "done"

BeginRead(r, t, op) ==
  /\ reader[r].at = "idle"
  /\ LET wanted == Wanted(t, op)
         found == [s \in Steps |-> IF kept = "table" /\ s \in wanted THEN entry[t][s] ELSE Missing] IN
     reader' = [reader EXCEPT ![r] =
       [at |-> IF kept = "table" \/ wanted = {} THEN Finished(found) ELSE "reading",
        thread |-> t, op |-> op, left |-> IF kept = "table" THEN {} ELSE wanted,
        found |-> found, seen |-> {Stored(t)}]]
  /\ UNCHANGED <<kept, entry, index, deleting, puts, deletes>>

(* Entries are read in the order of their steps; the first that does not   *)
(* parse ends the call.                                                    *)
ReadEntry(r) ==
  /\ reader[r].at = "reading"
  /\ LET s == Min(reader[r].left)
         left == reader[r].left \ {s}
         found == [reader[r].found EXCEPT ![s] = entry[reader[r].thread][s]] IN
     reader' = [reader EXCEPT ![r].left = left, ![r].found = found,
                              ![r].at = IF left = {} \/ found[s] = Damaged THEN Finished(found) ELSE "reading"]
  /\ UNCHANGED <<kept, entry, index, deleting, puts, deletes>>

ReadReturns(r) ==
  /\ reader[r].at \in {"done", "corrupt"}
  /\ reader' = [reader EXCEPT ![r] = NoReader]
  /\ UNCHANGED <<kept, entry, index, deleting, puts, deletes>>

CheckpointNext ==
  \/ \E t \in Threads, s \in Steps : Put(t, s) \/ Damage(t, s)
  \/ \E t \in Threads : DeleteRows(t) \/ DeleteReadsSteps(t)
  \/ \E d \in deleting : DeleteRemoves(d)
  \/ \E r \in Readers, t \in Threads, op \in {"get", "list"} : BeginRead(r, t, op)
  \/ \E r \in Readers : ReadEntry(r) \/ ReadReturns(r)

CheckpointSpec == CheckpointInit /\ [][CheckpointNext]_checkpointVars

-----------------------------------------------------------------------------
PresentIn(m) == {s \in Steps : m[s] # Missing}

(* get() returns the checkpoint of a step that was the latest of the       *)
(* thread at some moment of the call, or none only if there was none then, *)
(* and each checkpoint that get() or list() returns, or list() leaves out, *)
(* was there or missing at some moment of it, although the sorted set and  *)
(* the entries are read apart with puts and deletes in between             *)
(* (redis.ts:115, 140).                                                    *)
ReadsAreCurrent ==
  \A r \in Readers : reader[r].at = "done" =>
    LET found == reader[r].found
        seen == reader[r].seen IN
    /\ reader[r].op = "get" => \E m \in seen : PresentIn(found) = HighestOf(PresentIn(m))
    /\ \A s \in Steps : reader[r].op = "list" \/ found[s] # Missing => \E m \in seen : m[s] = found[s]
=============================================================================
