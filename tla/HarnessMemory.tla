---------------------------- MODULE HarnessMemory ----------------------------
(***************************************************************************)
(* The memory of the agent loop (src/src/harness/memory, loop/memory.ts):  *)
(* markdown files that each session's loader scans, loads by tier within   *)
(* a budget and adds to when the session ends, and the extractor, which    *)
(* notes facts and promotes the recurring ones.                            *)
(*                                                                         *)
(* A file is known by its folder, day and session (or topic); its text is  *)
(* a set of facts and a cost.  Sessions run at once and share the files    *)
(* and the extractor, whose loader lives as long as the process.  What the *)
(* relevance scores choose is any choice.  INDEX.md files, tags, triggers  *)
(* and summaries are left out: the loader reads back none of the indexes.  *)
(***************************************************************************)
EXTENDS Integers, FiniteSets, FiniteSetsExt

CONSTANTS
  Agendas,     \* the sessions of this process
  Facts,
  Notes,       \* notes that are there from the start: records [folder, day, who]
  NoteFile,    \* the file of each: [tier, cost, facts]
  Budgets,     \* tokens for each tier
  AllOfType,   \* the budget of loadType, 16000
  RecentDays,  \* episodicRecentDays
  ByPath, Unread, Unreadable,
  MaxDay, MaxQueries, MaxAtOnce  \* bounds

ASSUME MemoryAssumption ==
  /\ RecentDays \in Nat \ {0} /\ MaxDay \in Nat /\ MaxQueries \in Nat /\ MaxAtOnce \in Nat
  /\ DOMAIN Budgets = 0..3 /\ \A t \in 0..3 : Budgets[t] \in Nat
  /\ "extractor" \notin Agendas
  /\ Unread # Unreadable /\ \A facts \in SUBSET Facts : Unread # facts /\ Unreadable # facts
  /\ \A n \in Notes :
       /\ n = [folder |-> n.folder, day |-> n.day, who |-> n.who]
       /\ n.folder \notin {"recent", "archive", "semantic"}
       /\ NoteFile[n].facts \subseteq Facts

VARIABLES
  day,
  disk,        \* key -> file
  units,       \* of each loader: key -> [tier, cost, content]
  loaded,      \* of each loader: the keys loaded
  phase,       \* of each session
  asked,       \* the facts the session asked the model to organize
  queries,     \* bound
  noted        \* ghost: <<session, day>> -> the facts last persisted

memoryVars == <<day, disk, units, loaded, phase, asked, queries, noted>>

Loaders == Agendas \cup {"extractor"}
Key(folder, d, who) == [folder |-> folder, day |-> d, who |-> who]
File(tier, cost, facts) == [tier |-> tier, cost |-> cost, facts |-> facts]

-----------------------------------------------------------------------------
(* scanner: a unit for each file, with the tier of its frontmatter or else *)
(* of its path.                                                            *)

TierOf(k, file) ==
  IF file.tier # ByPath THEN file.tier
  ELSE IF k.folder = "recent" THEN 2 ELSE 3
Unit(k, file) == [tier |-> TierOf(k, file), cost |-> file.cost, content |-> Unread]
Scanned(files) == [k \in DOMAIN files |-> Unit(k, files[k])]

(* hydrate: the content a unit has, or what its file holds now. *)
Content(u, k) ==
  IF u.content # Unread THEN u.content
  ELSE IF k \in DOMAIN disk THEN disk[k].facts ELSE Unreadable
Hydrated(us, ks) ==
  [k \in DOMAIN us |-> IF k \in ks THEN [us[k] EXCEPT !.content = Content(us[k], k)] ELSE us[k]]

-----------------------------------------------------------------------------
(* ranker: units are taken in some order as long as they fit.  Of a tier   *)
(* all are candidates, of a task the relevant ones: any.                   *)

Costs(us) == [k \in DOMAIN us |-> us[k].cost]
Tokens(costs, ks) == MapThenSumSet(LAMBDA k : costs[k], ks)
CostOf(us, ks) == Tokens(Costs(us), ks)
Selections(us, candidates, budget) ==
  {ks \in SUBSET candidates :
     /\ CostOf(us, ks) <= budget
     /\ \A k \in candidates \ ks : CostOf(us, ks) + us[k].cost > budget}
Relevant(us, candidates, budget) == {ks \in SUBSET candidates : CostOf(us, ks) <= budget}
OfTier(us, t) == {k \in DOMAIN us : us[k].tier = t}

-----------------------------------------------------------------------------
(* persistEpisodic: the file of the session and the day is written, and    *)
(* unless that fails registered with its text; then what is old is moved   *)
(* to the archive, except for files whose move fails.                      *)

Without(f, ks) == [k \in DOMAIN f \ ks |-> f[k]]
Only(k, v) == [x \in {k} |-> v]
Overlaid(new, old) ==
  [x \in DOMAIN new \cup DOMAIN old |-> IF x \in DOMAIN new THEN new[x] ELSE old[x]]
Archived(k) == Key("archive", k.day, k.who)
Old(k) == k.folder = "recent" /\ k.day <= day - RecentDays
AnyRecent(k) == k.folder = "recent"
Compactable(k) == Old(k)

Moved(files, ks) ==
  Overlaid([a \in {Archived(k) : k \in ks} |-> files[Key("recent", a.day, a.who)]], Without(files, ks))
MovedUnits(us, files, ks) ==
  Overlaid([a \in {Archived(k) : k \in ks} |-> Unit(a, files[Key("recent", a.day, a.who)])],
           Without(us, ks))

Empty == [k \in {} |-> 0]
Discarded(s) == units' = [units EXCEPT ![s] = Empty] /\ loaded' = [loaded EXCEPT ![s] = {}]

(* The log and the facts of a session have the same file name. *)
PersistsEpisodic(l, s, file) ==
  LET k == Key("recent", day, s) IN
  \E written \in BOOLEAN :
    LET files == IF written THEN Overlaid(Only(k, file), disk) ELSE disk
        us == IF written THEN Overlaid(Only(k, [Unit(k, file) EXCEPT !.content = file.facts]), units[l])
              ELSE units[l] IN
    \E ks \in SUBSET {x \in DOMAIN files : Compactable(x)} :
      /\ disk' = Moved(files, ks)
      /\ \/ l = s /\ Discarded(s)
         \/ l # s /\ UNCHANGED loaded /\ units' = [units EXCEPT ![l] = MovedUnits(us, files, ks)]
      /\ noted' = IF written THEN Overlaid(Only(<<s, day>>, file.facts), noted) ELSE noted

-----------------------------------------------------------------------------
(* A session of the loop.                                                  *)

MemoryInit ==
  /\ day = 0 /\ disk = [n \in Notes |-> NoteFile[n]]
  /\ units = [l \in Loaders |-> IF l = "extractor" THEN Scanned(disk) ELSE Empty]
  /\ loaded = [l \in Loaders |-> {}] /\ phase = [s \in Agendas |-> "new"]
  /\ asked = [s \in Agendas |-> {}] /\ queries = 0 /\ noted = Empty

Moves(s, from, to) == phase[s] = from /\ phase' = [phase EXCEPT ![s] = to]

(* initMemory: scan, wake, orient, match; a session that is aborted loads  *)
(* nothing.                                                                *)
Begins(s) ==
  /\ Cardinality({x \in Agendas : phase[x] \notin {"new", "over"}}) < MaxAtOnce
  /\ Moves(s, "new", "running")
  /\ LET us == Scanned(disk) IN
     \E t0 \in Selections(us, OfTier(us, 0), Budgets[0]), t1 \in Selections(us, OfTier(us, 1), Budgets[1]),
        t2 \in Relevant(us, OfTier(us, 2), Budgets[2]) :
       \E ks \in {{}, t0 \cup t1 \cup t2} :
         /\ units' = [units EXCEPT ![s] = Hydrated(us, ks)]
         /\ loaded' = [loaded EXCEPT ![s] = ks]
  /\ UNCHANGED <<day, disk, asked, queries, noted>>

(* The memory_query tool: tier 3, what is not loaded yet. *)
Queries(s) ==
  /\ phase[s] = "running" /\ queries < MaxQueries /\ queries' = queries + 1
  /\ \E ks \in Relevant(units[s], OfTier(units[s], 3) \ loaded[s], Budgets[3]) :
       /\ units' = [units EXCEPT ![s] = Hydrated(@, ks)]
       /\ loaded' = [loaded EXCEPT ![s] = @ \cup ks]
  /\ UNCHANGED <<day, disk, phase, asked, noted>>

(* finalizeMemory: the log, then, each after a call of the model that may  *)
(* fail, the facts and what recurs.  After the log the session's loader is *)
(* only reset, and goes with the session; what the extractor's loader has  *)
(* loaded is never asked for, since loadType skips nothing.                *)
PersistsLog(s) ==
  /\ Moves(s, "running", "extracting")
  /\ PersistsEpisodic(s, s, File(ByPath, 1, {}))
  /\ UNCHANGED <<day, asked, queries>>

Extracts(s) ==
  /\ Moves(s, "extracting", "consolidating")
  /\ \E facts \in SUBSET Facts : PersistsEpisodic("extractor", s, File(2, 1, facts))
  /\ UNCHANGED <<day, asked, queries>>

ExtractionFails(s) ==
  /\ Moves(s, "extracting", "consolidating")
  /\ UNCHANGED <<day, disk, units, loaded, asked, queries, noted>>

(* A file without facts says nothing, and one that is gone says nothing. *)
FactsIn(us, k) == IF us[k].content = Unreadable THEN {} ELSE us[k].content
Episodic(us) == {k \in DOMAIN us : k.folder \in {"recent", "archive"}}
Recurs(us, ks, f, n) == Cardinality({k \in ks : f \in FactsIn(us, k)}) >= n
RecurringIn(us, ks) == {f \in Facts : Recurs(us, ks, f, 3)}
Promotable(us, ks) == RecurringIn(us, ks)

Consolidates(s) ==
  /\ phase[s] = "consolidating"
  /\ LET us == units["extractor"] IN
     \E ks \in Selections(us, Episodic(us), AllOfType) :
       LET read == Hydrated(us, ks)
           recurring == IF Cardinality(ks) < 3 THEN {} ELSE Promotable(read, ks) IN
       /\ units' = [units EXCEPT !["extractor"] = read]
       /\ asked' = [asked EXCEPT ![s] = recurring]
       /\ phase' = [phase EXCEPT ![s] = IF recurring = {} THEN "resetting" ELSE "organizing"]
  /\ UNCHANGED <<day, disk, loaded, queries, noted>>

(* persistSemantic for each topic of the answer, or none if there is none. *)
Organizes(s) ==
  /\ Moves(s, "organizing", "resetting")
  /\ \E answered \in SUBSET asked[s] :
       LET new == [k \in {Key("semantic", 0, f) : f \in answered} |-> File(ByPath, 1, {k.who})] IN
       /\ disk' = Overlaid(new, disk)
       /\ units' = [units EXCEPT !["extractor"] =
              Overlaid([k \in DOMAIN new |-> [Unit(k, new[k]) EXCEPT !.content = new[k].facts]], @)]
  /\ UNCHANGED <<day, loaded, asked, queries, noted>>

(* Without an extractor, or without autoConsolidate, the steps in between  *)
(* are left out; a process that dies leaves the files as they are.         *)
Finishes(s) ==
  /\ phase[s] \in {"extracting", "consolidating", "resetting"}
  /\ phase' = [phase EXCEPT ![s] = "over"]
  /\ asked' = [asked EXCEPT ![s] = {}]
  /\ UNCHANGED <<day, disk, units, loaded, queries, noted>>

DayPasses ==
  /\ day < MaxDay /\ day' = day + 1
  /\ UNCHANGED <<disk, units, loaded, phase, asked, queries, noted>>

MemoryNext ==
  \/ \E s \in Agendas :
       \/ Begins(s) \/ Queries(s) \/ PersistsLog(s) \/ Extracts(s) \/ ExtractionFails(s)
       \/ Consolidates(s) \/ Organizes(s) \/ Finishes(s)
  \/ DayPasses

MemorySpec == MemoryInit /\ [][MemoryNext]_memoryVars

-----------------------------------------------------------------------------
(* Whatever loaders write and archive at once and whichever of their moves *)
(* fail, each entry that was written is in one place, with what was        *)
(* written there last, and in the archive only when it is old              *)
(* (harness/memory/types.ts:52); and only facts that three sessions noted  *)
(* are promoted (harness/memory/extractor.ts:86), whatever the extractor's *)
(* loader still has of files that others have moved.                       *)
MemoryIsKept ==
  /\ \A e \in DOMAIN noted :
       LET recent == Key("recent", e[2], e[1])
           there == {recent, Archived(recent)} \cap DOMAIN disk IN
       /\ \E k \in there : there = {k} /\ disk[k].facts = noted[e]
       /\ Archived(recent) \in there => e[2] <= day - RecentDays
  /\ \A k \in DOMAIN disk : k.folder = "semantic" =>
       Cardinality({e[1] : e \in {x \in DOMAIN noted : k.who \in noted[x]}}) >= 3

(* What a session gets into its prompt fits the budget of each tier, and   *)
(* all of it has been read: a file without its text would be left out of   *)
(* the prompt in silence (harness/memory/prompter.ts:22).                  *)
RecallFits ==
  \A s \in Agendas : phase[s] = "running" =>
    /\ \A t \in 0..2 : CostOf(units[s], {k \in loaded[s] : units[s][k].tier = t}) <= Budgets[t]
    /\ \A k \in loaded[s] : units[s][k].content # Unread

(* Both: what was written is kept, and what is recalled fits and is read.  *)
MemorySound == MemoryIsKept /\ RecallFits
=============================================================================
