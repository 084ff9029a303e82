--------------------------- MODULE KeyValueStores ---------------------------
(***************************************************************************)
(* The long-term store across threads: in memory with optional embeddings  *)
(* (src/src/store/index.ts), in Redis and in Postgres                      *)
(* (src/packages/stores/src).                                              *)
(*                                                                         *)
(* An item is the number of its put and whether it has a time to live; the *)
(* time after which it is expired passes at any moment.  Keys stand for    *)
(* pairs of a namespace and a key; what search() and listNamespaces() pick *)
(* among the items is left out.                                            *)
(***************************************************************************)
EXTENDS Integers, FiniteSets

CONSTANTS
  StoreKeys,
  StoreBackends,  \* "memory", "redis", "postgres"
  MaxItems,       \* InMemoryStore: maxItems
  Embeds,         \* InMemoryStore: embedFn is given, TRUE or FALSE or both
  Nothing,        \* no item
  MaxWrites       \* bound

ASSUME KeyValueAssumption ==
  /\ StoreBackends \subseteq {"memory", "redis", "postgres"}
  /\ MaxItems \in Nat \ {0} /\ Embeds \subseteq BOOLEAN /\ MaxWrites \in Nat

VARIABLES
  store, embeds,
  item,       \* the stored item of each key
  listed,     \* redis: the keys in the sorted set of the namespace
  vector,     \* memory: the item whose embedding is kept for each key
  putting,    \* memory: puts that await their embedding
  cleanups,   \* clean-ups begun by get() and list(), not awaited
  writes,     \* number of puts
  deletedAt,  \* ghost: the number of puts before the last delete() of each key
  told        \* ghost: the answer of each put

storeVars == <<store, embeds, item, listed, vector, putting, cleanups, writes, deletedAt, told>>

Item(n, ttl) == [no |-> n, ttl |-> ttl, expired |-> FALSE]

StoreInit ==
  /\ store \in StoreBackends
  /\ embeds \in IF store = "memory" THEN Embeds ELSE {FALSE}
  /\ item = [k \in StoreKeys |-> Nothing] /\ listed = {}
  /\ vector = [k \in StoreKeys |-> Nothing]
  /\ putting = {} /\ cleanups = {} /\ writes = 0
  /\ deletedAt = [k \in StoreKeys |-> 0]
  /\ told = [n \in 1..MaxWrites |-> "none"]

Has(k) == item[k] # Nothing
Live(k) == Has(k) /\ ~item[k].expired
ExpiredKeys == {k \in StoreKeys : Has(k) /\ item[k].expired}
Without(f, K) == [k \in StoreKeys |-> IF k \in K THEN Nothing ELSE f[k]]

-----------------------------------------------------------------------------
(* InMemoryStore.put: a new key needs room, for which the expired items    *)
(* are evicted.  With an embedFn the put goes on when the embedding is     *)
(* there, and takes its item back when embedding it failed; both only if   *)
(* the item is still the one it stored.                                    *)

IsFull(f) == Cardinality({k \in StoreKeys : f[k] # Nothing}) >= MaxItems

PutInMemory(k, ttl) ==
  /\ store = "memory" /\ writes < MaxWrites /\ writes' = writes + 1
  /\ LET evict == ~Has(k) /\ IsFull(item)
         room == IF evict THEN Without(item, ExpiredKeys) ELSE item
         new == Item(writes', ttl) IN
     /\ vector' = IF evict THEN Without(vector, ExpiredKeys) ELSE vector
     /\ IF ~Has(k) /\ IsFull(room)
        THEN /\ item' = room /\ told' = [told EXCEPT ![writes'] = "rejected"]
             /\ UNCHANGED putting
        ELSE /\ item' = [room EXCEPT ![k] = new]
             /\ putting' = IF embeds
                           THEN putting \cup {[key |-> k, item |-> new, existing |-> item[k]]}
                           ELSE putting
             /\ told' = [told EXCEPT ![writes'] = IF embeds THEN "none" ELSE "ok"]
  /\ UNCHANGED <<store, embeds, listed, cleanups, deletedAt>>

Always(p) == TRUE
(* this.data.get(k) === item: expiry does not make it another item. *)
StillOurs(p) == Has(p.key) /\ item[p.key].no = p.item.no

EmbeddingArrives(p) ==
  /\ vector' = IF StillOurs(p) THEN [vector EXCEPT ![p.key] = p.item] ELSE vector
  /\ putting' = putting \ {p}
  /\ told' = [told EXCEPT ![p.item.no] = "ok"]
  /\ UNCHANGED <<store, embeds, item, listed, cleanups, writes, deletedAt>>

EmbeddingFails(p) ==
  /\ item' = IF StillOurs(p) THEN [item EXCEPT ![p.key] = p.existing] ELSE item
  /\ putting' = putting \ {p}
  /\ told' = [told EXCEPT ![p.item.no] = "rejected"]
  /\ UNCHANGED <<store, embeds, listed, vector, cleanups, writes, deletedAt>>

-----------------------------------------------------------------------------
(* RedisStore.put is one script, PostgresStore.put one upsert. *)
PutRemote(k, ttl) ==
  /\ store # "memory" /\ writes < MaxWrites /\ writes' = writes + 1
  /\ item' = [item EXCEPT ![k] = Item(writes', ttl)]
  /\ listed' = IF store = "redis" THEN listed \cup {k} ELSE listed
  /\ told' = [told EXCEPT ![writes'] = "ok"]
  /\ UNCHANGED <<store, embeds, vector, putting, cleanups, deletedAt>>

(* delete() takes the item with its vector, or its entry of the set. *)
Delete(k) ==
  /\ writes > deletedAt[k]
  /\ item' = Without(item, {k}) /\ vector' = Without(vector, {k})
  /\ listed' = listed \ {k}
  /\ deletedAt' = [deletedAt EXCEPT ![k] = writes]
  /\ UNCHANGED <<store, embeds, putting, cleanups, writes, told>>

(* The time to live of an item passes; Redis drops it by itself later. *)
Expires(k) ==
  /\ Live(k) /\ item[k].ttl
  /\ item' = [item EXCEPT ![k].expired = TRUE]
  /\ putting' = {IF p.key = k /\ p.item.no = item[k].no THEN [p EXCEPT !.item.expired = TRUE] ELSE p : p \in putting}
  /\ UNCHANGED <<store, embeds, listed, vector, cleanups, writes, deletedAt, told>>

RedisDrops(k) ==
  /\ store = "redis" /\ k \in ExpiredKeys
  /\ item' = Without(item, {k})
  /\ UNCHANGED <<store, embeds, listed, vector, putting, cleanups, writes, deletedAt, told>>

-----------------------------------------------------------------------------
(* get() and list() do not return expired items.  In memory they remove    *)
(* them, get() without their vector.  Postgres deletes the row of the key, *)
(* Redis takes the key out of the sorted set when list() met it there with *)
(* no live item; neither waits, and neither looks again.                   *)

GetExpired(k) ==
  /\ k \in ExpiredKeys
  /\ item' = IF store = "memory" THEN Without(item, {k}) ELSE item
  /\ cleanups' = IF store = "postgres" THEN cleanups \cup {k} ELSE cleanups
  /\ UNCHANGED <<store, embeds, listed, vector, putting, writes, deletedAt, told>>

ListExpired ==
  /\ item' = IF store = "memory" THEN Without(item, ExpiredKeys) ELSE item
  /\ vector' = IF store = "memory" THEN Without(vector, ExpiredKeys) ELSE vector
  /\ cleanups' = cleanups \cup (CASE store = "postgres" -> ExpiredKeys
                                  [] store = "redis" -> {k \in listed : ~Live(k)}
                                  [] OTHER -> {})
  /\ UNCHANGED <<store, embeds, listed, putting, writes, deletedAt, told>>

CleansUp(k) ==
  /\ cleanups' = cleanups \ {k}
  /\ IF store = "postgres" THEN item' = Without(item, {k}) /\ UNCHANGED listed
                           ELSE listed' = listed \ {k} /\ UNCHANGED item
  /\ UNCHANGED <<store, embeds, vector, putting, writes, deletedAt, told>>

StoreNext ==
  \/ \E k \in StoreKeys, ttl \in BOOLEAN : PutInMemory(k, ttl) \/ PutRemote(k, ttl)
  \/ \E p \in putting : EmbeddingArrives(p) \/ EmbeddingFails(p)
  \/ \E k \in StoreKeys : Delete(k) \/ Expires(k) \/ RedisDrops(k) \/ GetExpired(k)
  \/ ListExpired
  \/ \E k \in cleanups : CleansUp(k)

StoreSpec == StoreInit /\ [][StoreNext]_storeVars

-----------------------------------------------------------------------------
(* A deleted item stays deleted: whatever puts, embeddings, roll-backs and *)
(* clean-ups were under way, what a key holds, and the vector it is ranked *)
(* by, was put after its last delete(); the store never holds more than    *)
(* maxItems (store/index.ts:123, 146).                                     *)
DeletedStaysDeleted ==
  /\ \A k \in StoreKeys : Has(k) => item[k].no > deletedAt[k]
  /\ \A k \in StoreKeys : vector[k] # Nothing => vector[k].no > deletedAt[k]
  /\ store = "memory" => Cardinality({k \in StoreKeys : Has(k)}) <= MaxItems
=============================================================================
