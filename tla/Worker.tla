------------------------------- MODULE Worker -------------------------------
(***************************************************************************)
(* The per-shard tiered store (src/src/shards/worker.rs): the index of     *)
(* every key, the byte-bounded LRU cache of hot values, the TTL heap, and  *)
(* the operations on them.  Each operation is one action: a shard runs on  *)
(* one task and no operation awaits, so nothing of the shard interleaves   *)
(* with it.  reply is what the operation answers (State::apply writes None *)
(* as "(nil)").                                                            *)
(***************************************************************************)
EXTENDS Disk

CONSTANTS
    VLen,        \* VLen[c] is the length of the bytes in cell c
    MaxVLen,     \* the longest value a frame can carry
    EntryBase,   \* key_len + ENTRY_OVERHEAD, the same for every key
    Budget,      \* cache byte cap of the shard, 0 = unbounded
    SweepBudget, \* heap entries one expire_due may pop
    MangledLocs  \* what a replay that is out of step may take for a location

Loc == [off: Nat, exp: Nat]

ASSUME WorkerAssumption ==
    /\ None \notin Loc
    /\ IsFiniteSet(Keys)
    /\ MaxVLen \in Nat
    /\ VLen \in [Cell -> 1..MaxVLen]
    /\ EntryBase \in Nat \ {0}
    /\ Budget \in Nat
    /\ SweepBudget \in Nat \ {0}
    /\ MangledLocs \subseteq Loc

VARIABLES
    index,      \* key -> where its value is on disk and when it expires
    cache,      \* the hot values, their recency order and their byte count
    expiries,   \* heap entries <<exp, key, pos>>
    now,        \* now_epoch_ms()
    reply       \* the operation of this step and its answer

ramVars == <<index, cache, expiries>>

\* older holds <<j, k>> when j was used less recently than k.
Cache == [val: [Keys -> Cell \cup {None}], older: SUBSET (Keys \X Keys), bytes: Nat]

EmptyCache == [val |-> [k \in Keys |-> None], older |-> {}, bytes |-> 0]

\* An operation and its answer.  set and setex always answer "OK": their res
\* is the value that answer acknowledges.
NoReply == [op |-> "none", key |-> None, res |-> None]

Answer(op, k, res) == reply' = [op |-> op, key |-> k, res |-> res]

WorkerTypeOK ==
    /\ DiskTypeOK
    /\ index \in [Keys -> Loc \cup {None}]
    /\ cache \in Cache
    /\ expiries \subseteq Nat \X Keys \X Nat
    /\ now \in Nat

Expired(e) == e # 0 /\ e <= now

-----------------------------------------------------------------------------
(***************************************************************************)
(* Cache bookkeeping.  The LruCache is the map val and the order older.    *)
(***************************************************************************)
SatSub(a, b) == IF a >= b THEN a - b ELSE 0

cache_size(v) == EntryBase + VLen[v]

Cached(c) == {k \in Keys : c.val[k] # None}

\* The bytes of the cached entries of S, counted one by one.
Footprint(c, S) ==
    {b \in (S \cap Cached(c)) \X (1..(EntryBase + MaxVLen)) : b[2] <= cache_size(c.val[b[1]])}

SizeOf(c, S) == Cardinality(Footprint(c, S))

Without(order, S) == {p \in order : p[1] \notin S /\ p[2] \notin S}

\* put and get move the entry to the most recently used end.
Promote(c, k) ==
    [c EXCEPT !.older = Without(@, {k}) \cup {<<j, k>> : j \in Cached(c) \ {k}}]

\* Mutant: the size of a replaced entry is not taken off.
cache_insert_leaks(c, k, v) ==
    [Promote(c, k) EXCEPT !.val[k] = v, !.bytes = @ + cache_size(v)]

cache_insert(c, k, v) ==
    [Promote(c, k) EXCEPT
        !.val[k] = v,
        !.bytes = (IF c.val[k] # None THEN SatSub(@, cache_size(c.val[k])) ELSE @)
                  + cache_size(v)]

cache_remove(c, k) ==
    IF c.val[k] = None THEN c
    ELSE [val |-> [c.val EXCEPT ![k] = None],
          older |-> Without(c.older, {k}),
          bytes |-> SatSub(c.bytes, cache_size(c.val[k]))]

High == (Budget \div 10) * 9
Low == (Budget \div 10) * 8

\* The entries the pop_lru loop drops: k goes when, with everything older
\* gone, the count is still above the low-water mark.
Evicted(c) ==
    {k \in Cached(c) : SatSub(c.bytes, SizeOf(c, {j \in Keys : <<j, k>> \in c.older})) > Low}

evict_to_budget(c) ==
    IF Budget = 0 \/ c.bytes < High THEN c
    ELSE [val |-> [k \in Keys |-> IF k \in Evicted(c) THEN None ELSE c.val[k]],
          older |-> Without(c.older, Evicted(c)),
          bytes |-> SatSub(c.bytes, SizeOf(c, Evicted(c)))]

-----------------------------------------------------------------------------
(***************************************************************************)
(* The operations.                                                         *)
(***************************************************************************)
write(op, k, v, e) ==
    /\ \/ /\ append_set(k, v, e)
          /\ index' = [index EXCEPT ![k] = [off |-> ValOff, exp |-> e]]
          /\ expiries' = IF e = 0 THEN expiries ELSE expiries \cup {<<e, k, Len(backup')>>}
          /\ cache' = evict_to_budget(cache_insert(cache, k, v))
       \/ append_set_fails(k, v, e) /\ UNCHANGED ramVars
    /\ Answer(op, k, v)

set(k, v) == write("set", k, v, 0)

set_ex(k, v, ttl) == write("setex", k, v, now + ttl)

\* Mutant: the cached copy of a deleted key stays.
delete_keeps_cache(k) ==
    /\ index' = [index EXCEPT ![k] = None]
    /\ IF index[k] # None THEN append_del(k) \/ append_del_fails(k)
                          ELSE UNCHANGED diskVars
    /\ UNCHANGED <<cache, expiries>>
    /\ Answer("del", k, IF index[k] # None THEN "1" ELSE "0")

\* Mutant: a DEL is not journaled.
delete_unlogged(k) ==
    /\ index' = [index EXCEPT ![k] = None]
    /\ cache' = cache_remove(cache, k)
    /\ UNCHANGED <<expiries, diskVars>>
    /\ Answer("del", k, IF index[k] # None THEN "1" ELSE "0")

delete(k) ==
    /\ index' = [index EXCEPT ![k] = None]
    /\ cache' = cache_remove(cache, k)
    /\ IF index[k] # None THEN append_del(k) \/ append_del_fails(k)
                          ELSE UNCHANGED diskVars
    /\ UNCHANGED expiries
    /\ Answer("del", k, IF index[k] # None THEN "1" ELSE "0")

get_miss(k) ==
    /\ index[k] = None
    /\ Answer("get", k, None)
    /\ UNCHANGED <<ramVars, diskVars>>

get_expired(k) ==
    /\ index[k] # None /\ Expired(index[k].exp)
    /\ index' = [index EXCEPT ![k] = None]
    /\ cache' = cache_remove(cache, k)
    /\ Answer("get", k, None)
    /\ UNCHANGED <<expiries, diskVars>>

\* Mutant: the cache is looked up before the expiry is checked.
get_hot_first(k) ==
    /\ cache.val[k] # None
    /\ cache' = Promote(cache, k)
    /\ Answer("get", k, cache.val[k])
    /\ UNCHANGED <<index, expiries, diskVars>>

get_hot(k) ==
    /\ index[k] # None /\ ~Expired(index[k].exp)
    /\ cache.val[k] # None
    /\ cache' = Promote(cache, k)
    /\ Answer("get", k, cache.val[k])
    /\ UNCHANGED <<index, expiries, diskVars>>

\* Mutant: a value read back from disk is cached without evicting others.
get_cold_no_evict(k) ==
    /\ index[k] # None /\ ~Expired(index[k].exp)
    /\ cache.val[k] = None
    /\ read_at(index[k].off) # None
    /\ flush_cool
    /\ cache' = cache_insert(cache, k, read_at(index[k].off))
    /\ Answer("get", k, read_at(index[k].off))
    /\ UNCHANGED <<index, expiries>>

get_cold(k) ==
    /\ index[k] # None /\ ~Expired(index[k].exp)
    /\ cache.val[k] = None
    /\ LET v == read_at(index[k].off)
       IN  \/ /\ v # None
              /\ flush_cool
              /\ cache' = evict_to_budget(cache_insert(cache, k, v))
              /\ Answer("get", k, v)
           \/ /\ v = None \/ "io" \in Faults
              /\ flush_cool \/ flush_cool_fails
              /\ Answer("get", k, None)
              /\ UNCHANGED cache
    /\ UNCHANGED <<index, expiries>>

get(k) == get_miss(k) \/ get_expired(k) \/ get_hot(k) \/ get_cold(k)

\* expire_due pops due heap entries in expiry order, at most SweepBudget of
\* them, and drops a key whose live expiry is the popped one.  The heap can
\* hold equal entries: pos, the place in the journal of the record that an
\* entry was pushed with, tells them apart and is not used otherwise.
Due == {h \in expiries : h[1] <= now}

expire_due ==
    \E popped \in SUBSET Due :
        /\ Cardinality(popped) = Min({SweepBudget, Cardinality(Due)})
        /\ \A h \in popped, left \in Due \ popped : h[1] <= left[1]
        /\ expiries' = expiries \ popped
        /\ LET gone == {k \in Keys : index[k] # None
                                 /\ \E h \in popped : h[1] = index[k].exp /\ h[2] = k}
           IN  /\ index' = [k \in Keys |-> IF k \in gone THEN None ELSE index[k]]
               /\ cache' = [val |-> [k \in Keys |-> IF k \in gone THEN None ELSE cache.val[k]],
                            older |-> Without(cache.older, gone),
                            bytes |-> SatSub(cache.bytes, SizeOf(cache, gone))]

-----------------------------------------------------------------------------
(***************************************************************************)
(* Worker::start: rebuild the index from the journal.  Records are applied *)
(* in order and a SET that has expired by now is skipped, so a key ends up *)
(* as its last applied record left it.                                     *)
(***************************************************************************)
Applied(R, k) ==
    {i \in R : backup[i].key = k /\ (backup[i].op = "set" => ~Expired(backup[i].exp))}

LocOf(r) == IF r.op = "set" THEN [off |-> r.off, exp |-> r.exp] ELSE None

Rebuilt(R) ==
    [k \in Keys |-> IF Applied(R, k) = {} THEN None ELSE LocOf(backup[Max(Applied(R, k))])]

\* The keys a replay that is out of step may find in records nobody wrote, put
\* together from pieces of others.
MangledKeys ==
    IF \E i \in 1..(Len(backup) - 1) : backup[i].op = "torn" THEN SUBSET Keys ELSE {{}}

\* The last such record of a key is a DEL, or a SET with any location in it.
MangledLast(M) == [M -> {None} \cup {loc \in MangledLocs : ~Expired(loc.exp)}]

\* Mutant: the heap is not rebuilt.
start_without_heap ==
    /\ open
    /\ \E R \in Readable : index' = Rebuilt(R)
    /\ expiries' = {} /\ cache' = EmptyCache

start ==
    /\ open
    /\ \E R \in Readable, M \in MangledKeys : \E last \in MangledLast(M) :
          /\ index' = [k \in Keys |-> IF k \in M THEN last[k] ELSE Rebuilt(R)[k]]
          /\ expiries' =
                {<<backup[i].exp, backup[i].key, i>> :
                   i \in {j \in R : backup[j].op = "set" /\ backup[j].exp # 0
                                                         /\ ~Expired(backup[j].exp)}}
                \cup {<<last[k].exp, k, 0>> :
                         k \in {x \in M : last[x] # None /\ last[x].exp # 0}}
    /\ cache' = EmptyCache
=============================================================================
