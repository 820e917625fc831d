---------------------------- MODULE ShardProofs ----------------------------
(***************************************************************************)
(* Proofs about a shard, for any keys, values, cache budget and number of  *)
(* writes, crashes and clock ticks.                                        *)
(***************************************************************************)
EXTENDS Shard, WorkerLemmas

LEMMA InitType == Init => TypeOK
BY DEF Init, DiskInit, TypeOK, WorkerTypeOK, DiskTypeOK, EmptyCache, Cache,
       NoReply, Labels, Loc

LEMMA WriteType ==
    ASSUME WorkerTypeOK, NEW op, NEW k \in Keys, NEW v \in Values, NEW e \in Nat,
           write(op, k, v, e), now' = now
    PROVE  WorkerTypeOK'
<1>1. DiskTypeOK /\ DiskTypeOK'
  BY AppendSetType DEF WorkerTypeOK, write
<1>2. CASE UNCHANGED ramVars
  BY <1>1, <1>2 DEF WorkerTypeOK, ramVars
<1>3. CASE ~UNCHANGED ramVars
  <2> DEFINE c == cache_insert(cache, k, v)
  <2>1. /\ index' = [index EXCEPT ![k] = [off |-> ValOff, exp |-> e]]
        /\ expiries' = IF e = 0 THEN expiries ELSE expiries \cup {<<e, k, Len(backup')>>}
        /\ cache' = evict_to_budget(c)
    BY <1>3 DEF write
  <2>2. v \in Cell /\ cache \in Cache
    BY DEF WorkerTypeOK, Cell
  <2>3. c \in Cache
    BY <2>2, CacheInsertType
  <2>4. cache' \in Cache
    BY <2>1, <2>3, EvictType
  <2>5. [off |-> ValOff, exp |-> e] \in Loc
    <3>1. ValOff \in Nat
      BY <1>1 DEF DiskTypeOK, ValOff
    <3> QED
      BY <3>1 DEF Loc
  <2>6. index' \in [Keys -> Loc \cup {None}]
    BY <2>1, <2>5 DEF WorkerTypeOK
  <2>7. Len(backup') \in Nat
    BY <1>1, LenProperties DEF DiskTypeOK
  <2>8. expiries' \subseteq Nat \X Keys \X Nat
    BY <2>1, <2>7 DEF WorkerTypeOK
  <2> QED
    BY <1>1, <2>4, <2>6, <2>8 DEF WorkerTypeOK
<1> QED
  BY <1>2, <1>3

LEMMA DeleteType ==
    ASSUME WorkerTypeOK, NEW k \in Keys, delete(k), now' = now
    PROVE  WorkerTypeOK'
<1>1. DiskTypeOK'
  <2>1. DiskTypeOK /\ (append_del(k) \/ append_del_fails(k) \/ UNCHANGED diskVars)
    BY DEF WorkerTypeOK, delete
  <2> QED
    BY <2>1, AppendDelType, FlushType
<1>2. cache' \in Cache
  BY CacheRemoveType DEF WorkerTypeOK, delete
<1> QED
  BY <1>1, <1>2 DEF WorkerTypeOK, delete

LEMMA GetType ==
    ASSUME WorkerTypeOK, NEW k \in Keys, get(k), now' = now
    PROVE  /\ WorkerTypeOK'
           /\ reply' \in [op: {"get"}, key: {k}, res: Cell \cup {None}]
<1>0. DiskTypeOK /\ cache \in Cache
  BY DEF WorkerTypeOK
<1>1. CASE get_miss(k)
  <2>1. DiskTypeOK'
    BY <1>0, <1>1, FlushType DEF get_miss
  <2> QED
    BY <1>1, <2>1 DEF get_miss, WorkerTypeOK, ramVars, Answer
<1>2. CASE get_expired(k)
  <2>1. DiskTypeOK' /\ cache' \in Cache
    BY <1>0, <1>2, FlushType, CacheRemoveType DEF get_expired
  <2> QED
    BY <1>2, <2>1 DEF get_expired, WorkerTypeOK, Answer
<1>3. CASE get_hot(k)
  <2>1. DiskTypeOK' /\ cache' \in Cache
    BY <1>0, <1>3, FlushType, PromoteType DEF get_hot
  <2>2. cache.val[k] \in Cell
    BY <1>0, <1>3 DEF get_hot, Cache
  <2> QED
    BY <1>3, <2>1, <2>2 DEF get_hot, WorkerTypeOK, Answer
<1>4. CASE get_cold(k)
  <2> DEFINE v == read_at(index[k].off)
  <2>1. v \in Cell \cup {None}
    BY <1>0, ReadAtType
  <2>2. DiskTypeOK'
    BY <1>0, <1>4, FlushType DEF get_cold
  <2>3. CASE v # None /\ cache' = evict_to_budget(cache_insert(cache, k, v)) /\ Answer("get", k, v)
    <3>1. cache_insert(cache, k, v) \in Cache
      BY <1>0, <2>1, <2>3, CacheInsertType
    <3>2. cache' \in Cache
      BY <2>3, <3>1, EvictType
    <3> HIDE DEF v
    <3> QED
      BY <1>4, <2>1, <2>2, <2>3, <3>2 DEF get_cold, WorkerTypeOK, Answer
  <2>4. CASE UNCHANGED cache /\ Answer("get", k, None)
    BY <1>0, <1>4, <2>2, <2>4 DEF get_cold, WorkerTypeOK, Answer
  <2> QED
    BY <1>4, <2>3, <2>4 DEF get_cold
<1> QED
  BY <1>1, <1>2, <1>3, <1>4 DEF get

LEMMA StoredType ==
    ASSUME WorkerTypeOK, NEW k \in Keys, index[k] # None
    PROVE  Stored(k) \in Entry
<1>1. index[k] \in Loc
  BY DEF WorkerTypeOK
<1>2. read_at(index[k].off) \in Cell \cup {None}
  BY ReadAtType DEF WorkerTypeOK
<1> QED
  BY <1>1, <1>2 DEF Stored, Entry, Loc

LEMMA NextType == TypeOK /\ [Next]_vars => TypeOK'
<1> SUFFICES ASSUME TypeOK, [Next]_vars PROVE TypeOK'
  OBVIOUS
<1>0. /\ WorkerTypeOK /\ DiskTypeOK /\ cache \in Cache /\ now \in Nat
      /\ crashes \in Nat /\ writes \in Nat
      /\ written \subseteq Keys \X Values \X Nat
      /\ synced \in [Keys -> Entry \cup {None, Unknown}]
  BY DEF TypeOK, WorkerTypeOK
<1>1. ASSUME NEW k \in Keys, NEW v \in Values, Set(k, v) PROVE TypeOK'
  <2>1. write("set", k, v, 0) /\ now' = now
    BY <1>1 DEF Set, set
  <2>2. WorkerTypeOK'
    BY <1>0, <2>1, WriteType
  <2>3. reply' = [op |-> "set", key |-> k, res |-> v] /\ v \in Cell
    BY <2>1 DEF write, Answer, Cell
  <2> QED
    BY <1>0, <1>1, <2>2, <2>3 DEF Set, InBatch, Bounded, Touched, TypeOK, Labels
<1>2. ASSUME NEW k \in Keys, NEW v \in Values, NEW ttl \in TTLs, SetEx(k, v, ttl) PROVE TypeOK'
  <2>1. write("setex", k, v, now + ttl) /\ now' = now /\ now + ttl \in Nat
    BY <1>0, <1>2, ShardAssumption DEF SetEx, set_ex
  <2>2. WorkerTypeOK'
    BY <1>0, <2>1, WriteType
  <2>3. reply' = [op |-> "setex", key |-> k, res |-> v] /\ v \in Cell
    BY <2>1 DEF write, Answer, Cell
  <2> QED
    BY <1>0, <1>2, <2>1, <2>2, <2>3 DEF SetEx, InBatch, Bounded, Touched, TypeOK, Labels
<1>3. ASSUME NEW k \in Keys, Del(k) PROVE TypeOK'
  <2>1. WorkerTypeOK'
    BY <1>0, <1>3, DeleteType DEF Del
  <2>2. reply' \in [op: {"del"}, key: {k}, res: {"1", "0"}]
    BY <1>3 DEF Del, delete, Answer
  <2> QED
    BY <1>0, <1>3, <2>1, <2>2 DEF Del, InBatch, Bounded, Touched, TypeOK, Labels
<1>4. ASSUME NEW k \in Keys, Get(k) PROVE TypeOK'
  <2>1. WorkerTypeOK' /\ reply' \in [op: {"get"}, key: {k}, res: Cell \cup {None}]
    BY <1>0, <1>4, GetType DEF Get
  <2> QED
    BY <1>0, <1>4, <2>1 DEF Get, InBatch, historyVars, TypeOK, Labels
<1>5. CASE FlushCool \/ TickCool
  <2>1. DiskTypeOK'
    BY <1>0, <1>5, FlushType DEF FlushCool, TickCool
  <2> QED
    BY <1>5, <2>1 DEF FlushCool, TickCool, Silent, NoReply, ramVars, historyVars,
         TypeOK, WorkerTypeOK, Labels
<1>6. CASE FlushBackup \/ FlushFails
  <2>1. DiskTypeOK' /\ cache' \in Cache
    BY <1>0, <1>6, FlushType, EvictType DEF FlushBackup, FlushFails
  <2> QED
    BY <1>6, <2>1 DEF FlushBackup, FlushFails, Silent, NoReply, historyVars,
         TypeOK, WorkerTypeOK, Labels
<1>7. CASE TickBackup \/ TickFails
  <2>1. DiskTypeOK'
    BY <1>0, <1>7, FlushType DEF TickBackup, TickFails
  <2>2. /\ index' \in [Keys -> Loc \cup {None}] /\ cache' \in Cache
        /\ expiries' \subseteq expiries
    BY <1>0, <1>7, ExpireDueKeeps DEF TickBackup, TickFails
  <2>3. WorkerTypeOK'
    BY <1>0, <1>7, <2>1, <2>2 DEF TickBackup, TickFails, WorkerTypeOK
  <2>4. \A k \in Keys : Stored(k) \in Entry \cup {None}
    BY <1>0, StoredType DEF Stored
  <2>5. synced' \in [Keys -> Entry \cup {None, Unknown}]
    BY <1>0, <1>7, <2>4 DEF TickBackup, TickFails, historyVars
  <2> QED
    BY <1>0, <1>7, <2>3, <2>5 DEF TickBackup, TickFails, Silent, NoReply, historyVars,
         TypeOK, Labels
<1>8. CASE Advance
  <2>1. DiskTypeOK'
    BY <1>0, <1>8, FlushType DEF Advance
  <2> QED
    BY <1>0, <1>8, <2>1 DEF Advance, Silent, NoReply, ramVars, historyVars, TypeOK, WorkerTypeOK
<1>9. ASSUME NEW kind, Crash(kind) PROVE TypeOK'
  <2>1. DiskTypeOK'
    BY <1>0, <1>9, CrashType DEF Crash
  <2>2. cache' \in Cache
    BY <1>9 DEF Crash, EmptyCache, Cache
  <2> QED
    BY <1>0, <1>9, <2>1, <2>2 DEF Crash, Silent, NoReply, historyVars, TypeOK, WorkerTypeOK, Labels
<1>10. CASE Start
  <2>1. DiskTypeOK'
    BY <1>0, <1>10, FlushType DEF Start, start
  <2>3. index' \in [Keys -> Loc \cup {None}] /\ expiries' \subseteq Nat \X Keys \X Nat
    BY <1>0, <1>10, StartTracks DEF Start
  <2>6. cache' \in Cache
    BY <1>10 DEF Start, start, EmptyCache, Cache
  <2> QED
    BY <1>0, <1>10, <2>1, <2>3, <2>6 DEF Start, Silent, NoReply, historyVars,
         TypeOK, WorkerTypeOK, Labels
<1>11. CASE UNCHANGED vars
  <2>1. DiskTypeOK'
    BY <1>0, <1>11, FlushType DEF vars
  <2> QED
    BY <1>11, <2>1 DEF vars, ramVars, TypeOK, WorkerTypeOK
<1> QED
  BY <1>1, <1>2, <1>3, <1>4, <1>5, <1>6, <1>7, <1>8, <1>9, <1>10, <1>11 DEF Next

\* Every variable keeps its type, under every fault: the count of cached bytes
\* never goes below zero and no file is ever synced past its end.
THEOREM TypeCorrect == Spec => []TypeOK
BY InitType, NextType, PTL DEF Spec

-----------------------------------------------------------------------------
(***************************************************************************)
(* The cache's bookkeeping: cache_bytes is the size of what is cached, and *)
(* the eviction loop brings it under its mark.  The count stays exact on   *)
(* its own; the mark needs the recency order to be total (see Ordered).    *)
(***************************************************************************)
CountInv == Counted(cache) /\ Ordered(cache) /\ WithinBudget(cache)

LEMMA NextCounted == TypeOK /\ CountInv /\ [Next]_vars => CountInv'
<1> SUFFICES ASSUME TypeOK, CountInv, [Next]_vars PROVE CountInv'
  OBVIOUS
<1>0. WorkerTypeOK /\ DiskTypeOK /\ cache \in Cache
  BY DEF TypeOK, WorkerTypeOK
<1> DEFINE Fine(c) == Counted(c) /\ Ordered(c) /\ WithinBudget(c)
<1>1. ASSUME NEW c, cache' = c, Fine(c) PROVE CountInv'
  BY <1>1 DEF CountInv, Counted, Ordered, WithinBudget, Cached, SizeOf, Footprint
<1>2. ASSUME NEW k \in Keys, NEW v \in Cell, v # None,
             cache' = evict_to_budget(cache_insert(cache, k, v))
      PROVE  CountInv'
  <2>1. /\ cache_insert(cache, k, v) \in Cache
        /\ Counted(cache_insert(cache, k, v)) /\ Ordered(cache_insert(cache, k, v))
    BY <1>0, <1>2, CacheInsertType, InsertCounted DEF CountInv
  <2> QED
    BY <1>1, <1>2, <2>1, EvictCounted
<1>3. ASSUME NEW k \in Keys, cache' = cache_remove(cache, k) PROVE CountInv'
  BY <1>0, <1>1, <1>3, RemoveCounted DEF CountInv
<1>4. CASE cache' = cache
  BY <1>1, <1>4 DEF CountInv
<1>5. ASSUME NEW op, NEW k \in Keys, NEW v \in Values, NEW e, write(op, k, v, e) PROVE CountInv'
  <2>1. v \in Cell /\ v # None
    BY DiskAssumption DEF Cell
  <2> QED
    BY <1>2, <1>4, <1>5, <2>1 DEF write, ramVars
<1>6. ASSUME NEW k \in Keys, get(k) PROVE CountInv'
  <2>1. CASE get_miss(k)
    BY <1>4, <2>1 DEF get_miss, ramVars
  <2>2. CASE get_expired(k)
    BY <1>3, <2>2 DEF get_expired
  <2>3. CASE get_hot(k)
    BY <1>0, <1>1, <2>3, PromoteCounted DEF get_hot, CountInv
  <2>4. CASE get_cold(k)
    <3>1. read_at(index[k].off) \in Cell \cup {None}
      BY <1>0, ReadAtType
    <3> QED
      BY <1>2, <1>4, <2>4, <3>1 DEF get_cold
  <2> QED
    BY <1>6, <2>1, <2>2, <2>3, <2>4 DEF get
<1>7. CASE cache' = evict_to_budget(cache)
  BY <1>0, <1>1, <1>7, EvictCounted DEF CountInv
<1>8. CASE expire_due
  <2>1. PICK gone \in SUBSET Keys :
           cache' = [val |-> [k \in Keys |-> IF k \in gone THEN None ELSE cache.val[k]],
                     older |-> Without(cache.older, gone),
                     bytes |-> SatSub(cache.bytes, SizeOf(cache, gone))]
    BY <1>8 DEF expire_due
  <2> DEFINE d == [val |-> [k \in Keys |-> IF k \in gone THEN None ELSE cache.val[k]],
                   older |-> Without(cache.older, gone),
                   bytes |-> SatSub(cache.bytes, SizeOf(cache, gone))]
  <2>2. d \in Cache
    BY <1>0, <1>8, <2>1, ExpireDueKeeps
  <2>3. /\ \A k \in Keys : d.val[k] = IF k \in gone THEN None ELSE cache.val[k]
        /\ d.older = Without(cache.older, gone)
        /\ d.bytes = SatSub(cache.bytes, SizeOf(cache, gone))
    OBVIOUS
  <2> HIDE DEF d
  <2>4. Counted(d) /\ Ordered(d) /\ d.bytes <= cache.bytes
    BY <1>0, <2>2, <2>3, DropCounted DEF CountInv
  <2>5. WithinBudget(d)
    BY <1>0, <2>2, <2>4, BudgetDown DEF CountInv
  <2> QED
    BY <1>1, <2>1, <2>4, <2>5 DEF d
<1>9. CASE cache' = EmptyCache
  BY <1>1, <1>9, EmptyCounted
<1> QED
  BY <1>3, <1>4, <1>5, <1>6, <1>7, <1>8, <1>9 DEF Next, Set, set, SetEx, set_ex, Del, delete, Get,
     FlushCool, FlushBackup, FlushFails, TickCool, TickBackup, TickFails, Advance, Crash,
     Start, start, vars, ramVars

LEMMA SpecCounted == Spec => []CountInv
<1>1. Init => CountInv
  BY EmptyCounted DEF Init, CountInv
<1> QED
  BY <1>1, NextCounted, TypeCorrect, PTL DEF Spec

\* The count of cached bytes is the size of what is cached, under every fault,
\* so no saturating_sub of worker.rs saturates.
THEOREM CountExact == Spec => []CacheBytesExact
<1>1. CountInv => CacheBytesExact
  BY DEF CountInv, Counted, CacheBytesExact
<1> QED
  BY <1>1, SpecCounted, PTL

\* After every operation, failed or not, the cache is below its high-water mark
\* or at its low-water mark: the eviction loop of worker.rs always gets there.
THEOREM CacheWithinBudget == Spec => []BudgetRespected
<1>1. CountInv => BudgetRespected
  BY DEF CountInv, WithinBudget, BudgetRespected
<1> QED
  BY <1>1, SpecCounted, PTL

-----------------------------------------------------------------------------
(***************************************************************************)
(* The safety invariants of a shard: the heap against the index, the cache *)
(* against cool.log, the journal against cool.log, and what GET answers.   *)
(***************************************************************************)

(***************************************************************************)
(* The heap.  ExpiryTracked is inductive once the types are known.         *)
(***************************************************************************)
LEMMA NextTracks == TypeOK /\ ExpiryTracked /\ [Next]_vars => ExpiryTracked'
<1> SUFFICES ASSUME TypeOK, ExpiryTracked, [Next]_vars PROVE ExpiryTracked'
  OBVIOUS
<1>0. WorkerTypeOK /\ DiskTypeOK /\ index \in [Keys -> Loc \cup {None}]
  BY DEF TypeOK, WorkerTypeOK
<1>1. ASSUME NEW op, NEW k \in Keys, NEW v, NEW e, write(op, k, v, e) PROVE ExpiryTracked'
  <2>1. CASE UNCHANGED ramVars
    BY <2>1 DEF ramVars, ExpiryTracked
  <2>2. CASE ~UNCHANGED ramVars
    <3>1. /\ index' = [index EXCEPT ![k] = [off |-> ValOff, exp |-> e]]
          /\ expiries' = IF e = 0 THEN expiries ELSE expiries \cup {<<e, k, Len(backup')>>}
      BY <1>1, <2>2 DEF write
    <3> SUFFICES ASSUME NEW j \in Keys, index'[j] # None, index'[j].exp # 0
                 PROVE  \E h \in expiries' : h[1] = index'[j].exp /\ h[2] = j
      BY DEF ExpiryTracked
    <3>2. CASE j = k
      <4>1. index'[j].exp = e
        BY <1>0, <3>1, <3>2
      <4>2. <<e, k, Len(backup')>> \in expiries'
        BY <3>1, <4>1
      <4> QED
        BY <3>2, <4>1, <4>2
    <3>3. CASE j # k
      <4>1. index'[j] = index[j] /\ expiries \subseteq expiries'
        BY <1>0, <3>1, <3>3
      <4> QED
        BY <4>1 DEF ExpiryTracked
    <3> QED
      BY <3>2, <3>3
  <2> QED
    BY <2>1, <2>2
<1>2. ASSUME NEW k \in Keys, delete(k) \/ get(k) PROVE ExpiryTracked'
  <2>1. expiries' = expiries /\ (index' = index \/ index' = [index EXCEPT ![k] = None])
    BY <1>2 DEF delete, get, get_miss, get_expired, get_hot, get_cold, ramVars
  <2> QED
    BY <1>0, <2>1 DEF ExpiryTracked
<1>3. CASE index' = index /\ expiries' = expiries
  BY <1>3 DEF ExpiryTracked
<1>4. CASE expire_due
  <2> SUFFICES ASSUME NEW k \in Keys, index'[k] # None, index'[k].exp # 0
               PROVE  \E h \in expiries' : h[1] = index'[k].exp /\ h[2] = k
    BY DEF ExpiryTracked
  <2>1. index'[k] = index[k] /\ \A h \in expiries \ expiries' : ~(h[1] = index[k].exp /\ h[2] = k)
    BY <1>0, <1>4, ExpireDueKeeps
  <2> QED
    BY <2>1 DEF ExpiryTracked
<1>5. ASSUME NEW kind, Crash(kind) PROVE ExpiryTracked'
  BY <1>5 DEF Crash, ExpiryTracked
<1>6. CASE Start
  BY <1>0, <1>6, StartTracks DEF Start, ExpiryTracked
<1> QED
  BY <1>1, <1>2, <1>3, <1>4, <1>5, <1>6 DEF Next, Set, set, SetEx, set_ex, Del, Get, FlushCool,
     FlushBackup, FlushFails, TickCool, TickBackup, TickFails, Advance, vars, ramVars

\* Under every fault, a key that will expire has its live entry in the heap:
\* the sweep of worker.rs, which pops stale entries too, misses no key.
THEOREM HeapTracksIndex == Spec => []ExpiryTracked
<1>1. Init => ExpiryTracked
  BY DEF Init, ExpiryTracked
<1> QED
  BY <1>1, NextTracks, TypeCorrect, PTL DEF Spec

\* The heap holds no entry for a key without an expiry, so the sweep drops only
\* keys that have expired.
HeapExpires == \A h \in expiries : h[1] # 0

LEMMA HeapAlwaysExpires == Spec => []HeapExpires
<1>1. Init => HeapExpires
  BY DEF Init, HeapExpires
<1>2. TypeOK /\ HeapExpires /\ [Next]_vars => HeapExpires'
  <2> SUFFICES ASSUME TypeOK, HeapExpires, [Next]_vars PROVE HeapExpires'
    OBVIOUS
  <2>1. ASSUME NEW op, NEW k, NEW v, NEW e, write(op, k, v, e) PROVE HeapExpires'
    <3>1. expiries' \in {expiries} \/ (e # 0 /\ expiries' = expiries \cup {<<e, k, Len(backup')>>})
      BY <2>1 DEF write, ramVars
    <3> QED
      BY <3>1 DEF HeapExpires
  <2>2. CASE expiries' \subseteq expiries
    BY <2>2 DEF HeapExpires
  <2>3. CASE expire_due
    BY <2>2, <2>3 DEF expire_due
  <2>4. CASE Start
    BY <2>4, StartTracks DEF Start, HeapExpires, TypeOK, WorkerTypeOK
  <2> QED
    BY <2>1, <2>2, <2>3, <2>4 DEF Next, Set, set, SetEx, set_ex, Del, delete, Get, get, get_miss,
       get_expired, get_hot, get_cold, FlushCool, FlushBackup, FlushFails, TickCool, TickBackup,
       TickFails, Advance, Crash, vars, ramVars
<1> QED
  BY <1>1, <1>2, TypeCorrect, PTL DEF Spec

LEMMA SweptExpired ==
    ASSUME WorkerTypeOK, HeapExpires, expire_due, NEW k \in Keys
    PROVE  \/ index'[k] = index[k]
           \/ index'[k] = None /\ index[k] # None /\ Expired(index[k].exp)
<1>1. PICK popped \in SUBSET Due :
         LET gone == {j \in Keys : index[j] # None
                                 /\ \E h \in popped : h[1] = index[j].exp /\ h[2] = j}
         IN  index' = [j \in Keys |-> IF j \in gone THEN None ELSE index[j]]
  BY DEF expire_due
<1>2. CASE \E h \in popped : h[1] = index[k].exp /\ index[k] # None
  <2>1. Expired(index[k].exp)
    BY <1>2 DEF Due, HeapExpires, Expired
  <2> QED
    BY <1>1, <1>2, <2>1
<1>3. CASE ~\E h \in popped : h[1] = index[k].exp /\ index[k] # None
  BY <1>1, <1>3
<1> QED
  BY <1>2, <1>3

-----------------------------------------------------------------------------
(***************************************************************************)
(* The cache.  What append_set returns is where the value lands only if    *)
(* cool_len is the length of cool.log.  An append that fails can leave     *)
(* bytes behind that cool_len does not count; nothing takes them off while *)
(* the process lives, so once the two are equal they have been all along.  *)
(***************************************************************************)
LengthBound == pc # "down" => cool_len <= Len(cool)

DownIsEmpty == pc = "down" => cache = EmptyCache

CacheInv == LengthBound /\ DownIsEmpty /\ CoherentWhileCounted

\* cool.log has only grown.
CoolGrows == Len(cool) <= Len(cool') /\ \A i \in 1..Len(cool) : cool'[i] = cool[i]

\* cool.log has grown at least as much as cool_len has.
DriftGrows == CoolGrows /\ Len(cool) - cool_len <= Len(cool') - cool_len'

\* A value that could be read still can be, and is the same.
LEMMA ReadStable ==
    ASSUME DiskTypeOK, DiskTypeOK', CoolGrows, NEW off, read_at(off) # None
    PROVE  read_at(off)' = read_at(off)
<1>1. Len(cool) \in Nat /\ Len(cool') \in Nat
  BY LenProperties DEF DiskTypeOK
<1>2. off \in 1..Len(cool) /\ off \in 1..Len(cool') /\ cool'[off] = cool[off]
      /\ (off = Len(cool) => cool[off] # Junk)
  BY <1>1 DEF read_at, CoolGrows
<1>3. off = Len(cool') => off = Len(cool)
  BY <1>1, <1>2 DEF CoolGrows
<1> QED
  BY <1>2, <1>3 DEF read_at

\* A key that stays cached keeps its value and its location, or gets both new.
LEMMA CoherentStep ==
    ASSUME TypeOK, CacheCoherent, DiskTypeOK', CoolGrows,
           \A k \in Keys :
              \/ cache'.val[k] = None
              \/ cache'.val[k] = cache.val[k] /\ index'[k] = index[k]
              \/ \E off : /\ index'[k] # None /\ index'[k].off = off
                          /\ cache'.val[k] = read_at(off)'
    PROVE  CacheCoherent'
<1> SUFFICES ASSUME NEW k \in Keys, cache'.val[k] # None
             PROVE  index'[k] # None /\ cache'.val[k] = read_at(index[k].off)'
  BY DEF CacheCoherent, Cached
<1>1. ASSUME NEW off, index'[k].off = off PROVE read_at(index[k].off)' = read_at(off)'
  BY <1>1 DEF read_at
<1>2. CASE cache'.val[k] = cache.val[k] /\ index'[k] = index[k]
  <2>1. index[k] # None /\ cache.val[k] = read_at(index[k].off)
    BY <1>2 DEF CacheCoherent, Cached
  <2>2. PICK off : off = index[k].off
    OBVIOUS
  <2>3. read_at(off) = cache.val[k]
    BY <2>1, <2>2
  <2>4. read_at(off)' = read_at(off)
    BY <1>2, <2>3, ReadStable DEF TypeOK, WorkerTypeOK
  <2> QED
    BY <1>1, <1>2, <2>1, <2>2, <2>3, <2>4
<1>3. ASSUME NEW off, index'[k] # None, index'[k].off = off, cache'.val[k] = read_at(off)'
      PROVE  index'[k] # None /\ cache'.val[k] = read_at(index[k].off)'
  BY <1>1, <1>3
<1> QED
  BY <1>2, <1>3

\* What append_set hands out can be read back, once cool_len is right.
LEMMA AppendSetReads ==
    ASSUME DiskTypeOK, NEW k \in Keys, NEW v \in Values, NEW e \in Nat, append_set(k, v, e),
           cool_len = Len(cool)
    PROVE  /\ CoolGrows /\ cool_len' = Len(cool') /\ Len(cool') = Len(cool) + 2
           /\ \E off : /\ off = ValOff /\ off \in 1..Len(cool')
                       /\ cool'[off] = v /\ read_at(off)' = v
<1> DEFINE c2 == cool \o <<Junk, v>>
<1>1. cool \in Seq(Cell) /\ Junk \in Cell /\ v \in Cell
  BY DEF DiskTypeOK, Cell
<1>2. /\ Len(cool) \in Nat /\ Len(c2) = Len(cool) + 2
      /\ \A i \in 1..Len(cool) : c2[i] = cool[i]
      /\ c2[Len(cool) + 2] = v
  BY <1>1, AppendTwo
<1>3. cool' = c2 /\ cool_len' = cool_len + 2
  BY DEF append_set
<1> HIDE DEF c2
<1>4. CoolGrows /\ cool_len' = Len(cool') /\ Len(cool') = Len(cool) + 2
  BY <1>2, <1>3 DEF CoolGrows
<1>5. PICK off : off = ValOff /\ off = Len(cool) + 2
  BY DEF ValOff
<1>6. off \in 1..Len(cool') /\ cool'[off] = v
  BY <1>2, <1>3, <1>5
<1>7. read_at(off)' = v
  BY <1>6, DiskAssumption DEF read_at
<1> QED
  BY <1>4, <1>5, <1>6, <1>7

LEMMA AppendDelGrows ==
    ASSUME DiskTypeOK, NEW k \in Keys, append_del(k)
    PROVE  CoolGrows /\ Len(cool') = Len(cool) + 1
                     /\ (cool_len = Len(cool) => cool_len' = Len(cool'))
BY AppendSeq DEF DiskTypeOK, append_del, CoolGrows, Cell

\* An append, whether it works or fails, never makes cool_len catch up.
LEMMA PieceDrifts ==
    ASSUME DiskTypeOK, \/ cool' = Append(cool, Junk) /\ cool_len' \in {cool_len, cool_len + 1}
                       \/ cool' = cool /\ cool_len' = cool_len
    PROVE  DriftGrows
<1>1. cool \in Seq(Cell) /\ Junk \in Cell /\ cool_len \in Nat /\ Len(cool) \in Nat
  BY LenProperties DEF DiskTypeOK, Cell
<1>2. CASE cool' = Append(cool, Junk)
  <2>1. Len(cool') = Len(cool) + 1 /\ \A i \in 1..Len(cool) : cool'[i] = cool[i]
    BY <1>1, <1>2, AppendSeq
  <2> QED
    BY <1>1, <2>1 DEF DriftGrows, CoolGrows
<1>3. CASE cool' = cool /\ cool_len' = cool_len
  BY <1>1, <1>3 DEF DriftGrows, CoolGrows
<1> QED
  BY <1>2, <1>3

LEMMA SetDrifts ==
    ASSUME DiskTypeOK, NEW k \in Keys, NEW v \in Values, NEW e \in Nat,
           append_set(k, v, e) \/ append_set_fails(k, v, e)
    PROVE  DriftGrows
<1>1. cool \in Seq(Cell) /\ Junk \in Cell /\ v \in Cell /\ cool_len \in Nat /\ Len(cool) \in Nat
  BY LenProperties DEF DiskTypeOK, Cell
<1>2. CASE cool' = cool \o <<Junk, v>> /\ cool_len' = cool_len + 2
  <2>1. Len(cool') = Len(cool) + 2 /\ \A i \in 1..Len(cool) : cool'[i] = cool[i]
    BY <1>1, <1>2, AppendTwo
  <2> QED
    BY <1>1, <1>2, <2>1 DEF DriftGrows, CoolGrows
<1>3. CASE cool' \in {cool, Append(cool, Junk)} /\ cool_len' = cool_len
  BY <1>3, PieceDrifts
<1> QED
  BY <1>2, <1>3 DEF append_set, append_set_fails, append_fails

LEMMA DelDrifts ==
    ASSUME DiskTypeOK, NEW k \in Keys,
           append_del(k) \/ append_del_fails(k) \/ UNCHANGED diskVars
    PROVE  DriftGrows
<1>1. cool \in Seq(Cell) /\ Junk \in Cell
  BY DEF DiskTypeOK, Cell
<1>2. cool \o <<Junk>> = Append(cool, Junk)
  BY <1>1
<1>3. CASE append_del_fails(k)
  <2>1. \/ cool' \in {cool, Append(cool, Junk)} /\ cool_len' = cool_len
        \/ cool' = cool \o <<Junk>> /\ cool_len' = cool_len + 1
    BY <1>3 DEF append_del_fails, append_fails
  <2> QED
    BY <1>2, <2>1, PieceDrifts
<1> QED
  BY <1>3, PieceDrifts DEF append_del, diskVars

\* What CacheInv needs of a step of a process that lives.
LEMMA CacheInvStep ==
    ASSUME DiskTypeOK, DiskTypeOK', LengthBound, pc # "down", pc' # "down", DriftGrows,
           cool_len = Len(cool) => CacheCoherent'
    PROVE  CacheInv'
<1>1. Len(cool) \in Nat /\ Len(cool') \in Nat /\ cool_len \in Nat /\ cool_len' \in Nat
  BY LenProperties DEF DiskTypeOK
<1>2. cool_len <= Len(cool) /\ Len(cool) - cool_len <= Len(cool') - cool_len'
  BY DEF LengthBound, DriftGrows
<1>3. cool_len' <= Len(cool') /\ (cool_len' = Len(cool') => cool_len = Len(cool))
  BY <1>1, <1>2
<1> QED
  BY <1>3 DEF CacheInv, LengthBound, DownIsEmpty, CoherentWhileCounted

LEMMA NextCoherent == TypeOK /\ CacheInv /\ [Next]_vars => CacheInv'
<1> SUFFICES ASSUME TypeOK, CacheInv, [Next]_vars PROVE CacheInv'
  OBVIOUS
<1>0. /\ WorkerTypeOK /\ DiskTypeOK /\ cache \in Cache /\ Len(cool) \in Nat /\ cool_len \in Nat
      /\ index \in [Keys -> Loc \cup {None}] /\ now \in Nat
      /\ LengthBound /\ DownIsEmpty /\ CoherentWhileCounted
  BY LenProperties DEF TypeOK, WorkerTypeOK, DiskTypeOK, CacheInv
<1>T. TypeOK' /\ DiskTypeOK'
  BY NextType DEF TypeOK, WorkerTypeOK
<1>1. ASSUME NEW op, NEW k \in Keys, NEW v \in Values, NEW e \in Nat,
             write(op, k, v, e), InBatch
      PROVE  CacheInv'
  <2> DEFINE c == cache_insert(cache, k, v)
  <2>0. pc # "down" /\ pc' # "down"
    BY <1>1 DEF InBatch
  <2>1. DriftGrows
    BY <1>0, <1>1, SetDrifts DEF write
  <2> SUFFICES ASSUME cool_len = Len(cool) PROVE CacheCoherent'
    BY <1>0, <1>T, <2>0, <2>1, CacheInvStep
  <2>2. CoolGrows /\ CacheCoherent
    BY <1>0, <2>1 DEF DriftGrows, CoherentWhileCounted
  <2>3. CASE append_set_fails(k, v, e) /\ UNCHANGED ramVars
    <3>1. \A j \in Keys : cache'.val[j] = cache.val[j] /\ index'[j] = index[j]
      BY <2>3 DEF ramVars
    <3> QED
      BY <1>T, <2>2, <3>1, CoherentStep
  <2>4. CASE /\ append_set(k, v, e)
             /\ index' = [index EXCEPT ![k] = [off |-> ValOff, exp |-> e]]
             /\ cache' = evict_to_budget(c)
    <3>1. PICK off : off = ValOff /\ read_at(off)' = v
      BY <1>0, <2>4, AppendSetReads
    <3>2. c \in Cache /\ c.val = [cache.val EXCEPT ![k] = v]
      BY <1>0, CacheInsertType DEF Cell
    <3> HIDE DEF c
    <3>3. \A j \in Keys : cache'.val[j] \in {c.val[j], None}
      BY <2>4, <3>2, EvictType
    <3>4. \A j \in Keys : j # k => c.val[j] = cache.val[j] /\ index'[j] = index[j]
      BY <1>0, <2>4, <3>2 DEF Cache
    <3>5. c.val[k] = v /\ index'[k] # None /\ index'[k].off = off
      <4>1. c.val[k] = v /\ index'[k] = [off |-> off, exp |-> e]
        BY <1>0, <2>4, <3>1, <3>2 DEF Cache
      <4>2. ValOff \in Nat
        BY <1>0 DEF DiskTypeOK, ValOff
      <4>3. [off |-> off, exp |-> e] \in Loc
        BY <3>1, <4>2 DEF Loc
      <4> QED
        BY <4>1, <4>3, WorkerAssumption
    <3> QED
      BY <1>T, <2>2, <3>1, <3>3, <3>4, <3>5, CoherentStep
  <2> QED
    BY <1>1, <2>3, <2>4 DEF write
<1>2. ASSUME NEW k \in Keys, Del(k) PROVE CacheInv'
  <2>0. pc # "down" /\ pc' # "down"
    BY <1>2 DEF Del, InBatch
  <2>1. /\ append_del(k) \/ append_del_fails(k) \/ UNCHANGED diskVars
        /\ index' = [index EXCEPT ![k] = None] /\ cache' = cache_remove(cache, k)
    BY <1>2 DEF Del, delete
  <2>2. DriftGrows
    BY <1>0, <2>1, DelDrifts
  <2> SUFFICES ASSUME cool_len = Len(cool) PROVE CacheCoherent'
    BY <1>0, <1>T, <2>0, <2>2, CacheInvStep
  <2>3. cache'.val = [cache.val EXCEPT ![k] = None]
    BY <1>0, <2>1, CacheRemoveType
  <2>4. \A j \in Keys : \/ cache'.val[j] = None
                        \/ cache'.val[j] = cache.val[j] /\ index'[j] = index[j]
    BY <1>0, <2>1, <2>3 DEF Cache
  <2> QED
    BY <1>0, <1>T, <2>2, <2>4, CoherentStep DEF DriftGrows, CoherentWhileCounted
<1>3. ASSUME cool' = cool, cool_len' = cool_len, pc # "down", pc' # "down",
             \/ UNCHANGED <<index, cache>>
             \/ index' = index /\ cache' = evict_to_budget(cache)
             \/ expire_due
             \/ \E k \in Keys : get(k)
      PROVE  CacheInv'
  <2>0. CoolGrows /\ DriftGrows
    BY <1>0, <1>3 DEF DriftGrows, CoolGrows
  <2>1. SUFFICES ASSUME cool_len = Len(cool) PROVE CacheCoherent'
    BY <1>0, <1>T, <1>3, <2>0, CacheInvStep
  <2>C. CacheCoherent
    BY <1>0, <2>1 DEF CoherentWhileCounted
  <2>2. ASSUME \A k \in Keys : \/ cache'.val[k] = None
                               \/ cache'.val[k] = cache.val[k] /\ index'[k] = index[k]
        PROVE  CacheCoherent'
    BY <1>T, <2>0, <2>C, <2>2, CoherentStep
  <2>3. CASE UNCHANGED <<index, cache>>
    BY <2>2, <2>3
  <2>4. CASE index' = index /\ cache' = evict_to_budget(cache)
    BY <1>0, <2>2, <2>4, EvictType
  <2>5. CASE expire_due
    BY <1>0, <2>2, <2>5, ExpireDueKeeps
  <2>6. ASSUME NEW k \in Keys, get_expired(k) PROVE CacheCoherent'
    <3>1. cache'.val = [cache.val EXCEPT ![k] = None] /\ index' = [index EXCEPT ![k] = None]
      BY <1>0, <2>6, CacheRemoveType DEF get_expired
    <3> QED
      BY <1>0, <2>2, <3>1 DEF Cache
  <2>7. ASSUME NEW k \in Keys, get_hot(k) PROVE CacheCoherent'
    <3>1. cache'.val = cache.val /\ index' = index
      BY <1>0, <2>7, PromoteType DEF get_hot
    <3> QED
      BY <2>2, <3>1
  <2>8. ASSUME NEW k \in Keys, get_cold(k), ~UNCHANGED cache PROVE CacheCoherent'
    <3>1. PICK off : off = index[k].off
      OBVIOUS
    <3>2. PICK v : v = read_at(off)
      OBVIOUS
    <3>3. /\ v # None /\ index[k] # None /\ index' = index
          /\ cache' = evict_to_budget(cache_insert(cache, k, v))
      BY <2>8, <3>1, <3>2 DEF get_cold
    <3>4. v \in Cell
      BY <1>0, <3>2, <3>3, ReadAtType
    <3> DEFINE c == cache_insert(cache, k, v)
    <3>5. c \in Cache /\ c.val = [cache.val EXCEPT ![k] = v]
      BY <1>0, <3>4, CacheInsertType
    <3> HIDE DEF c
    <3>6. \A j \in Keys : cache'.val[j] \in {c.val[j], None}
      BY <3>3, <3>5, EvictType DEF c
    <3>7. c.val[k] = v /\ \A j \in Keys : j # k => c.val[j] = cache.val[j]
      BY <1>0, <3>5 DEF Cache
    <3>8. read_at(off)' = v
      BY <1>3, <3>2 DEF read_at
    <3> QED
      BY <1>T, <2>0, <2>C, <3>1, <3>3, <3>6, <3>7, <3>8, CoherentStep
  <2>9. ASSUME NEW k \in Keys, get_miss(k) \/ (get_cold(k) /\ UNCHANGED cache)
        PROVE  CacheCoherent'
    BY <2>3, <2>9 DEF get_miss, get_cold, ramVars
  <2> QED
    BY <1>3, <2>3, <2>4, <2>5, <2>6, <2>7, <2>8, <2>9 DEF get
<1>4. ASSUME NEW kind, Crash(kind) PROVE CacheInv'
  BY <1>4 DEF Crash, CacheInv, LengthBound, DownIsEmpty, CoherentWhileCounted, CacheCoherent,
       Cached, EmptyCache
<1>5. CASE Start
  <2>1. cool' = cool /\ cool_len' = Len(cool) /\ cache' = EmptyCache /\ pc' = "idle"
    BY <1>5 DEF Start, start, open
  <2> QED
    BY <1>0, <2>1 DEF CacheInv, LengthBound, DownIsEmpty, CoherentWhileCounted, CacheCoherent,
         Cached, EmptyCache
<1>6. ASSUME NEW k \in Keys, NEW v \in Values, Set(k, v) PROVE CacheInv'
  BY <1>1, <1>6 DEF Set, set
<1>7. ASSUME NEW k \in Keys, NEW v \in Values, NEW ttl \in TTLs, SetEx(k, v, ttl) PROVE CacheInv'
  <2>1. now + ttl \in Nat
    BY <1>0, ShardAssumption
  <2> QED
    BY <1>1, <1>7, <2>1 DEF SetEx, set_ex
<1>8. ASSUME NEW k \in Keys, Get(k) PROVE CacheInv'
  <2>1. cool' = cool /\ cool_len' = cool_len /\ pc # "down" /\ pc' # "down"
    BY <1>8 DEF Get, InBatch, get, get_miss, get_expired, get_hot, get_cold, diskVars,
         flush_cool, flush_cool_fails
  <2> QED
    BY <1>3, <1>8, <2>1 DEF Get
<1>9. CASE FlushCool \/ TickCool
  <2>1. /\ cool' = cool /\ cool_len' = cool_len /\ pc # "down" /\ pc' # "down"
        /\ UNCHANGED <<index, cache>>
    BY <1>9 DEF FlushCool, TickCool, ramVars, flush_cool, sync_cool
  <2> QED
    BY <1>3, <2>1
<1>10. CASE Advance \/ UNCHANGED vars
  <2>1. UNCHANGED <<cool, cool_len, index, cache, pc>>
    BY <1>10 DEF Advance, vars, ramVars, diskVars
  <2> QED
    BY <1>0, <2>1 DEF CacheInv, LengthBound, DownIsEmpty, CoherentWhileCounted, CacheCoherent,
         Cached, read_at
<1>11. CASE FlushBackup \/ FlushFails
  <2>1. /\ cool' = cool /\ cool_len' = cool_len /\ pc # "down" /\ pc' # "down"
        /\ index' = index /\ cache' = evict_to_budget(cache)
    BY <1>11 DEF FlushBackup, FlushFails, flush_backup, flush_backup_fails, flush_cool_fails
  <2> QED
    BY <1>3, <2>1
<1>12. CASE TickBackup \/ TickFails
  <2>1. cool' = cool /\ cool_len' = cool_len /\ pc # "down" /\ pc' # "down" /\ expire_due
    BY <1>12 DEF TickBackup, TickFails, sync_backup, flush_backup_fails, flush_cool_fails
  <2> QED
    BY <1>3, <2>1
<1> QED
  BY <1>2, <1>4, <1>5, <1>6, <1>7, <1>8, <1>9, <1>10, <1>11, <1>12 DEF Next

\* Whatever fails, is spilled, evicted, lost in a crash or replayed, a cached
\* value is the one the index would read from cool.log as long as cool_len is
\* right: eviction is lossless (worker.rs, evict_to_budget; disk.rs, append_set).
THEOREM CacheAgreesWithLog == Spec => []CoherentWhileCounted
<1>1. Init => CacheInv
  BY DEF Init, CacheInv, LengthBound, DownIsEmpty, CoherentWhileCounted, CacheCoherent, Cached,
       EmptyCache
<1>2. CacheInv => CoherentWhileCounted
  BY DEF CacheInv
<1> QED
  BY <1>1, <1>2, NextCoherent, TypeCorrect, PTL DEF Spec

\* Appends that work keep cool_len right.
LengthKnown == pc # "down" => cool_len = Len(cool)

LEMMA NextLength ==
    ASSUME "io" \notin Faults
    PROVE  TypeOK /\ LengthKnown /\ [Next]_vars => LengthKnown'
<1> SUFFICES ASSUME TypeOK, LengthKnown, [Next]_vars PROVE LengthKnown'
  OBVIOUS
<1>0. DiskTypeOK /\ Len(cool) \in Nat /\ now \in Nat
  BY LenProperties DEF TypeOK, WorkerTypeOK, DiskTypeOK
<1>1. ASSUME NEW op, NEW k \in Keys, NEW v \in Values, NEW e \in Nat, write(op, k, v, e), InBatch
      PROVE  LengthKnown'
  <2>1. append_set(k, v, e) /\ pc # "down"
    BY <1>1 DEF write, append_set_fails, append_fails, InBatch
  <2> QED
    BY <1>0, <2>1, AppendSetReads DEF LengthKnown
<1>2. ASSUME NEW k \in Keys, Del(k) PROVE LengthKnown'
  <2>1. (append_del(k) \/ UNCHANGED diskVars) /\ pc # "down"
    BY <1>2 DEF Del, delete, append_del_fails, append_fails, InBatch
  <2> QED
    BY <1>0, <2>1, AppendDelGrows DEF LengthKnown, diskVars
<1>3. ASSUME NEW k \in Keys, NEW v \in Values, Set(k, v) PROVE LengthKnown'
  BY <1>1, <1>3 DEF Set, set
<1>4. ASSUME NEW k \in Keys, NEW v \in Values, NEW ttl \in TTLs, SetEx(k, v, ttl) PROVE LengthKnown'
  <2>1. now + ttl \in Nat
    BY <1>0, ShardAssumption
  <2> QED
    BY <1>1, <1>4, <2>1 DEF SetEx, set_ex
<1>5. ASSUME NEW kind, Crash(kind) PROVE LengthKnown'
  BY <1>5 DEF Crash, LengthKnown
<1>6. CASE Start
  BY <1>6 DEF Start, start, open, LengthKnown
<1>7. ASSUME NEW k \in Keys, Get(k) PROVE LengthKnown'
  BY <1>7 DEF Get, InBatch, get, get_miss, get_expired, get_hot, get_cold, diskVars, flush_cool,
       flush_cool_fails, LengthKnown
<1>8. CASE FlushCool \/ TickCool \/ Advance \/ UNCHANGED vars
  BY <1>8 DEF FlushCool, TickCool, Advance, vars, diskVars, flush_cool, sync_cool, LengthKnown
<1>9. CASE FlushBackup \/ FlushFails \/ TickBackup \/ TickFails
  BY <1>9 DEF FlushBackup, FlushFails, TickBackup, TickFails, flush_backup, sync_backup,
       flush_backup_fails, flush_cool_fails, LengthKnown
<1> QED
  BY <1>2, <1>3, <1>4, <1>5, <1>6, <1>7, <1>8, <1>9 DEF Next

LEMMA CoherentIfKnown ==
    ASSUME CacheInv, LengthKnown
    PROVE  CacheCoherent
BY DEF CacheInv, LengthKnown, DownIsEmpty, CoherentWhileCounted, CacheCoherent, Cached, EmptyCache

-----------------------------------------------------------------------------
(***************************************************************************)
(* The journal of a shard that is only ever killed has no torn record, and *)
(* nothing of it is buffered while the process is down.                    *)
(***************************************************************************)
LEMMA DiskBounds ==
    ASSUME DiskTypeOK
    PROVE  /\ Len(cool) \in Nat /\ coolFile \in 0..Len(cool) /\ coolSync \in 0..coolFile
           /\ Len(backup) \in Nat /\ backupFile \in 0..Len(backup) /\ backupSync \in 0..backupFile
           /\ coolSync \in 0..Len(cool) /\ backupSync \in 0..Len(backup)
           /\ \A i \in 1..Len(backup) : backup[i] \in Record
<1>1. /\ Len(cool) \in Nat /\ coolFile \in 0..Len(cool) /\ coolSync \in 0..coolFile
      /\ Len(backup) \in Nat /\ backupFile \in 0..Len(backup) /\ backupSync \in 0..backupFile
      /\ \A i \in 1..Len(backup) : backup[i] \in Record
  BY LenProperties, ElementOfSeq DEF DiskTypeOK
<1> QED
  BY <1>1

FileInv ==
    /\ \A i \in 1..Len(backup) : backup[i].op # "torn"
    /\ pc = "down" => backupFile = Len(backup)

LEMMA FilesWhole ==
    ASSUME Faults = {}
    PROVE  Spec => []FileInv
<1>1. Init => FileInv
  BY DEF Init, DiskInit, FileInv
<1>2. TypeOK /\ FileInv /\ [Next]_vars => FileInv'
  <2> SUFFICES ASSUME TypeOK, FileInv, [Next]_vars PROVE FileInv'
    OBVIOUS
  <2>0. Len(backup) \in Nat /\ backup \in Seq(Record) /\ backupFile \in 0..Len(backup)
        /\ backupSync \in 0..backupFile /\ now \in Nat /\ cool_len \in Nat
    BY DiskBounds DEF TypeOK, WorkerTypeOK, DiskTypeOK
  <2>1. ASSUME NEW r \in Record, r.op # "torn", backup' = Append(backup, r), pc' # "down"
        PROVE  FileInv'
    <3>1. Len(backup') = Len(backup) + 1 /\ backup'[Len(backup) + 1] = r
          /\ \A i \in 1..Len(backup) : backup'[i] = backup[i]
      BY <2>0, <2>1, AppendSeq
    <3>2. \A i \in 1..Len(backup') : i \in 1..Len(backup) \/ backup'[i] = r
      BY <2>0, <3>1
    <3> QED
      BY <2>1, <3>1, <3>2 DEF FileInv
  <2>2. CASE backup' = backup /\ (pc' = "down" => pc = "down" /\ backupFile' = backupFile)
    BY <2>2 DEF FileInv
  <2>3. ASSUME NEW op, NEW k \in Keys, NEW v, NEW e \in Nat, write(op, k, v, e), InBatch
        PROVE  FileInv'
    <3>1. backup' = Append(backup, SetRecord(k, ValOff, e)) /\ pc' # "down"
      BY <2>3 DEF write, append_set, append_set_fails, append_fails, InBatch
    <3>2. ValOff \in Nat
      BY <2>0 DEF ValOff
    <3>3. SetRecord(k, ValOff, e) \in Record /\ SetRecord(k, ValOff, e).op # "torn"
      BY <3>2 DEF SetRecord, Record
    <3> QED
      BY <2>1, <3>1, <3>3
  <2>4. ASSUME NEW k \in Keys, Del(k) PROVE FileInv'
    <3>1. pc' # "down" /\ backup' \in {backup, Append(backup, DelRecord(k))}
      BY <2>4 DEF Del, InBatch, delete, append_del, append_del_fails, append_fails, diskVars
    <3>2. DelRecord(k) \in Record /\ DelRecord(k).op # "torn"
      BY DEF DelRecord, Record
    <3> QED
      BY <2>1, <2>2, <3>1, <3>2
  <2>5. ASSUME NEW k \in Keys, NEW v \in Values, Set(k, v) PROVE FileInv'
    BY <2>3, <2>5 DEF Set, set
  <2>6. ASSUME NEW k \in Keys, NEW v \in Values, NEW ttl \in TTLs, SetEx(k, v, ttl) PROVE FileInv'
    <3>1. now + ttl \in Nat
      BY <2>0, ShardAssumption
    <3> QED
      BY <2>3, <2>6, <3>1 DEF SetEx, set_ex
  <2>7. ASSUME NEW kind \in CrashKinds, Crash(kind) PROVE FileInv'
    <3>1. backup' = SubSeq(backup, 1, backupFile) /\ backupFile' = Len(backup')
      BY <2>0, <2>7 DEF Crash, CrashKinds, lose_unwritten, Survivors, CanTear
    <3>2. Len(backup') = backupFile /\ \A i \in 1..backupFile : backup'[i] = backup[i]
      BY <2>0, <3>1, Prefix
    <3> QED
      BY <2>0, <3>1, <3>2 DEF FileInv
  <2>8. CASE FlushCool \/ FlushBackup \/ FlushFails \/ TickCool \/ TickBackup \/ TickFails
    BY <2>2, <2>8 DEF FlushCool, FlushBackup, FlushFails, TickCool, TickBackup, TickFails,
       flush_cool, flush_backup, flush_cool_fails, flush_backup_fails, sync_cool, sync_backup
  <2>9. CASE Advance \/ Start \/ UNCHANGED vars
    BY <2>2, <2>9 DEF Advance, Start, start, open, vars, diskVars
  <2>10. ASSUME NEW k \in Keys, Get(k) PROVE FileInv'
    BY <2>2, <2>10 DEF Get, InBatch, get, get_miss, get_expired, get_hot, get_cold, diskVars,
       flush_cool, flush_cool_fails
  <2> QED
    BY <2>4, <2>5, <2>6, <2>7, <2>8, <2>9, <2>10 DEF Next
<1> QED
  BY <1>1, <1>2, TypeCorrect, PTL DEF Spec

-----------------------------------------------------------------------------
(***************************************************************************)
(* The journal, for a shard that is only ever killed.  Every location in   *)
(* the journal and in the index holds what was written there, the journal  *)
(* in the file points into the part of cool.log in the file, and between   *)
(* the two halves of a flush or an fsync all of cool.log is in the file.   *)
(***************************************************************************)
\* The cell at off holds what some client wrote for k with expiry e.
Backed(k, off, e) == off \in 1..Len(cool) /\ <<k, cool[off], e>> \in written

JournalBacked ==
    \A i \in 1..Len(backup) :
        backup[i].op = "set" => Backed(backup[i].key, backup[i].off, backup[i].exp)

IndexBacked == \A k \in Keys : index[k] # None => Backed(k, index[k].off, index[k].exp)

CoolFlushed == pc \in {"flush", "fsync"} => coolFile = Len(cool)

KillInv ==
    /\ JournalBacked /\ IndexBacked /\ JournalBehindCool /\ CoolFlushed /\ ServedIsLive

\* A backed location can be read.
LEMMA BackedReads ==
    ASSUME TypeOK, NEW k, NEW off, NEW e, Backed(k, off, e)
    PROVE  read_at(off) = cool[off] /\ <<k, read_at(off), e>> \in written
<1>1. cool[off] \in Values
  BY DEF TypeOK, Backed
<1> QED
  BY <1>1, DiskAssumption DEF Backed, read_at

LEMMA BackedStable ==
    ASSUME DiskTypeOK, DiskTypeOK', CoolGrows, written \subseteq written',
           NEW k, NEW off, NEW e, Backed(k, off, e)
    PROVE  Backed(k, off, e)'
<1>1. Len(cool) \in Nat /\ Len(cool') \in Nat
  BY LenProperties DEF DiskTypeOK
<1> QED
  BY <1>1 DEF Backed, CoolGrows

\* A location of the index is one of before, or newly backed.
LEMMA IndexBackedStep ==
    ASSUME TypeOK, IndexBacked, DiskTypeOK', CoolGrows, written \subseteq written',
           \A k \in Keys :
              \/ index'[k] \in {None, index[k]}
              \/ \E off, e : index'[k] = [off |-> off, exp |-> e] /\ Backed(k, off, e)'
    PROVE  IndexBacked'
<1> SUFFICES ASSUME NEW k \in Keys, index'[k] # None
             PROVE  Backed(k, index[k].off, index[k].exp)'
  BY DEF IndexBacked
<1>1. ASSUME NEW off, NEW e, index'[k].off = off, index'[k].exp = e, Backed(k, off, e)'
      PROVE  Backed(k, index[k].off, index[k].exp)'
  BY <1>1 DEF Backed
<1>2. CASE index'[k] = index[k]
  <2>1. PICK off, e : off = index[k].off /\ e = index[k].exp
    OBVIOUS
  <2>2. Backed(k, off, e)
    BY <1>2, <2>1 DEF IndexBacked
  <2>3. Backed(k, off, e)'
    BY <2>2, BackedStable DEF TypeOK, WorkerTypeOK
  <2> QED
    BY <1>1, <1>2, <2>1, <2>3
<1>3. ASSUME NEW off, NEW e, index'[k] = [off |-> off, exp |-> e], Backed(k, off, e)'
      PROVE  Backed(k, index[k].off, index[k].exp)'
  <2>1. index'[k].off = off /\ index'[k].exp = e
    BY <1>3
  <2> QED
    BY <1>1, <1>3, <2>1
<1> QED
  BY <1>2, <1>3

\* The journal grows by one record, or not at all.
LEMMA JournalBackedStep ==
    ASSUME DiskTypeOK, JournalBacked, DiskTypeOK', CoolGrows, written \subseteq written',
           NEW r, backup' \in {backup, Append(backup, r)}, r \in Record,
           r.op = "set" => \E k, off, e : /\ r.key = k /\ r.off = off /\ r.exp = e
                                          /\ Backed(k, off, e)'
    PROVE  /\ JournalBacked'
           /\ Len(backup) <= Len(backup') /\ \A i \in 1..Len(backup) : backup'[i] = backup[i]
<1>1. /\ Len(backup) \in Nat /\ Len(backup') \in Nat
      /\ Len(backup') = Len(backup) \/ (Len(backup') = Len(backup) + 1 /\ backup'[Len(backup')] = r)
      /\ \A i \in 1..Len(backup) : backup'[i] = backup[i]
  <2>1. Len(backup) \in Nat /\ Len(backup') \in Nat /\ backup \in Seq(Record)
    BY LenProperties DEF DiskTypeOK
  <2>2. CASE backup' = backup
    BY <2>1, <2>2
  <2>3. CASE backup' = Append(backup, r)
    BY <2>1, <2>3, AppendSeq
  <2> QED
    BY <2>2, <2>3
<1>2. ASSUME NEW i \in 1..Len(backup'), backup'[i].op = "set"
      PROVE  Backed(backup[i].key, backup[i].off, backup[i].exp)'
  <2>1. PICK x : x = backup'[i]
    OBVIOUS
  <2>2. PICK k, off, e : k = x.key /\ off = x.off /\ e = x.exp
    OBVIOUS
  <2>3. CASE i \in 1..Len(backup)
    <3>1. Backed(k, off, e)
      BY <1>1, <1>2, <2>1, <2>2, <2>3 DEF JournalBacked
    <3>2. Backed(k, off, e)'
      BY <3>1, BackedStable
    <3> QED
      BY <2>1, <2>2, <3>2 DEF Backed
  <2>4. CASE i \notin 1..Len(backup)
    <3>1. x = r
      BY <1>1, <2>1, <2>4
    <3>2. Backed(k, off, e)'
      BY <1>2, <2>1, <2>2, <3>1
    <3> QED
      BY <2>1, <2>2, <3>2 DEF Backed
  <2> QED
    BY <2>3, <2>4
<1> QED
  BY <1>1, <1>2 DEF JournalBacked

\* Records that are already in the file stay behind a cool.log that only grows.
LEMMA BehindStable ==
    ASSUME DiskTypeOK, JournalBehindCool, DiskTypeOK', backupFile' = backupFile,
           coolFile <= coolFile', \A i \in 1..Len(backup) : backup'[i] = backup[i]
    PROVE  JournalBehindCool'
<1> SUFFICES ASSUME NEW i \in 1..backupFile, backup'[i].op = "set" PROVE backup'[i].off <= coolFile'
  BY DEF JournalBehindCool
<1>1. /\ Len(backup) \in Nat /\ Len(cool) \in Nat /\ Len(cool') \in Nat
      /\ backupFile \in 0..Len(backup) /\ coolFile \in 0..Len(cool) /\ coolFile' \in 0..Len(cool')
  BY LenProperties DEF DiskTypeOK
<1>2. i \in 1..Len(backup) /\ backup'[i] = backup[i]
  BY <1>1
<1>3. backup[i] \in Record
  BY <1>2, ElementOfSeq DEF DiskTypeOK
<1>4. backup[i].off \in Nat /\ backup[i].off <= coolFile
  BY <1>2, <1>3 DEF JournalBehindCool, Record
<1> QED
  BY <1>1, <1>2, <1>4

\* GET answers from the cache or from the log, and both are backed.
LEMMA GetServesLive ==
    ASSUME TypeOK, CacheCoherent, IndexBacked, NEW k \in Keys, Get(k)
    PROVE  ServedIsLive'
<1> SUFFICES ASSUME reply'.res # None
             PROVE  \E w \in written' : /\ w[1] = reply'.key /\ w[2] = reply'.res
                                        /\ ~(w[3] # 0 /\ w[3] <= now')
  BY DEF ServedIsLive, Expired
<1>1. written' = written /\ now' = now
  BY DEF Get, historyVars
<1>2. CASE get_miss(k) \/ get_expired(k)
  BY <1>2 DEF get_miss, get_expired, Answer
<1>3. CASE get_hot(k) \/ get_cold(k)
  <2>1. PICK off, e : off = index[k].off /\ e = index[k].exp
    OBVIOUS
  <2>2. index[k] # None /\ ~Expired(e)
    BY <1>3, <2>1 DEF get_hot, get_cold
  <2>3. <<k, read_at(off), e>> \in written
    BY <2>1, <2>2, BackedReads DEF IndexBacked
  <2>4. reply'.key = k /\ reply'.res = read_at(off)
    BY <1>3, <2>1 DEF get_hot, get_cold, Answer, CacheCoherent, Cached
  <2> QED
    BY <1>1, <2>2, <2>3, <2>4 DEF Expired
<1> QED
  BY <1>2, <1>3 DEF Get, get

LEMMA NextKill ==
    ASSUME Faults = {}
    PROVE  TypeOK /\ CacheInv /\ LengthKnown /\ FileInv /\ KillInv /\ [Next]_vars => KillInv'
<1> SUFFICES ASSUME TypeOK, CacheInv, LengthKnown, FileInv, KillInv, [Next]_vars PROVE KillInv'
  OBVIOUS
<1>0. /\ WorkerTypeOK /\ DiskTypeOK /\ now \in Nat
      /\ index \in [Keys -> Loc \cup {None}]
      /\ LengthKnown /\ CacheCoherent
      /\ JournalBacked /\ IndexBacked /\ JournalBehindCool /\ CoolFlushed /\ ServedIsLive
  BY CoherentIfKnown DEF TypeOK, WorkerTypeOK, KillInv
<1>L. /\ Len(cool) \in Nat /\ coolFile \in 0..Len(cool)
      /\ Len(backup) \in Nat /\ backupFile \in 0..Len(backup)
      /\ cool \in Seq(Cell) /\ backup \in Seq(Record)
  BY <1>0, LenProperties DEF DiskTypeOK
<1>T. TypeOK' /\ DiskTypeOK'
  BY NextType DEF TypeOK, WorkerTypeOK
<1>F. ~flush_cool_fails /\ ~flush_backup_fails
  BY DEF flush_cool_fails, flush_backup_fails
<1>1. ASSUME NEW op \in {"set", "setex"}, NEW k \in Keys, NEW v \in Values, NEW e \in Nat,
             write(op, k, v, e), InBatch, written' = written \cup {<<k, v, e>>}
      PROVE  KillInv'
  <2>1. /\ append_set(k, v, e) /\ pc # "down"
        /\ index' = [index EXCEPT ![k] = [off |-> ValOff, exp |-> e]]
    BY <1>1 DEF write, append_set_fails, append_fails, InBatch
  <2>2. cool_len = Len(cool)
    BY <1>0, <2>1 DEF LengthKnown
  <2>3. PICK off : off = ValOff /\ off \in 1..Len(cool') /\ cool'[off] = v
    BY <1>0, <2>1, <2>2, AppendSetReads
  <2>4. CoolGrows /\ written \subseteq written'
    BY <1>0, <1>1, <2>1, <2>2, AppendSetReads
  <2>5. Backed(k, off, e)'
    BY <1>1, <2>3 DEF Backed
  <2>6. PICK r : r = SetRecord(k, off, e)
    OBVIOUS
  <2>7. /\ r \in Record /\ r.key = k /\ r.off = off /\ r.exp = e
        /\ backup' = Append(backup, r)
    <3>1. off \in Nat
      BY <1>L, <2>2, <2>3 DEF ValOff
    <3> QED
      BY <2>1, <2>3, <2>6, <3>1 DEF SetRecord, Record, append_set
  <2>8. JournalBacked' /\ \A i \in 1..Len(backup) : backup'[i] = backup[i]
    BY <1>0, <1>T, <2>4, <2>5, <2>7, JournalBackedStep
  <2>9. coolFile' = coolFile /\ backupFile' = backupFile
    BY <2>1 DEF append_set, SpillBoth, Spill
  <2>10. JournalBehindCool'
    BY <1>0, <1>L, <1>T, <2>8, <2>9, BehindStable
  <2>11. IndexBacked'
    <3>1. \A j \in Keys : \/ index'[j] \in {None, index[j]}
                          \/ index'[j] = [off |-> off, exp |-> e] /\ Backed(j, off, e)'
      BY <1>0, <2>1, <2>3, <2>5
    <3> QED
      BY <1>0, <1>T, <2>4, <3>1, IndexBackedStep
  <2>12. CoolFlushed' /\ ServedIsLive'
    BY <1>1 DEF CoolFlushed, ServedIsLive, InBatch, write, Answer
  <2> QED
    BY <2>8, <2>10, <2>11, <2>12 DEF KillInv
<1>2. ASSUME NEW k \in Keys, Del(k) PROVE KillInv'
  <2>1. /\ append_del(k) \/ UNCHANGED diskVars
        /\ index' = [index EXCEPT ![k] = None] /\ written' = written
    BY <1>2 DEF Del, delete, append_del_fails, append_fails
  <2>2. PICK r : r = DelRecord(k)
    OBVIOUS
  <2>3. r \in Record /\ r.op # "set" /\ backup' \in {backup, Append(backup, r)}
    BY <2>1, <2>2 DEF DelRecord, Record, append_del, diskVars
  <2>4. CoolGrows
    <3>1. CASE append_del(k)
      BY <1>0, <3>1, AppendDelGrows
    <3>2. CASE UNCHANGED diskVars
      BY <1>L, <3>2 DEF CoolGrows, diskVars
    <3> QED
      BY <2>1, <3>1, <3>2
  <2>5. JournalBacked' /\ \A i \in 1..Len(backup) : backup'[i] = backup[i]
    BY <1>0, <1>T, <2>1, <2>3, <2>4, JournalBackedStep
  <2>6. coolFile' = coolFile /\ backupFile' = backupFile
    BY <2>1 DEF append_del, SpillBoth, Spill, diskVars
  <2>7. JournalBehindCool'
    BY <1>0, <1>L, <1>T, <2>5, <2>6, BehindStable
  <2>8. IndexBacked'
    BY <1>0, <1>T, <2>1, <2>4, IndexBackedStep
  <2>9. CoolFlushed' /\ ServedIsLive'
    BY <1>2 DEF CoolFlushed, ServedIsLive, Del, InBatch, delete, Answer
  <2> QED
    BY <2>5, <2>7, <2>8, <2>9 DEF KillInv
<1>3. ASSUME cool' = cool, backup' = backup, written' = written,
             \A k \in Keys : index'[k] \in {None, index[k]}
      PROVE  JournalBacked' /\ IndexBacked'
  <2>1. CoolGrows
    BY <1>3, <1>L DEF CoolGrows
  <2> QED
    BY <1>0, <1>T, <1>3, <2>1, IndexBackedStep DEF JournalBacked, Backed
<1>4. ASSUME NEW k \in Keys, Get(k) PROVE KillInv'
  <2>1. /\ cool' = cool /\ backup' = backup /\ backupFile' = backupFile
        /\ coolFile' \in {coolFile, Len(cool)} /\ written' = written /\ pc' = "batch"
        /\ index' = index \/ index' = [index EXCEPT ![k] = None]
    BY <1>F, <1>4 DEF Get, InBatch, get, get_miss, get_expired, get_hot, get_cold, diskVars,
         ramVars, historyVars, flush_cool
  <2>2. JournalBacked' /\ IndexBacked'
    BY <1>0, <1>3, <2>1
  <2>3. JournalBehindCool'
    BY <1>0, <1>L, <1>T, <2>1, BehindStable
  <2>4. ServedIsLive'
    BY <1>0, <1>4, GetServesLive
  <2> QED
    BY <2>1, <2>2, <2>3, <2>4 DEF KillInv, CoolFlushed
<1>5. CASE FlushCool \/ TickCool
  <2>1. /\ cool' = cool /\ backup' = backup /\ backupFile' = backupFile
        /\ coolFile' = Len(cool) /\ written' = written /\ index' = index /\ reply' = NoReply
    BY <1>5 DEF FlushCool, TickCool, flush_cool, sync_cool, ramVars, historyVars, Silent
  <2>2. JournalBacked' /\ IndexBacked'
    BY <1>3, <2>1
  <2>3. JournalBehindCool'
    BY <1>0, <1>L, <1>T, <2>1, BehindStable
  <2> QED
    BY <2>1, <2>2, <2>3 DEF KillInv, CoolFlushed, ServedIsLive, NoReply
<1>6. CASE FlushBackup \/ TickBackup
  <2>1. /\ cool' = cool /\ backup' = backup /\ backupFile' = Len(backup)
        /\ coolFile' = coolFile /\ coolFile = Len(cool)
        /\ written' = written /\ pc' = "idle" /\ reply' = NoReply
    BY <1>0, <1>F, <1>6 DEF FlushBackup, TickBackup, flush_backup, sync_backup, historyVars,
         Silent, CoolFlushed
  <2>2. \A k \in Keys : index'[k] \in {None, index[k]}
    BY <1>0, <1>6, ExpireDueKeeps DEF FlushBackup, TickBackup
  <2>3. JournalBacked' /\ IndexBacked'
    BY <1>3, <2>1, <2>2
  <2>4. JournalBehindCool'
    <3> SUFFICES ASSUME NEW i \in 1..Len(backup), backup[i].op = "set"
                 PROVE  backup[i].off <= Len(cool)
      BY <2>1 DEF JournalBehindCool
    <3>1. PICK off : off = backup[i].off
      OBVIOUS
    <3>2. off \in 1..Len(cool)
      BY <1>0, <3>1 DEF JournalBacked, Backed
    <3> QED
      BY <1>L, <3>1, <3>2
  <2> QED
    BY <2>1, <2>3, <2>4 DEF KillInv, CoolFlushed, ServedIsLive, NoReply
<1>7. CASE Advance
  <2>1. UNCHANGED <<cool, backup, backupFile, coolFile, written, index, pc>> /\ reply' = NoReply
    BY <1>7 DEF Advance, diskVars, ramVars, historyVars, Silent
  <2>2. JournalBacked' /\ IndexBacked'
    BY <1>3, <2>1
  <2> QED
    BY <1>0, <2>1, <2>2 DEF KillInv, CoolFlushed, JournalBehindCool, ServedIsLive, NoReply
<1>8. ASSUME NEW kind \in CrashKinds, Crash(kind) PROVE KillInv'
  <2>1. /\ cool' = SubSeq(cool, 1, coolFile) /\ coolFile' = Len(cool')
        /\ backup' = SubSeq(backup, 1, backupFile) /\ backupFile' = Len(backup')
    BY <1>L, <1>8 DEF Crash, CrashKinds, lose_unwritten, Survivors, CanTear
  <2>2. /\ Len(cool') = coolFile /\ \A i \in 1..coolFile : cool'[i] = cool[i]
        /\ Len(backup') = backupFile /\ \A i \in 1..backupFile : backup'[i] = backup[i]
    BY <1>L, <2>1, Prefix
  <2>3. written' = written /\ pc' = "down" /\ reply' = NoReply /\ \A k \in Keys : index'[k] = None
    BY <1>8 DEF Crash, historyVars, Silent
  <2>4. ASSUME NEW i \in 1..backupFile, backup[i].op = "set"
        PROVE  /\ backup[i].off \in 1..coolFile
               /\ <<backup[i].key, cool[backup[i].off], backup[i].exp>> \in written
    <3>1. i \in 1..Len(backup)
      BY <1>L
    <3> QED
      BY <1>0, <1>L, <2>4, <3>1 DEF JournalBacked, Backed, JournalBehindCool
  <2>5. JournalBacked' /\ JournalBehindCool'
    <3> SUFFICES ASSUME NEW i \in 1..backupFile, backup[i].op = "set"
                 PROVE  /\ Backed(backup[i].key, backup[i].off, backup[i].exp)'
                        /\ backup'[i].off <= coolFile
      BY <2>1, <2>2 DEF JournalBacked, JournalBehindCool
    <3>1. PICK r : r = backup[i] /\ r = backup'[i]
      BY <2>2
    <3>2. r.off \in 1..coolFile /\ <<r.key, cool[r.off], r.exp>> \in written
      BY <2>4, <3>1
    <3>3. r.off \in 1..Len(cool') /\ <<r.key, cool'[r.off], r.exp>> \in written'
      BY <2>2, <2>3, <3>2
    <3> QED
      BY <1>L, <3>1, <3>2, <3>3 DEF Backed
  <2> QED
    BY <2>3, <2>5 DEF KillInv, IndexBacked, CoolFlushed, ServedIsLive, NoReply
<1>9. CASE Start
  <2>1. UNCHANGED <<cool, backup, backupFile, coolFile, written>> /\ pc' = "idle" /\ reply' = NoReply
    BY <1>9 DEF Start, start, open, historyVars, Silent
  <2>2. JournalBacked' /\ JournalBehindCool'
    BY <1>0, <2>1 DEF JournalBacked, Backed, JournalBehindCool
  <2>3. PICK Q \in Readable : index' = Rebuilt(Q)
    BY <1>0, <1>9, StartWhole DEF Start, FileInv
  <2>4. ASSUME NEW k \in Keys, index'[k] # None
        PROVE  \E off, e : index'[k] = [off |-> off, exp |-> e] /\ Backed(k, off, e)'
    <3>1. PICK i \in 1..Len(backup) :
             /\ backup[i].op = "set" /\ backup[i].key = k
             /\ index'[k] = [off |-> backup[i].off, exp |-> backup[i].exp]
      BY <1>0, <2>3, <2>4, RebuiltFrom
    <3>2. PICK off, e : off = backup[i].off /\ e = backup[i].exp
      OBVIOUS
    <3>3. Backed(k, off, e)'
      BY <1>0, <2>1, <3>1, <3>2 DEF JournalBacked, Backed
    <3> QED
      BY <3>1, <3>2, <3>3
  <2>5. CoolGrows
    BY <1>L, <2>1 DEF CoolGrows
  <2>6. IndexBacked'
    BY <1>0, <1>T, <2>1, <2>4, <2>5, IndexBackedStep
  <2> QED
    BY <2>1, <2>2, <2>6 DEF KillInv, CoolFlushed, ServedIsLive, NoReply
<1>10. CASE UNCHANGED vars
  BY <1>0, <1>10 DEF vars, diskVars, ramVars, KillInv, JournalBacked, IndexBacked, Backed,
       JournalBehindCool, CoolFlushed, ServedIsLive, Expired
<1>11. ASSUME NEW k \in Keys, NEW v \in Values, Set(k, v) PROVE KillInv'
  BY <1>1, <1>11 DEF Set, set
<1>12. ASSUME NEW k \in Keys, NEW v \in Values, NEW ttl \in TTLs, SetEx(k, v, ttl) PROVE KillInv'
  <2>1. now + ttl \in Nat
    BY <1>0, ShardAssumption
  <2> QED
    BY <1>1, <1>12, <2>1 DEF SetEx, set_ex
<1>13. ~FlushFails /\ ~TickFails
  BY <1>F DEF FlushFails, TickFails
<1> QED
  BY <1>2, <1>4, <1>5, <1>6, <1>7, <1>8, <1>9, <1>10, <1>11, <1>12, <1>13 DEF Next

\* The inductive invariant of a shard that is only ever killed.
LEMMA KillInvariant ==
    ASSUME Faults = {}
    PROVE  Spec => [](TypeOK /\ LengthKnown /\ CacheCoherent /\ KillInv)
<1>1. Init => CacheInv /\ LengthKnown /\ KillInv
  BY DEF Init, DiskInit, CacheInv, LengthBound, DownIsEmpty, CoherentWhileCounted, LengthKnown,
       CacheCoherent, Cached, EmptyCache, KillInv,
       JournalBacked, IndexBacked, JournalBehindCool, CoolFlushed, ServedIsLive, NoReply
<1>2. "io" \notin Faults
  OBVIOUS
<1>3. TypeOK /\ LengthKnown /\ [Next]_vars => LengthKnown'
  BY <1>2, NextLength
<1>4. TypeOK /\ CacheInv /\ LengthKnown /\ FileInv /\ KillInv /\ [Next]_vars => KillInv'
  BY NextKill
<1>5. CacheInv /\ LengthKnown => CacheCoherent
  BY CoherentIfKnown
<1> QED
  BY <1>1, <1>3, <1>4, <1>5, FilesWhole, NextCoherent, TypeCorrect, PTL DEF Spec

\* Killed between any two operations or between the two files of a flush, a
\* shard whose batches fit its buffers leaves no journal record whose value is
\* not in cool.log (disk.rs, flush).
THEOREM NoDanglingOffset ==
    ASSUME Faults = {}
    PROVE  Spec => []JournalBehindCool
<1>1. KillInv => JournalBehindCool
  BY DEF KillInv
<1> QED
  BY <1>1, KillInvariant, PTL

\* What the index says a key holds, in use or rebuilt after any number of kills,
\* was written for that key with that expiry (worker.rs, start).
THEOREM IndexHoldsWritten ==
    ASSUME Faults = {}
    PROVE  Spec => []NeverInvents
<1>1. TypeOK /\ KillInv => NeverInvents
  <2> SUFFICES ASSUME TypeOK, KillInv, NEW k \in Keys, index[k] # None
               PROVE  <<k, read_at(index[k].off), index[k].exp>> \in written
    BY DEF NeverInvents
  <2>1. Backed(k, index[k].off, index[k].exp)
    BY DEF KillInv, IndexBacked
  <2> QED
    BY <2>1, BackedReads
<1> QED
  BY <1>1, KillInvariant, PTL

\* GET answers only values written for its key that have not expired, from the
\* cache or from disk, before and after any number of kills (worker.rs, get).
THEOREM GetAnswersLive ==
    ASSUME Faults = {}
    PROVE  Spec => []ServedIsLive
<1>1. KillInv => ServedIsLive
  BY DEF KillInv
<1> QED
  BY <1>1, KillInvariant, PTL
=============================================================================
