---------------------------- MODULE WorkerLemmas ----------------------------
(***************************************************************************)
(* What the operators of Disk and Worker keep and return: the facts the    *)
(* proofs about a shard rest on.                                           *)
(***************************************************************************)
EXTENDS Worker, FiniteSetTheorems, SequenceTheorems, WellFoundedInduction, TLAPS

LEMMA LeastNat ==
    ASSUME NEW U \in SUBSET Nat, U # {}
    PROVE  \E m \in U : \A y \in U : m <= y
<1> DEFINE R == OpToRel(<, Nat)
<1>1. IsWellFoundedOn(R, Nat)
  BY NatLessThanWellFounded
<1>2. \A y, m \in Nat : <<y, m>> \in R <=> y < m
  BY DEF OpToRel
<1> HIDE DEF R
<1>3. PICK m \in U : \A y \in U : ~(<<y, m>> \in R)
  BY <1>1, WFMin
<1>4. \A y \in U : m <= y
  <2> TAKE y \in U
  <2>1. y \in Nat /\ m \in Nat /\ ~(<<y, m>> \in R)
    BY <1>3
  <2>2. ~(y < m)
    BY <1>2, <2>1
  <2> QED
    BY <2>1, <2>2
<1> QED
  BY <1>4

\* The last of a set of journal positions exists: replay keeps the last record.
LEMMA MaxIn ==
    ASSUME NEW n \in Nat, NEW T \in SUBSET (1..n), T # {}
    PROVE  Max(T) \in T /\ \A x \in T : x <= Max(T)
<1> DEFINE U == {m \in Nat : \A x \in T : x <= m}
<1>1. n \in U
  OBVIOUS
<1>2. PICK m \in U : \A y \in U : m <= y
  BY <1>1, LeastNat
<1>3. m \in T
  <2> SUFFICES ASSUME m \notin T PROVE FALSE
    OBVIOUS
  <2>1. \A x \in T : x \in Nat /\ x >= 1 /\ x <= m /\ x # m
    OBVIOUS
  <2>2. m \in Nat /\ m >= 1
    <3>1. PICK x : x \in T
      OBVIOUS
    <3> QED
      BY <2>1, <3>1
  <2>3. m - 1 \in U
    BY <2>1, <2>2
  <2> QED
    BY <1>2, <2>2, <2>3
<1>4. \A x \in T : m >= x
  OBVIOUS
<1>5. \E x \in T : \A y \in T : x >= y
  BY <1>3, <1>4
<1>6. Max(T) \in T /\ \A y \in T : Max(T) >= y
  BY <1>5 DEF Max
<1> QED
  BY <1>6

-----------------------------------------------------------------------------
(***************************************************************************)
(* The files.                                                              *)
(***************************************************************************)
LEMMA AppendSeq ==
    ASSUME NEW S, NEW q \in Seq(S), NEW x \in S
    PROVE  /\ Append(q, x) \in Seq(S) /\ Len(q) \in Nat /\ Len(Append(q, x)) = Len(q) + 1
           /\ \A i \in 1..Len(q) : Append(q, x)[i] = q[i]
           /\ Append(q, x)[Len(q) + 1] = x
BY AppendProperties, LenProperties

LEMMA AppendTwo ==
    ASSUME NEW S, NEW q \in Seq(S), NEW x \in S, NEW y \in S
    PROVE  LET p == q \o <<x, y>>
           IN  /\ p \in Seq(S) /\ Len(q) \in Nat /\ Len(p) = Len(q) + 2
               /\ \A i \in 1..Len(q) : p[i] = q[i]
               /\ p[Len(q) + 1] = x /\ p[Len(q) + 2] = y
OBVIOUS

LEMMA Prefix ==
    ASSUME NEW S, NEW q \in Seq(S), NEW n \in 0..Len(q)
    PROVE  LET p == SubSeq(q, 1, n)
           IN  /\ p \in Seq(S) /\ Len(p) = n /\ n \in Nat
               /\ \A i \in 1..n : p[i] = q[i]
<1>1. Len(q) \in Nat /\ n \in Nat /\ \A i \in 1..n : q[i] \in S
  BY LenProperties, ElementOfSeq
<1> DEFINE p == SubSeq(q, 1, n)
<1>2. /\ p \in Seq(S)
      /\ Len(p) = IF 1 <= n THEN n - 1 + 1 ELSE 0
      /\ \A i \in 1..(n - 1 + 1) : p[i] = q[1 + i - 1]
  BY <1>1, SubSeqProperties
<1> HIDE DEF p
<1>3. Len(p) = n /\ \A i \in 1..n : p[i] = q[i]
  BY <1>1, <1>2
<1> QED
  BY <1>1, <1>2, <1>3 DEF p

\* A failing append_set leaves the same kinds of pieces behind as append_del.
LEMMA AppendSetType ==
    ASSUME DiskTypeOK, NEW k \in Keys, NEW v \in Values, NEW e \in Nat,
           append_set(k, v, e) \/ append_set_fails(k, v, e)
    PROVE  DiskTypeOK'
<1> DEFINE r == SetRecord(k, ValOff, e)
<1>0. cool_len + 2 \in Nat
  BY DEF DiskTypeOK
<1>1. Junk \in Cell /\ v \in Cell /\ r \in Record /\ Tear(r) \in Record
  BY <1>0 DEF Cell, Record, SetRecord, ValOff, Tear
<1>2. /\ cool \in Seq(Cell) /\ backup \in Seq(Record) /\ cool_len \in Nat
      /\ Len(cool) \in Nat /\ coolFile \in 0..Len(cool) /\ coolSync \in 0..coolFile
      /\ Len(backup) \in Nat /\ backupFile \in 0..Len(backup) /\ backupSync \in 0..backupFile
  BY LenProperties DEF DiskTypeOK
<1> DEFINE c1 == Append(cool, Junk)
           c2 == cool \o <<Junk, v>>
           b1 == Append(backup, r)
           b2 == Append(backup, Tear(r))
<1>3. /\ c1 \in Seq(Cell) /\ Len(c1) = Len(cool) + 1
      /\ c2 \in Seq(Cell) /\ Len(c2) = Len(cool) + 2
      /\ b1 \in Seq(Record) /\ Len(b1) = Len(backup) + 1
      /\ b2 \in Seq(Record) /\ Len(b2) = Len(backup) + 1
  BY <1>1, <1>2, AppendSeq, AppendTwo
<1> HIDE DEF c1, c2, b1, b2, r
<1>4. CASE append_set(k, v, e)
  <2>1. /\ cool' = c2 /\ cool_len' = cool_len + 2 /\ backup' = b1
        /\ coolFile' \in {coolFile} \cup Len(cool)..Len(c2)
        /\ backupFile' \in {backupFile} \cup Len(backup)..Len(b1)
        /\ coolSync' = coolSync /\ backupSync' = backupSync
    BY <1>4 DEF append_set, SpillBoth, Spill, c2, b1, r
  <2> QED
    BY <1>2, <1>3, <2>1 DEF DiskTypeOK
<1>5. CASE append_set_fails(k, v, e)
  <2>0. Len(<<Junk, v>>) = 2
    OBVIOUS
  <2>1. /\ cool' \in {cool, c1, c2} /\ cool_len' \in {cool_len, cool_len + 2}
        /\ backup' \in {backup, b2}
        /\ coolFile' \in {coolFile} \cup coolFile..Len(cool') \cup Len(cool)..Len(cool')
        /\ backupFile' \in {backupFile} \cup backupFile..Len(backup')
        /\ coolSync' = coolSync /\ backupSync' = backupSync
    BY <1>5, <2>0 DEF append_set_fails, append_fails, Spill, c1, c2, b2, r
  <2> QED
    BY <1>2, <1>3, <2>1 DEF DiskTypeOK
<1> QED
  BY <1>4, <1>5

LEMMA AppendDelType ==
    ASSUME DiskTypeOK, NEW k \in Keys, append_del(k) \/ append_del_fails(k)
    PROVE  DiskTypeOK'
<1> DEFINE r == DelRecord(k)
<1>1. Junk \in Cell /\ r \in Record /\ Tear(r) \in Record
  BY DEF Cell, Record, DelRecord, Tear
<1>2. /\ cool \in Seq(Cell) /\ backup \in Seq(Record) /\ cool_len \in Nat
      /\ Len(cool) \in Nat /\ coolFile \in 0..Len(cool) /\ coolSync \in 0..coolFile
      /\ Len(backup) \in Nat /\ backupFile \in 0..Len(backup) /\ backupSync \in 0..backupFile
  BY LenProperties DEF DiskTypeOK
<1> DEFINE c1 == Append(cool, Junk)
           b1 == Append(backup, r)
           b2 == Append(backup, Tear(r))
<1>3. /\ c1 \in Seq(Cell) /\ Len(c1) = Len(cool) + 1 /\ cool \o <<Junk>> = c1
      /\ b1 \in Seq(Record) /\ Len(b1) = Len(backup) + 1
      /\ b2 \in Seq(Record) /\ Len(b2) = Len(backup) + 1
  BY <1>1, <1>2, AppendSeq, AppendIsConcat
<1> HIDE DEF c1, b1, b2, r
<1>4. CASE append_del(k)
  <2>1. /\ cool' = c1 /\ cool_len' = cool_len + 1 /\ backup' = b1
        /\ coolFile' \in {coolFile} \cup Len(cool)..Len(c1)
        /\ backupFile' \in {backupFile} \cup Len(backup)..Len(b1)
        /\ coolSync' = coolSync /\ backupSync' = backupSync
    BY <1>4 DEF append_del, SpillBoth, Spill, c1, b1, r
  <2> QED
    BY <1>2, <1>3, <2>1 DEF DiskTypeOK
<1>5. CASE append_del_fails(k)
  <2>0. Len(<<Junk>>) = 1
    OBVIOUS
  <2>1. /\ cool' \in {cool, c1} /\ cool_len' \in {cool_len, cool_len + 1}
        /\ backup' \in {backup, b2}
        /\ coolFile' \in {coolFile} \cup coolFile..Len(cool') \cup Len(cool)..Len(cool')
        /\ backupFile' \in {backupFile} \cup backupFile..Len(backup')
        /\ coolSync' = coolSync /\ backupSync' = backupSync
    BY <1>3, <1>5, <2>0 DEF append_del_fails, append_fails, Spill, c1, b2, r
  <2> QED
    BY <1>2, <1>3, <2>1 DEF DiskTypeOK
<1> QED
  BY <1>4, <1>5

LEMMA FlushType ==
    ASSUME DiskTypeOK,
           \/ flush_cool \/ flush_cool_fails \/ flush_backup \/ flush_backup_fails
           \/ sync_cool \/ sync_backup \/ open \/ UNCHANGED diskVars
    PROVE  DiskTypeOK'
<1>1. /\ Len(cool) \in Nat /\ Len(backup) \in Nat /\ cool' = cool /\ backup' = backup
  BY LenProperties DEF DiskTypeOK, flush_cool, flush_cool_fails, flush_backup,
       flush_backup_fails, sync_cool, sync_backup, open, diskVars
<1> QED
  BY <1>1 DEF DiskTypeOK, flush_cool, flush_cool_fails, flush_backup,
       flush_backup_fails, sync_cool, sync_backup, open, diskVars

LEMMA CrashType ==
    ASSUME DiskTypeOK, NEW kind, lose_unwritten(kind)
    PROVE  DiskTypeOK'
<1>1. /\ cool \in Seq(Cell) /\ backup \in Seq(Record) /\ cool_len \in Nat
      /\ Len(cool) \in Nat /\ coolFile \in 0..Len(cool) /\ coolSync \in 0..coolFile
      /\ Len(backup) \in Nat /\ backupFile \in 0..Len(backup) /\ backupSync \in 0..backupFile
  BY LenProperties DEF DiskTypeOK
<1>2. /\ \A n \in Survivors(kind, coolSync, coolFile) : n \in 0..Len(cool) /\ coolSync <= n
      /\ \A n \in Survivors(kind, backupSync, backupFile) : n \in 0..Len(backup) /\ backupSync <= n
  BY <1>1 DEF Survivors
<1>3. cool' \in Seq(Cell) /\ Len(cool') \in Nat /\ coolSync <= Len(cool')
  <2>1. PICK n \in Survivors(kind, coolSync, coolFile) :
            cool' = SubSeq(cool, 1, n) \/ cool' = Append(SubSeq(cool, 1, n), Junk)
    BY DEF lose_unwritten
  <2>2. SubSeq(cool, 1, n) \in Seq(Cell) /\ Len(SubSeq(cool, 1, n)) = n /\ n \in Nat
    BY <1>1, <1>2, Prefix
  <2>3. CASE cool' = SubSeq(cool, 1, n)
    BY <1>1, <1>2, <2>2, <2>3
  <2>4. CASE cool' = Append(SubSeq(cool, 1, n), Junk)
    <3>1. Append(SubSeq(cool, 1, n), Junk) \in Seq(Cell)
          /\ Len(Append(SubSeq(cool, 1, n), Junk)) = n + 1
      BY <2>2, AppendSeq DEF Cell
    <3> QED
      BY <1>1, <1>2, <2>2, <2>4, <3>1
  <2> QED
    BY <2>1, <2>3, <2>4
<1>4. backup' \in Seq(Record) /\ Len(backup') \in Nat /\ backupSync <= Len(backup')
  <2>1. PICK n \in Survivors(kind, backupSync, backupFile) :
            \/ backup' = SubSeq(backup, 1, n)
            \/ /\ CanTear(n, backupFile, Len(backup))
               /\ backup' = Append(SubSeq(backup, 1, n), Tear(backup[n + 1]))
    BY DEF lose_unwritten
  <2>2. SubSeq(backup, 1, n) \in Seq(Record) /\ Len(SubSeq(backup, 1, n)) = n /\ n \in Nat
    BY <1>1, <1>2, Prefix
  <2>3. CASE backup' = SubSeq(backup, 1, n)
    BY <1>1, <1>2, <2>2, <2>3
  <2>4. CASE /\ CanTear(n, backupFile, Len(backup))
             /\ backup' = Append(SubSeq(backup, 1, n), Tear(backup[n + 1]))
    <3>1. n + 1 \in 1..Len(backup)
      BY <1>1, <2>2, <2>4 DEF CanTear
    <3>2. backup[n + 1] \in Record
      BY <1>1, <3>1, ElementOfSeq
    <3>3. Tear(backup[n + 1]) \in Record
      BY <3>2 DEF Tear, Record
    <3> QED
      BY <1>1, <1>2, <2>2, <2>4, <3>3, AppendSeq
  <2> QED
    BY <2>1, <2>3, <2>4
<1> QED
  BY <1>1, <1>3, <1>4 DEF lose_unwritten, DiskTypeOK

-----------------------------------------------------------------------------
(***************************************************************************)
(* The cache.                                                              *)
(***************************************************************************)
LEMMA FootprintFinite ==
    ASSUME NEW c, NEW S
    PROVE  IsFiniteSet(Footprint(c, S)) /\ SizeOf(c, S) \in Nat
<1> DEFINE bytes == 1..(EntryBase + MaxVLen)
<1>1. IsFiniteSet(bytes) /\ IsFiniteSet(Keys)
  BY WorkerAssumption, FS_Interval
<1>2. IsFiniteSet(Keys \X bytes)
  BY <1>1, FS_Product
<1>3. Footprint(c, S) \in SUBSET (Keys \X bytes)
  BY DEF Footprint, Cached
<1>4. IsFiniteSet(Footprint(c, S))
  BY <1>2, <1>3, FS_Subset
<1> QED
  BY <1>4, FS_CardinalityType DEF SizeOf

LEMMA SatSubType == ASSUME NEW a \in Nat, NEW b \in Nat PROVE SatSub(a, b) \in Nat
BY DEF SatSub

LEMMA CacheSizeType == ASSUME NEW v \in Cell PROVE cache_size(v) \in Nat
BY WorkerAssumption DEF cache_size

LEMMA PromoteType ==
    ASSUME NEW c \in Cache, NEW k \in Keys
    PROVE  /\ Promote(c, k) \in Cache
           /\ Promote(c, k).val = c.val /\ Promote(c, k).bytes = c.bytes
<1>1. Without(c.older, {k}) \cup {<<j, k>> : j \in Cached(c) \ {k}} \in SUBSET (Keys \X Keys)
  BY DEF Cache, Without, Cached
<1> QED
  BY <1>1 DEF Promote, Cache

LEMMA CacheInsertType ==
    ASSUME NEW c \in Cache, NEW k \in Keys, NEW v \in Cell
    PROVE  /\ cache_insert(c, k, v) \in Cache
           /\ cache_insert(c, k, v).val = [c.val EXCEPT ![k] = v]
<1> DEFINE p == Promote(c, k)
           b == (IF c.val[k] # None THEN SatSub(p.bytes, cache_size(c.val[k])) ELSE p.bytes)
                + cache_size(v)
<1>1. p \in Cache /\ p.val = c.val
  BY PromoteType
<1> HIDE DEF p
<1>2. b \in Nat
  <2>1. p.bytes \in Nat /\ cache_size(v) \in Nat
    BY <1>1, CacheSizeType DEF Cache
  <2>2. c.val[k] # None => cache_size(c.val[k]) \in Nat
    BY CacheSizeType DEF Cache
  <2>3. c.val[k] # None => SatSub(p.bytes, cache_size(c.val[k])) \in Nat
    BY <2>1, <2>2, SatSubType
  <2> QED
    BY <2>1, <2>3
<1> HIDE DEF b
<1>3. cache_insert(c, k, v) = [p EXCEPT !.val[k] = v, !.bytes = b]
  BY DEF cache_insert, p, b
<1>4. [p.val EXCEPT ![k] = v] \in [Keys -> Cell \cup {None}]
  BY <1>1 DEF Cache
<1> QED
  BY <1>1, <1>2, <1>3, <1>4 DEF Cache

LEMMA CacheRemoveType ==
    ASSUME NEW c \in Cache, NEW k \in Keys
    PROVE  /\ cache_remove(c, k) \in Cache
           /\ cache_remove(c, k).val = [c.val EXCEPT ![k] = None]
<1>1. CASE c.val[k] = None
  BY <1>1 DEF cache_remove, Cache
<1>2. CASE c.val[k] # None
  <2>1. c.bytes \in Nat /\ cache_size(c.val[k]) \in Nat
    BY <1>2, CacheSizeType DEF Cache
  <2>2. SatSub(c.bytes, cache_size(c.val[k])) \in Nat
    BY <2>1, SatSubType
  <2>3. Without(c.older, {k}) \in SUBSET (Keys \X Keys)
    BY DEF Cache, Without
  <2> QED
    BY <1>2, <2>2, <2>3 DEF cache_remove, Cache
<1> QED
  BY <1>1, <1>2

\* Eviction only drops values: those that stay are unchanged.
LEMMA EvictType ==
    ASSUME NEW c \in Cache
    PROVE  /\ evict_to_budget(c) \in Cache
           /\ \A k \in Keys : evict_to_budget(c).val[k] \in {c.val[k], None}
<1>1. CASE Budget = 0 \/ c.bytes < High
  BY <1>1 DEF evict_to_budget
<1>2. CASE ~(Budget = 0 \/ c.bytes < High)
  <2>1. SatSub(c.bytes, SizeOf(c, Evicted(c))) \in Nat
    BY FootprintFinite, SatSubType DEF Cache
  <2>2. Without(c.older, Evicted(c)) \in SUBSET (Keys \X Keys)
    BY DEF Cache, Without
  <2>3. [k \in Keys |-> IF k \in Evicted(c) THEN None ELSE c.val[k]] \in [Keys -> Cell \cup {None}]
    BY DEF Cache
  <2> QED
    BY <1>2, <2>1, <2>2, <2>3 DEF evict_to_budget, Cache
<1> QED
  BY <1>1, <1>2

-----------------------------------------------------------------------------
(***************************************************************************)
(* The size of a set of entries.                                           *)
(***************************************************************************)
LEMMA SizeSame ==
    ASSUME NEW c, NEW d, NEW S, \A k \in S \cap Keys : d.val[k] = c.val[k]
    PROVE  SizeOf(d, S) = SizeOf(c, S)
<1>1. S \cap Cached(d) = S \cap Cached(c)
  BY DEF Cached
<1>2. \A b \in (S \cap Cached(c)) \X (1..(EntryBase + MaxVLen)) : d.val[b[1]] = c.val[b[1]]
  BY DEF Cached
<1>3. Footprint(d, S) = Footprint(c, S)
  BY <1>1, <1>2 DEF Footprint
<1> QED
  BY <1>3 DEF SizeOf

LEMMA SizeNone ==
    ASSUME NEW c, NEW S, \A k \in S \cap Keys : c.val[k] = None
    PROVE  SizeOf(c, S) = 0
<1>1. Footprint(c, S) = {}
  BY DEF Footprint, Cached
<1> QED
  BY <1>1, FS_EmptySet DEF SizeOf

LEMMA SizeUnion ==
    ASSUME NEW c, NEW S, NEW T, S \cap T = {}
    PROVE  SizeOf(c, S \cup T) = SizeOf(c, S) + SizeOf(c, T)
<1>1. /\ Footprint(c, S \cup T) = Footprint(c, S) \cup Footprint(c, T)
      /\ Footprint(c, S) \cap Footprint(c, T) = {}
  BY DEF Footprint
<1>2. /\ IsFiniteSet(Footprint(c, S)) /\ IsFiniteSet(Footprint(c, T))
      /\ SizeOf(c, S) \in Nat /\ SizeOf(c, T) \in Nat
  BY FootprintFinite
<1>3. Cardinality(Footprint(c, S) \cup Footprint(c, T)) =
        Cardinality(Footprint(c, S)) + Cardinality(Footprint(c, T))
          - Cardinality(Footprint(c, S) \cap Footprint(c, T))
  BY <1>2, FS_Union
<1>4. Cardinality(Footprint(c, S) \cap Footprint(c, T)) = 0
  BY <1>1, FS_EmptySet
<1>5. SizeOf(c, S \cup T) = SizeOf(c, S) + SizeOf(c, T) - 0
  BY <1>1, <1>3, <1>4 DEF SizeOf
<1> QED
  BY <1>2, <1>5

LEMMA SizeMono ==
    ASSUME NEW c, NEW S, NEW T, S \subseteq T
    PROVE  SizeOf(c, S) <= SizeOf(c, T)
<1>1. Footprint(c, S) \in SUBSET Footprint(c, T)
  BY DEF Footprint
<1>2. IsFiniteSet(Footprint(c, T))
  BY FootprintFinite
<1> QED
  BY <1>1, <1>2, FS_Subset DEF SizeOf

LEMMA CacheSizeBounds ==
    ASSUME NEW v \in Cell
    PROVE  cache_size(v) \in 1..(EntryBase + MaxVLen)
<1>1. VLen[v] \in 1..MaxVLen /\ EntryBase \in Nat /\ EntryBase >= 1 /\ MaxVLen \in Nat
  BY WorkerAssumption
<1> QED
  BY <1>1 DEF cache_size

\* One entry counts for its own size.
LEMMA SizeOne ==
    ASSUME NEW c \in Cache, NEW k \in Keys, c.val[k] # None
    PROVE  SizeOf(c, {k}) = cache_size(c.val[k]) /\ SizeOf(c, {k}) >= 1
<1> DEFINE n == cache_size(c.val[k])
           m == EntryBase + MaxVLen
<1>1. c.val[k] \in Cell
  BY DEF Cache
<1>2. n \in 1..m /\ m \in Nat
  BY <1>1, CacheSizeBounds, WorkerAssumption
<1>3. {k} \cap Cached(c) = {k}
  BY DEF Cached
<1> HIDE DEF m
<1>4. Footprint(c, {k}) = {b \in {k} \X (1..m) : b[2] <= cache_size(c.val[b[1]])}
  BY <1>3 DEF Footprint, m
<1>5. \A b \in {k} \X (1..m) : cache_size(c.val[b[1]]) = n
  OBVIOUS
<1> HIDE DEF n
<1>6. Footprint(c, {k}) = {k} \X (1..n)
  <2>1. ASSUME NEW b \in {k} \X (1..m), b[2] <= n PROVE b \in {k} \X (1..n)
    BY <1>2, <2>1
  <2>2. ASSUME NEW b \in {k} \X (1..n) PROVE b \in {k} \X (1..m) /\ b[2] <= n
    BY <1>2, <2>2
  <2> QED
    BY <1>4, <1>5, <2>1, <2>2
<1>7. IsFiniteSet(1..n) /\ Cardinality(1..n) = n
  BY <1>2, FS_Interval
<1>8. IsFiniteSet({k}) /\ Cardinality({k}) = 1
  BY FS_Singleton
<1>9. Cardinality({k} \X (1..n)) = 1 * n
  BY <1>7, <1>8, FS_Product
<1>10. SizeOf(c, {k}) = 1 * n
  BY <1>6, <1>9 DEF SizeOf
<1>11. 1 * n = n /\ n >= 1
  BY <1>2
<1> QED
  BY <1>10, <1>11 DEF n

\* Dropping the entries of S takes exactly their size off.
LEMMA SizeDrop ==
    ASSUME NEW c, NEW d, NEW S \in SUBSET Keys,
           \A k \in Keys : d.val[k] = IF k \in S THEN None ELSE c.val[k]
    PROVE  /\ SizeOf(c, Keys) = SizeOf(c, S) + SizeOf(d, Keys)
           /\ SizeOf(c, Keys) \in Nat /\ SizeOf(c, S) \in Nat /\ SizeOf(d, Keys) \in Nat
<1> DEFINE R == Keys \ S
<1>1. Keys = S \cup R /\ S \cap R = {}
  OBVIOUS
<1>2. SizeOf(c, Keys) = SizeOf(c, S) + SizeOf(c, R)
  BY <1>1, SizeUnion
<1>3. SizeOf(d, Keys) = SizeOf(d, S) + SizeOf(d, R)
  BY <1>1, SizeUnion
<1>4. SizeOf(d, S) = 0
  BY SizeNone
<1>5. SizeOf(d, R) = SizeOf(c, R)
  BY SizeSame
<1>6. SizeOf(c, R) \in Nat /\ SizeOf(c, S) \in Nat /\ SizeOf(d, Keys) \in Nat /\ SizeOf(c, Keys) \in Nat
  BY FootprintFinite
<1> QED
  BY <1>2, <1>3, <1>4, <1>5, <1>6

-----------------------------------------------------------------------------
(***************************************************************************)
(* A sound cache.  The count is exact because every change takes off or    *)
(* adds the size of the entry it changes; the eviction loop reaches the    *)
(* low-water mark because the LruCache is a total order: when it stops,    *)
(* everything older than the oldest entry left has been counted off.       *)
(***************************************************************************)
Counted(c) == c.bytes = SizeOf(c, Keys)

Ordered(c) ==
    /\ c.older \subseteq Cached(c) \X Cached(c)
    /\ \A j \in Keys : <<j, j>> \notin c.older
    /\ \A i, j, k \in Keys : <<i, j>> \in c.older /\ <<j, k>> \in c.older => <<i, k>> \in c.older
    /\ \A j, k \in Cached(c) : j = k \/ <<j, k>> \in c.older \/ <<k, j>> \in c.older

WithinBudget(c) == Budget # 0 => c.bytes < High \/ c.bytes <= Low

LEMMA EmptyCounted == Counted(EmptyCache) /\ Ordered(EmptyCache) /\ WithinBudget(EmptyCache)
<1>1. \A k \in Keys : EmptyCache.val[k] = None
  BY DEF EmptyCache
<1>2. SizeOf(EmptyCache, Keys) = 0 /\ Cached(EmptyCache) = {}
  BY <1>1, SizeNone DEF Cached
<1>3. Low \in Nat
  BY WorkerAssumption DEF Low
<1> QED
  BY <1>2, <1>3 DEF EmptyCache, Counted, Ordered, WithinBudget

LEMMA PromoteOrdered ==
    ASSUME NEW c \in Cache, NEW k \in Keys, NEW d,
           d.older = Promote(c, k).older, Cached(d) = Cached(c) \cup {k}, Ordered(c)
    PROVE  Ordered(d)
<1>1. d.older = Without(c.older, {k}) \cup {<<j, k>> : j \in Cached(c) \ {k}}
  BY DEF Promote, Cache
<1>2. \A i, j : <<i, j>> \in d.older <=>
         \/ <<i, j>> \in c.older /\ i # k /\ j # k
         \/ i \in Cached(c) /\ i # k /\ j = k
  BY <1>1 DEF Without
<1>3. \A i, j : <<i, j>> \in c.older => i \in Cached(c) /\ j \in Cached(c)
  BY DEF Ordered
<1>4. d.older \subseteq Cached(d) \X Cached(d)
  BY <1>1 DEF Ordered, Without
<1> QED
  BY <1>2, <1>3, <1>4 DEF Ordered, Cached

\* A smaller cache is within the budget too.
LEMMA BudgetDown ==
    ASSUME NEW c \in Cache, NEW d \in Cache, d.bytes <= c.bytes, WithinBudget(c)
    PROVE  WithinBudget(d)
<1>1. c.bytes \in Nat /\ d.bytes \in Nat /\ Low \in Nat /\ High \in Nat
  BY WorkerAssumption DEF Cache, Low, High
<1> QED
  BY <1>1 DEF WithinBudget

\* What cache_remove, the sweep and the eviction loop do alike.
LEMMA DropCounted ==
    ASSUME NEW c \in Cache, NEW d \in Cache, NEW S \in SUBSET Keys, Counted(c), Ordered(c),
           \A k \in Keys : d.val[k] = IF k \in S THEN None ELSE c.val[k],
           d.older = Without(c.older, S),
           d.bytes = SatSub(c.bytes, SizeOf(c, S))
    PROVE  /\ Counted(d) /\ Ordered(d)
           /\ d.bytes = c.bytes - SizeOf(c, S) /\ SizeOf(c, S) \in Nat /\ d.bytes <= c.bytes
<1>1. /\ SizeOf(c, Keys) = SizeOf(c, S) + SizeOf(d, Keys)
      /\ SizeOf(c, Keys) \in Nat /\ SizeOf(c, S) \in Nat /\ SizeOf(d, Keys) \in Nat
  BY SizeDrop
<1>2. /\ Counted(d) /\ d.bytes = c.bytes - SizeOf(c, S) /\ SizeOf(c, S) \in Nat
      /\ d.bytes <= c.bytes
  BY <1>1 DEF Counted, SatSub
<1>3. Cached(d) = Cached(c) \ S
  BY DEF Cached
<1>4. \A i, j : <<i, j>> \in d.older <=> <<i, j>> \in c.older /\ i \notin S /\ j \notin S
  BY DEF Without
<1>5. d.older \subseteq Cached(d) \X Cached(d)
  <2>1. c.older \subseteq Cached(c) \X Cached(c)
    BY DEF Ordered
  <2> QED
    BY <1>3, <2>1 DEF Without
<1>6. Ordered(d)
  BY <1>3, <1>4, <1>5 DEF Ordered
<1> QED
  BY <1>2, <1>6

LEMMA RemoveCounted ==
    ASSUME NEW c \in Cache, NEW k \in Keys, Counted(c), Ordered(c), WithinBudget(c)
    PROVE  Counted(cache_remove(c, k)) /\ Ordered(cache_remove(c, k)) /\ WithinBudget(cache_remove(c, k))
<1> DEFINE d == cache_remove(c, k)
<1>1. CASE c.val[k] = None
  BY <1>1 DEF cache_remove
<1>2. CASE c.val[k] # None
  <2>1. d \in Cache /\ d.val = [c.val EXCEPT ![k] = None]
    BY CacheRemoveType
  <2>2. \A j \in Keys : d.val[j] = IF j \in {k} THEN None ELSE c.val[j]
    BY <2>1 DEF Cache
  <2>3. d.older = Without(c.older, {k}) /\ d.bytes = SatSub(c.bytes, cache_size(c.val[k]))
    BY <1>2 DEF cache_remove
  <2>4. SizeOf(c, {k}) = cache_size(c.val[k])
    BY <1>2, SizeOne
  <2> HIDE DEF d
  <2>5. Counted(d) /\ Ordered(d) /\ d.bytes <= c.bytes
    BY <2>1, <2>2, <2>3, <2>4, DropCounted
  <2>6. WithinBudget(d)
    BY <2>1, <2>5, BudgetDown
  <2> QED
    BY <2>5, <2>6 DEF d
<1> QED
  BY <1>1, <1>2

LEMMA PromoteCounted ==
    ASSUME NEW c \in Cache, NEW k \in Keys, c.val[k] # None,
           Counted(c), Ordered(c), WithinBudget(c)
    PROVE  Counted(Promote(c, k)) /\ Ordered(Promote(c, k)) /\ WithinBudget(Promote(c, k))
<1> DEFINE d == Promote(c, k)
<1>1. d \in Cache /\ d.val = c.val /\ d.bytes = c.bytes
  BY PromoteType
<1>2. d.older = Promote(c, k).older
  OBVIOUS
<1> HIDE DEF d
<1>3. SizeOf(d, Keys) = SizeOf(c, Keys)
  BY <1>1, SizeSame
<1>4. Cached(d) = Cached(c) \cup {k}
  BY <1>1 DEF Cached
<1>5. Ordered(d)
  BY <1>2, <1>4, PromoteOrdered
<1> QED
  BY <1>1, <1>3, <1>5 DEF Counted, WithinBudget, d

\* put adds the size of the new entry and takes off that of the one it replaces.
LEMMA InsertCounted ==
    ASSUME NEW c \in Cache, NEW k \in Keys, NEW v \in Cell, v # None, Counted(c), Ordered(c)
    PROVE  Counted(cache_insert(c, k, v)) /\ Ordered(cache_insert(c, k, v))
<1> DEFINE d == cache_insert(c, k, v)
           R == Keys \ {k}
<1>1. d \in Cache /\ d.val = [c.val EXCEPT ![k] = v]
  BY CacheInsertType
<1>2. /\ d.older = Promote(c, k).older
      /\ d.bytes = (IF c.val[k] # None THEN SatSub(c.bytes, cache_size(c.val[k])) ELSE c.bytes)
                   + cache_size(v)
  <2>1. Promote(c, k) \in Cache /\ Promote(c, k).bytes = c.bytes
    BY PromoteType
  <2> QED
    BY <2>1 DEF cache_insert, Cache
<1> HIDE DEF d
<1>3. d.val[k] = v /\ \A j \in R : d.val[j] = c.val[j]
  BY <1>1 DEF Cache
<1>4. SizeOf(d, {k}) = cache_size(v)
  BY <1>1, <1>3, SizeOne
<1>5. SizeOf(d, R) = SizeOf(c, R)
  BY <1>3, SizeSame
<1>6. Keys = {k} \cup R /\ {k} \cap R = {}
  OBVIOUS
<1>7. /\ SizeOf(d, Keys) = SizeOf(d, {k}) + SizeOf(d, R)
      /\ SizeOf(c, Keys) = SizeOf(c, {k}) + SizeOf(c, R)
  BY <1>6, SizeUnion
<1>8. SizeOf(c, {k}) = IF c.val[k] # None THEN cache_size(c.val[k]) ELSE 0
  BY SizeOne, SizeNone
<1>9. SizeOf(c, {k}) \in Nat /\ SizeOf(c, R) \in Nat /\ cache_size(v) \in Nat
  BY FootprintFinite, CacheSizeType
<1>10. Counted(d)
  <2>1. c.bytes = SizeOf(c, {k}) + SizeOf(c, R)
    BY <1>7 DEF Counted
  <2>2. d.bytes = SizeOf(c, R) + cache_size(v)
    <3>1. CASE c.val[k] # None
      BY <1>2, <1>8, <1>9, <2>1, <3>1 DEF SatSub
    <3>2. CASE c.val[k] = None
      BY <1>2, <1>8, <1>9, <2>1, <3>2
    <3> QED
      BY <3>1, <3>2
  <2> QED
    BY <1>4, <1>5, <1>7, <1>9, <2>2 DEF Counted
<1>11. Cached(d) = Cached(c) \cup {k}
  BY <1>1, <1>3 DEF Cached
<1>12. Ordered(d)
  BY <1>2, <1>11, PromoteOrdered
<1> QED
  BY <1>10, <1>12 DEF d

Older(c, k) == {j \in Keys : <<j, k>> \in c.older}

\* Some entry that is left is the oldest of them.
LEMMA OldestLeft ==
    ASSUME NEW c \in Cache, Ordered(c), NEW S \in SUBSET Cached(c), S # {}
    PROVE  \E k \in S : Older(c, k) \cap S = {}
<1> DEFINE T == {SizeOf(c, Older(c, k)) : k \in S}
<1>1. T \in SUBSET Nat /\ T # {}
  BY FootprintFinite
<1>2. PICK n \in T : \A m \in T : n <= m
  BY <1>1, LeastNat
<1>3. PICK k \in S : n = SizeOf(c, Older(c, k))
  BY <1>2
<1>4. SUFFICES ASSUME NEW j \in S, j \in Older(c, k) PROVE FALSE
  BY <1>3
<1>5. Older(c, j) \cup {j} \subseteq Older(c, k) /\ Older(c, j) \cap {j} = {}
  BY <1>3, <1>4 DEF Older, Ordered, Cached
<1>6. SizeOf(c, Older(c, j)) + SizeOf(c, {j}) <= SizeOf(c, Older(c, k))
  <2>1. SizeOf(c, Older(c, j) \cup {j}) = SizeOf(c, Older(c, j)) + SizeOf(c, {j})
    BY <1>5, SizeUnion
  <2>2. SizeOf(c, Older(c, j) \cup {j}) <= SizeOf(c, Older(c, k))
    BY <1>5, SizeMono
  <2> QED
    BY <2>1, <2>2
<1>7. SizeOf(c, {j}) >= 1
  BY <1>4, SizeOne DEF Cached
<1>8. SizeOf(c, Older(c, j)) \in Nat /\ SizeOf(c, {j}) \in Nat /\ n \in Nat
  BY <1>1, FootprintFinite
<1>9. n <= SizeOf(c, Older(c, j))
  BY <1>2, <1>4
<1> QED
  BY <1>3, <1>6, <1>7, <1>8, <1>9

\* The pop_lru loop ends with the count exact and under its mark.
LEMMA EvictCounted ==
    ASSUME NEW c \in Cache, Counted(c), Ordered(c)
    PROVE  /\ Counted(evict_to_budget(c)) /\ Ordered(evict_to_budget(c))
           /\ WithinBudget(evict_to_budget(c))
<1>1. CASE Budget = 0 \/ c.bytes < High
  BY <1>1 DEF evict_to_budget, WithinBudget
<1>2. CASE ~(Budget = 0 \/ c.bytes < High)
  <2> DEFINE d == evict_to_budget(c)
             E == Evicted(c)
             left == Cached(c) \ E
  <2>1. d \in Cache
    BY EvictType
  <2>2. /\ d.val = [k \in Keys |-> IF k \in E THEN None ELSE c.val[k]]
        /\ d.older = Without(c.older, E)
        /\ d.bytes = SatSub(c.bytes, SizeOf(c, E))
    BY <1>2 DEF evict_to_budget
  <2>3. E \in SUBSET Keys
    BY DEF Evicted, Cached
  <2>4. \A k \in left : SatSub(c.bytes, SizeOf(c, Older(c, k))) <= Low
    <3>1. c.bytes \in Nat /\ Low \in Nat /\ \A S : SizeOf(c, S) \in Nat
      BY FootprintFinite, WorkerAssumption DEF Cache, Low
    <3>2. \A S : SatSub(c.bytes, SizeOf(c, S)) \in Nat
      BY <3>1, SatSubType
    <3>3. \A k \in left : ~(SatSub(c.bytes, SizeOf(c, Older(c, k))) > Low)
      BY DEF Evicted, Older
    <3> QED
      BY <3>1, <3>2, <3>3
  <2> HIDE DEF d, E
  <2>5. /\ Counted(d) /\ Ordered(d) /\ d.bytes = c.bytes - SizeOf(c, E)
        /\ SizeOf(c, E) \in Nat
    BY <2>1, <2>2, <2>3, DropCounted
  <2>6. c.bytes \in Nat /\ Low \in Nat /\ d.bytes \in Nat
    BY <2>1, WorkerAssumption DEF Cache, Low
  <2>7. ASSUME left = {} PROVE WithinBudget(d)
    <3>1. \A k \in Keys \cap Keys : d.val[k] = None
      BY <2>2, <2>7 DEF Cached
    <3>2. SizeOf(d, Keys) = 0
      BY <3>1, SizeNone
    <3>3. d.bytes = 0
      BY <2>5, <3>2 DEF Counted
    <3>4. d.bytes <= Low
      BY <2>6, <3>3
    <3> QED
      BY <3>4 DEF WithinBudget
  <2>8. ASSUME left # {} PROVE WithinBudget(d)
    <3>1. PICK k \in left : Older(c, k) \cap left = {}
      BY <2>8, OldestLeft
    <3>2. Older(c, k) \subseteq E
      BY <3>1 DEF Older, Ordered
    <3>3. SizeOf(c, Older(c, k)) <= SizeOf(c, E) /\ SizeOf(c, Older(c, k)) \in Nat
      BY <3>2, SizeMono, FootprintFinite
    <3>4. SatSub(c.bytes, SizeOf(c, Older(c, k))) <= Low
      BY <2>4
    <3>5. d.bytes <= Low
      BY <2>5, <2>6, <3>3, <3>4 DEF SatSub
    <3> QED
      BY <3>5 DEF WithinBudget
  <2>9. WithinBudget(d)
    BY <2>7, <2>8
  <2> QED
    BY <2>5, <2>9 DEF d
<1> QED
  BY <1>1, <1>2

-----------------------------------------------------------------------------
(***************************************************************************)
(* The index.                                                              *)
(***************************************************************************)
LEMMA ReadAtType ==
    ASSUME DiskTypeOK, NEW off
    PROVE  read_at(off) \in Cell \cup {None}
BY ElementOfSeq DEF DiskTypeOK, read_at

\* Replay gives every key a location of one of its SET records that was read
\* and has not expired, or none.
LEMMA RebuiltFrom ==
    ASSUME DiskTypeOK, NEW Q \in Readable, NEW k \in Keys
    PROVE  \/ Rebuilt(Q)[k] = None
           \/ \E i \in Q : /\ i \in 1..Len(backup)
                           /\ backup[i].op = "set" /\ backup[i].key = k
                           /\ ~Expired(backup[i].exp)
                           /\ Rebuilt(Q)[k] = [off |-> backup[i].off, exp |-> backup[i].exp]
<1>1. CASE Applied(Q, k) = {}
  BY <1>1 DEF Rebuilt
<1>2. CASE Applied(Q, k) # {}
  <2>1. Len(backup) \in Nat /\ Applied(Q, k) \in SUBSET (1..Len(backup))
    BY LenProperties DEF Readable, Whole, Applied, DiskTypeOK
  <2>2. PICK i : i = Max(Applied(Q, k)) /\ i \in Applied(Q, k)
    BY <1>2, <2>1, MaxIn
  <2>3. Rebuilt(Q)[k] = LocOf(backup[i])
    BY <1>2, <2>2 DEF Rebuilt
  <2> QED
    BY <2>1, <2>2, <2>3 DEF LocOf, Applied
<1> QED
  BY <1>1, <1>2

LEMMA RebuiltType ==
    ASSUME DiskTypeOK, NEW Q \in Readable
    PROVE  Rebuilt(Q) \in [Keys -> Loc \cup {None}]
<1>1. \A k \in Keys : Rebuilt(Q)[k] \in Loc \cup {None}
  <2> TAKE k \in Keys
  <2>1. \A i \in 1..Len(backup) : backup[i] \in Record
    BY ElementOfSeq DEF DiskTypeOK
  <2>2. CASE Rebuilt(Q)[k] = None
    BY <2>2
  <2>3. CASE Rebuilt(Q)[k] # None
    <3>1. PICK i \in 1..Len(backup) :
              Rebuilt(Q)[k] = [off |-> backup[i].off, exp |-> backup[i].exp]
      BY <2>3, RebuiltFrom
    <3>2. backup[i].off \in Nat /\ backup[i].exp \in Nat
      BY <2>1 DEF Record
    <3> HIDE DEF Rebuilt
    <3> QED
      BY <3>1, <3>2 DEF Loc
  <2> QED
    BY <2>2, <2>3
<1> QED
  BY <1>1 DEF Rebuilt

\* The sweep drops a key from the index and the cache together, and only when
\* the heap entry it popped carries the key's live expiry.
LEMMA ExpireDueKeeps ==
    ASSUME WorkerTypeOK, expire_due
    PROVE  /\ index' \in [Keys -> Loc \cup {None}] /\ cache' \in Cache
           /\ expiries' \subseteq expiries
           /\ \A k \in Keys :
                 \/ index'[k] = None /\ cache'.val[k] = None
                 \/ index'[k] = index[k] /\ cache'.val[k] = cache.val[k]
           /\ \A k \in Keys : index'[k] # None =>
                 \A h \in expiries \ expiries' : ~(h[1] = index[k].exp /\ h[2] = k)
<1>1. PICK popped \in SUBSET Due :
         LET gone == {k \in Keys : index[k] # None
                                 /\ \E h \in popped : h[1] = index[k].exp /\ h[2] = k}
         IN  /\ expiries' = expiries \ popped
             /\ index' = [k \in Keys |-> IF k \in gone THEN None ELSE index[k]]
             /\ cache' = [val |-> [k \in Keys |-> IF k \in gone THEN None ELSE cache.val[k]],
                          older |-> Without(cache.older, gone),
                          bytes |-> SatSub(cache.bytes, SizeOf(cache, gone))]
  BY DEF expire_due
<1> DEFINE gone == {k \in Keys : index[k] # None
                               /\ \E h \in popped : h[1] = index[k].exp /\ h[2] = k}
<1>2. /\ expiries' = expiries \ popped
      /\ index' = [k \in Keys |-> IF k \in gone THEN None ELSE index[k]]
      /\ cache' = [val |-> [k \in Keys |-> IF k \in gone THEN None ELSE cache.val[k]],
                   older |-> Without(cache.older, gone),
                   bytes |-> SatSub(cache.bytes, SizeOf(cache, gone))]
  BY <1>1
<1>3. index \in [Keys -> Loc \cup {None}] /\ cache \in Cache
  BY DEF WorkerTypeOK
<1>4. \A k \in Keys : index'[k] # None =>
                 \A h \in expiries \ expiries' : ~(h[1] = index[k].exp /\ h[2] = k)
  BY <1>2, <1>3
<1> HIDE DEF gone
<1>5. /\ SatSub(cache.bytes, SizeOf(cache, gone)) \in Nat
      /\ Without(cache.older, gone) \in SUBSET (Keys \X Keys)
  <2>1. cache.bytes \in Nat /\ SizeOf(cache, gone) \in Nat
    BY <1>3, FootprintFinite DEF Cache
  <2> QED
    BY <1>3, <2>1, SatSubType DEF Cache, Without
<1>6. cache' \in Cache
  BY <1>2, <1>3, <1>5 DEF Cache
<1> QED
  BY <1>2, <1>3, <1>4, <1>6 DEF Cache

\* Whatever the replay makes of the journal, the heap it builds is that of the
\* index it builds.
LEMMA StartTracks ==
    ASSUME DiskTypeOK, start
    PROVE  /\ index' \in [Keys -> Loc \cup {None}]
           /\ expiries' \subseteq Nat \X Keys \X Nat
           /\ \A h \in expiries' : h[1] # 0
           /\ \A k \in Keys : index'[k] # None /\ index'[k].exp # 0 =>
                 \E h \in expiries' : h[1] = index'[k].exp /\ h[2] = k
<1>1. PICK Q \in Readable, M \in MangledKeys : \E last \in MangledLast(M) :
         /\ index' = [k \in Keys |-> IF k \in M THEN last[k] ELSE Rebuilt(Q)[k]]
         /\ expiries' =
               {<<backup[i].exp, backup[i].key, i>> :
                  i \in {j \in Q : backup[j].op = "set" /\ backup[j].exp # 0
                                                        /\ ~Expired(backup[j].exp)}}
               \cup {<<last[k].exp, k, 0>> : k \in {x \in M : last[x] # None /\ last[x].exp # 0}}
  BY DEF start
<1>2. PICK last \in MangledLast(M) :
         /\ index' = [k \in Keys |-> IF k \in M THEN last[k] ELSE Rebuilt(Q)[k]]
         /\ expiries' =
               {<<backup[i].exp, backup[i].key, i>> :
                  i \in {j \in Q : backup[j].op = "set" /\ backup[j].exp # 0
                                                        /\ ~Expired(backup[j].exp)}}
               \cup {<<last[k].exp, k, 0>> : k \in {x \in M : last[x] # None /\ last[x].exp # 0}}
  BY <1>1
<1>3. M \subseteq Keys
  BY DEF MangledKeys
<1>4. \A k \in M : last[k] \in Loc \cup {None}
  BY WorkerAssumption DEF MangledLast
<1>5. Rebuilt(Q) \in [Keys -> Loc \cup {None}]
  BY RebuiltType
<1>6. \A i \in Q : i \in Nat /\ i \in 1..Len(backup) /\ backup[i] \in Record
  BY ElementOfSeq, LenProperties DEF DiskTypeOK, Readable, Whole
<1>7. index' \in [Keys -> Loc \cup {None}]
  <2> HIDE DEF Rebuilt
  <2>1. \A k \in Keys : (IF k \in M THEN last[k] ELSE Rebuilt(Q)[k]) \in Loc \cup {None}
    BY <1>4, <1>5
  <2> QED
    BY <1>2, <2>1
<1>8. ASSUME NEW h \in expiries' PROVE h \in Nat \X Keys \X Nat /\ h[1] # 0
  <2>1. CASE \E i \in Q : /\ h = <<backup[i].exp, backup[i].key, i>>
                          /\ backup[i].exp # 0
    BY <1>6, <2>1 DEF Record
  <2>2. CASE \E k \in M : h = <<last[k].exp, k, 0>> /\ last[k] # None /\ last[k].exp # 0
    BY <1>3, <1>4, <2>2 DEF Loc
  <2> QED
    BY <1>2, <1>8, <2>1, <2>2
<1>9. ASSUME NEW k \in Keys, index'[k] # None, index'[k].exp # 0
      PROVE  \E h \in expiries' : h[1] = index'[k].exp /\ h[2] = k
  <2>1. CASE k \in M
    <3>1. index'[k] = last[k]
      BY <1>2, <2>1
    <3>2. <<last[k].exp, k, 0>> \in expiries'
      BY <1>2, <1>9, <2>1, <3>1
    <3> QED
      BY <3>1, <3>2
  <2>2. CASE k \notin M
    <3>1. index'[k] = Rebuilt(Q)[k]
      BY <1>2, <2>2
    <3>2. PICK i \in Q : /\ backup[i].op = "set" /\ backup[i].key = k
                         /\ ~Expired(backup[i].exp)
                         /\ index'[k] = [off |-> backup[i].off, exp |-> backup[i].exp]
      BY <1>9, <3>1, RebuiltFrom
    <3>3. <<backup[i].exp, backup[i].key, i>> \in expiries'
      BY <1>2, <1>9, <3>2
    <3> QED
      BY <3>2, <3>3
  <2> QED
    BY <2>1, <2>2
<1> QED
  BY <1>7, <1>8, <1>9

\* With no torn record in the journal the replay applies records as written.
LEMMA StartWhole ==
    ASSUME DiskTypeOK, start, \A i \in 1..Len(backup) : backup[i].op # "torn"
    PROVE  \E Q \in Readable : index' = Rebuilt(Q)
<1>1. PICK Q \in Readable, M \in MangledKeys : \E last \in MangledLast(M) :
         index' = [k \in Keys |-> IF k \in M THEN last[k] ELSE Rebuilt(Q)[k]]
  BY DEF start
<1>2. \A i \in 1..(Len(backup) - 1) : i \in 1..Len(backup)
  BY LenProperties DEF DiskTypeOK
<1>3. M = {}
  BY <1>2 DEF MangledKeys
<1>4. index' = [k \in Keys |-> Rebuilt(Q)[k]]
  BY <1>1, <1>3
<1>5. Rebuilt(Q) = [k \in Keys |-> Rebuilt(Q)[k]]
  BY DEF Rebuilt
<1> QED
  BY <1>4, <1>5
=============================================================================
