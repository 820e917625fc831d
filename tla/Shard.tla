-------------------------------- MODULE Shard --------------------------------
(***************************************************************************)
(* The shard's event loop (src/src/shards/state.rs) over its Worker, the   *)
(* clock, crashes and restarts.                                            *)
(*                                                                         *)
(* The loop handles a batch (each operation, its reply at once, then       *)
(* flush_os and evict_to_budget) or a timer tick (fsync, then expire_due). *)
(* Nothing else of the shard runs in between, but the process can die      *)
(* anywhere, so the steps at which the two files differ are separate.      *)
(***************************************************************************)
EXTENDS Worker

CONSTANTS
    Unknown,     \* history: nothing is known of a key
    TTLs,        \* the ttl_ms clients pass to SETEX
    MaxWrites,   \* bound on the number of SET, SETEX and DEL, for TLC
    MaxTime,     \* bound on the clock
    MaxCrashes   \* bound on the number of crashes

\* What a key holds: a value, None if it cannot be read, and an expiry.
Entry == [val: Cell \cup {None}, exp: Nat]

ASSUME ShardAssumption ==
    /\ None \notin Entry
    /\ TTLs \subseteq Nat
    /\ MaxWrites \in Nat /\ MaxTime \in Nat /\ MaxCrashes \in Nat

VARIABLES
    pc,        \* where the event loop is
    crashes,   \* number of crashes so far
    writes,    \* number of SET, SETEX and DEL so far
    written,   \* history: every <<key, value, expiry>> a client has set
    synced     \* history: what each key held at the last fsync, Unknown once
               \* it has been written or deleted since

vars == <<diskVars, ramVars, now, reply, pc, crashes, writes, written, synced>>

historyVars == <<written, synced>>

\* "down": no process.       "idle": waiting in select!.
\* "batch": applying operations.
\* "flush": flush_os has flushed cool.log and not yet backup.log.
\* "fsync": fsync has synced cool.log and not yet backup.log.
Labels == {"down", "idle", "batch", "flush", "fsync"}

\* What a key holds according to the index and cool.log.
Stored(k) ==
    IF index[k] = None THEN None ELSE [val |-> read_at(index[k].off), exp |-> index[k].exp]

TypeOK ==
    /\ WorkerTypeOK
    /\ reply \in [op: {"none", "set", "setex", "get", "del"},
                  key: Keys \cup {None}, res: Cell \cup {None, "1", "0"}]
    /\ pc \in Labels
    /\ crashes \in Nat /\ writes \in Nat
    /\ written \subseteq Keys \X Values \X Nat
    /\ synced \in [Keys -> Entry \cup {None, Unknown}]

Init ==
    /\ DiskInit
    /\ index = [k \in Keys |-> None] /\ cache = EmptyCache /\ expiries = {}
    /\ now = 1 /\ reply = NoReply /\ pc = "down" /\ crashes = 0 /\ writes = 0
    /\ written = {} /\ synced = [k \in Keys |-> Unknown]

-----------------------------------------------------------------------------
Silent == reply' = NoReply

\* A batch is one or more operations; the loop picks it up when idle.
InBatch == pc \in {"idle", "batch"} /\ pc' = "batch"

Bounded == writes < MaxWrites /\ writes' = writes + 1

Touched(k) == synced' = [synced EXCEPT ![k] = Unknown]

Set(k, v) ==
    /\ InBatch /\ Bounded
    /\ set(k, v)
    /\ written' = written \cup {<<k, v, 0>>} /\ Touched(k)
    /\ UNCHANGED <<now, crashes>>

SetEx(k, v, ttl) ==
    /\ InBatch /\ Bounded
    /\ set_ex(k, v, ttl)
    /\ written' = written \cup {<<k, v, now + ttl>>} /\ Touched(k)
    /\ UNCHANGED <<now, crashes>>

Del(k) ==
    /\ InBatch /\ Bounded
    /\ delete(k)
    /\ IF index[k] = None THEN UNCHANGED synced ELSE Touched(k)
    /\ UNCHANGED <<now, crashes, written>>

Get(k) ==
    /\ InBatch
    /\ get(k)
    /\ UNCHANGED <<writes, now, crashes, historyVars>>

\* Mutant: flush_os writes the journal first.
FlushCool_swapped ==
    /\ pc = "batch" /\ pc' = "flush"
    /\ flush_backup
    /\ Silent
    /\ UNCHANGED <<writes, ramVars, now, crashes, historyVars>>

\* flush_os after the last operation of the batch: cool.log first, then
\* backup.log.  An error skips what is left of it.
FlushCool ==
    /\ pc = "batch" /\ pc' = "flush"
    /\ flush_cool
    /\ Silent
    /\ UNCHANGED <<writes, ramVars, now, crashes, historyVars>>

FlushBackup ==
    /\ pc = "flush" /\ pc' = "idle"
    /\ flush_backup \/ flush_backup_fails
    /\ cache' = evict_to_budget(cache)
    /\ Silent
    /\ UNCHANGED <<writes, index, expiries, now, crashes, historyVars>>

FlushFails ==
    /\ pc = "batch" /\ pc' = "idle"
    /\ flush_cool_fails
    /\ cache' = evict_to_budget(cache)
    /\ Silent
    /\ UNCHANGED <<writes, index, expiries, now, crashes, historyVars>>

\* The timer branch: fsync (cool.log first, then backup.log), expire_due.
TickCool ==
    /\ pc = "idle" /\ pc' = "fsync"
    /\ sync_cool
    /\ Silent
    /\ UNCHANGED <<writes, ramVars, now, crashes, historyVars>>

\* History: an append that failed has left the files behind the index.  The
\* value cannot be read, or a DEL that was answered is not in the journal.
Unjournaled(k) ==
    IF index[k] = None THEN Rebuilt(Whole)[k] # None ELSE read_at(index[k].off) = None

TickBackup ==
    /\ pc = "fsync" /\ pc' = "idle"
    /\ sync_backup
    /\ expire_due
    /\ synced' = [k \in Keys |-> IF Unjournaled(k) THEN Unknown ELSE Stored(k)]
    /\ Silent
    /\ UNCHANGED <<writes, now, crashes, written>>

TickFails ==
    /\ \/ pc = "idle" /\ flush_cool_fails
       \/ pc = "fsync" /\ flush_backup_fails
    /\ pc' = "idle"
    /\ expire_due
    /\ Silent
    /\ UNCHANGED <<writes, now, crashes, historyVars>>

Advance ==
    /\ now < MaxTime
    /\ now' = now + 1
    /\ Silent
    /\ UNCHANGED <<writes, diskVars, ramVars, pc, crashes, historyVars>>

\* The process is killed, or the machine loses power: RAM is gone.
Crash(kind) ==
    /\ pc # "down" /\ crashes < MaxCrashes
    /\ lose_unwritten(kind)
    /\ pc' = "down" /\ crashes' = crashes + 1
    /\ index' = [k \in Keys |-> None] /\ cache' = EmptyCache /\ expiries' = {}
    /\ Silent
    /\ UNCHANGED <<writes, now, historyVars>>

Start ==
    /\ pc = "down" /\ pc' = "idle"
    /\ start
    /\ Silent
    /\ UNCHANGED <<writes, now, crashes, historyVars>>

CrashKinds == {"kill"} \cup (Faults \cap {"power"})

Next ==
    \/ \E k \in Keys, v \in Values : Set(k, v)
    \/ \E k \in Keys, v \in Values, ttl \in TTLs : SetEx(k, v, ttl)
    \/ \E k \in Keys : Del(k)
    \/ \E k \in Keys : Get(k)
    \/ FlushCool \/ FlushBackup \/ FlushFails
    \/ TickCool \/ TickBackup \/ TickFails
    \/ Advance
    \/ \E kind \in CrashKinds : Crash(kind)
    \/ Start

Spec == Init /\ [][Next]_vars

-----------------------------------------------------------------------------
(***************************************************************************)
(* What the cache, the index and the heap say of each other, under every   *)
(* fault the shard survives.                                               *)
(***************************************************************************)

\* A cached value is the one the index would have read from cool.log, and a
\* cached key is indexed: eviction (worker.rs, evict_to_budget) loses nothing
\* and GET answers the same hot and cold.  Needs appends not to fail.
CacheCoherent ==
    \A k \in Cached(cache) :
        index[k] # None /\ cache.val[k] = read_at(index[k].off)

\* The same with every fault: what the cache says can differ from the file only
\* while cool_len does, that is from an append that failed half way to the
\* next restart (disk.rs, append_set: cool_len is advanced after the writes).
CoherentWhileCounted == cool_len = Len(cool) => CacheCoherent

\* cache_bytes is exactly the size of what is cached, so that no
\* saturating_sub of worker.rs ever saturates and the count never drifts.
CacheBytesExact == cache.bytes = SizeOf(cache, Keys)

\* After every operation the cache is below its high-water mark, or was just
\* brought to its low-water mark (worker.rs, evict_to_budget).
BudgetRespected == Budget # 0 => cache.bytes < High \/ cache.bytes <= Low

\* Every key with an expiry has its live entry in the heap, whatever was
\* overwritten, popped or replayed: the sweep will meet it (worker.rs,
\* expire_due checks the index's expiry before it drops a key).
ExpiryTracked ==
    \A k \in Keys : index[k] # None /\ index[k].exp # 0 =>
        \E h \in expiries : h[1] = index[k].exp /\ h[2] = k

(***************************************************************************)
(* What the two files say of each other, and what comes back from them.    *)
(***************************************************************************)

\* Every value the journal in the file points at is in the file too: flush and
\* fsync write cool.log before backup.log (disk.rs), so a kill between any two
\* operations or flushes leaves no dangling offset.  A batch that outgrows a
\* BufWriter breaks the order (run dangling); then this is not claimed.
JournalBehindCool ==
    \A i \in 1..backupFile : backup[i].op = "set" => backup[i].off <= coolFile

\* What the index says a key holds was written for that key with that expiry:
\* no restart makes an offset point at another key's bytes.  Needs that no
\* BufWriter spilled inside a batch and that appends do not fail.
NeverInvents ==
    \A k \in Keys : index[k] # None =>
        <<k, read_at(index[k].off), index[k].exp>> \in written

\* A GET that answers a value answers one some client wrote for that key, and
\* which has not expired (PROTOCOL.md: a logically-expired key is never served).
\* A batch that spills and is killed breaks it (run dangling), and so does an
\* append that fails.
ServedIsLive ==
    reply.op = "get" /\ reply.res # None =>
        \E w \in written : w[1] = reply.key /\ w[2] = reply.res /\ ~Expired(w[3])

Torn == \E i \in 1..Len(backup) : backup[i].op = "torn"

HasExpiredRecord(k) ==
    \E i \in 1..Len(backup) : backup[i].key = k /\ Expired(backup[i].exp)

Holds(k, entry) == IF entry = None THEN index[k] = None ELSE Stored(k) = entry

\* What a key held at the last fsync it still holds, through any crash, unless
\* a torn record lies in the journal or the key has an expired record there.
SyncedSurvives ==
    pc # "down" /\ ~Torn =>
        \A k \in Keys : synced[k] # Unknown /\ ~HasExpiredRecord(k) => Holds(k, synced[k])

\* The same with a torn record in the journal (disk.rs: fsync makes everything
\* durable; a torn trailing record is treated as EOF, everything before it is
\* recovered).
SyncedSurvivesTear ==
    pc # "down" =>
        \A k \in Keys : synced[k] # Unknown /\ ~HasExpiredRecord(k) => Holds(k, synced[k])

\* Once the value a key held at an fsync has expired, and nothing was written
\* to the key since, the key holds nothing else (worker.rs: expired records
\* are skipped on replay, so no disk delete is needed).
ExpiredStaysGone ==
    pc # "down" =>
        \A k \in Keys : synced[k] \notin {Unknown, None} /\ Expired(synced[k].exp) =>
            index[k] = None \/ Stored(k) = synced[k]

-----------------------------------------------------------------------------
(***************************************************************************)
(* Liveness.  A batch is finite and the loop's steps do not block, so each *)
(* follows; select! picks among its ready branches at random, so a timer   *)
(* that is due again and again is served even when batches keep coming.    *)
(* Nothing is assumed of the clients, of crashes or of a restart.          *)
(***************************************************************************)
Fairness ==
    /\ WF_vars(FlushCool) /\ WF_vars(FlushBackup)
    /\ SF_vars(TickCool) /\ WF_vars(TickBackup)

FairSpec == Spec /\ Fairness

\* A key that has expired is dropped from the index even if nobody touches it,
\* one sweep after the other (state.rs: "this just reclaims memory from keys
\* nobody touches").
ExpiredReclaimed ==
    \A k \in Keys :
        (index[k] # None /\ Expired(index[k].exp))
            ~> (index[k] = None \/ ~Expired(index[k].exp))
=============================================================================
