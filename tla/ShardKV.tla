------------------------------ MODULE ShardKV ------------------------------
(***************************************************************************)
(* The shard implements KVStore, as long as nothing worse happens to it    *)
(* than being killed.                                                      *)
(***************************************************************************)
EXTENDS Shard

\* What the last record of k among the first n of the journal says it holds.
RecordsOf(n, k) == {i \in 1..n : backup[i].key = k}

HeldAfter(n) ==
    [k \in Keys |->
        IF RecordsOf(n, k) = {} THEN None
        ELSE LET r == backup[Max(RecordsOf(n, k))]
             IN  IF r.op = "set" THEN [val |-> read_at(r.off), exp |-> r.exp] ELSE None]

\* What the index holds is the store; the journal holds the latest writes, and
\* the part of it in the file the committed ones.
KV == INSTANCE KVStore WITH
    up <- pc # "down",
    store <- [k \in Keys |-> Stored(k)],
    latest <- HeldAfter(Len(backup)),
    committed <- HeldAfter(backupFile)

\* Every behaviour of the event loop, its files, its cache and its restarts is
\* one KVStore allows: GET answers the latest write whether it is cached,
\* evicted or replayed; a flushed write survives a kill; an unflushed one is
\* gone altogether; and what eviction, flushing and sweeping do is invisible.
ImplementsKVStore == KV!Spec
=============================================================================
