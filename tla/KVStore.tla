------------------------------ MODULE KVStore ------------------------------
(***************************************************************************)
(* What one shard promises its clients, with no files, cache or heap: a    *)
(* map from keys to values with expiries, whose writes become permanent    *)
(* only when they are committed.                                           *)
(*                                                                         *)
(* An expired entry is never answered by GET, but it stays in the map      *)
(* until something drops it, so a DEL may still find it.  When the process *)
(* dies the uncommitted writes are gone.  When it comes back, a key whose  *)
(* committed value has not expired holds exactly that value and a deleted  *)
(* key holds none; for a key whose committed value has expired, any older  *)
(* value that was written for the key may be back.                         *)
(***************************************************************************)
EXTENDS Integers

CONSTANTS Keys, Values, None, TTLs

VARIABLES
    up,         \* the shard's process is running
    store,      \* key -> what it holds
    latest,     \* key -> what the last write or successful DEL left
    committed,  \* latest, as of the last commit
    written,    \* every <<key, value, expiry>> ever set
    now,
    reply       \* the operation of this step and its answer

kvVars == <<up, store, latest, committed, written, now, reply>>

Entry == [val: Values, exp: Nat]

NoReply == [op |-> "none", key |-> None, res |-> None]

Init ==
    /\ up = FALSE
    /\ store = [k \in Keys |-> None]
    /\ latest = store /\ committed = store
    /\ written = {} /\ now = 1 /\ reply = NoReply

Expired(entry) == entry.exp # 0 /\ entry.exp <= now

Answer(op, k, res) == reply' = [op |-> op, key |-> k, res |-> res]

-----------------------------------------------------------------------------
Put(op, k, v, e) ==
    /\ up
    /\ store' = [store EXCEPT ![k] = [val |-> v, exp |-> e]]
    /\ latest' = [latest EXCEPT ![k] = [val |-> v, exp |-> e]]
    /\ written' = written \cup {<<k, v, e>>}
    /\ Answer(op, k, v)
    /\ UNCHANGED <<up, committed, now>>

Del(k) ==
    /\ up
    /\ store' = [store EXCEPT ![k] = None]
    /\ latest' = IF store[k] = None THEN latest ELSE [latest EXCEPT ![k] = None]
    /\ Answer("del", k, IF store[k] # None THEN "1" ELSE "0")
    /\ UNCHANGED <<up, committed, written, now>>

Hit(k) ==
    /\ up /\ store[k] # None /\ ~Expired(store[k])
    /\ Answer("get", k, store[k].val)
    /\ UNCHANGED <<up, store, latest, committed, written, now>>

Miss(k) ==
    /\ up /\ (store[k] # None => Expired(store[k]))
    /\ store' = [store EXCEPT ![k] = None]
    /\ Answer("get", k, None)
    /\ UNCHANGED <<up, latest, committed, written, now>>

\* Writes become permanent, and some expired entries are dropped.
Commit ==
    /\ up
    /\ committed' = latest
    /\ \E gone \in SUBSET {k \in Keys : store[k] # None /\ Expired(store[k])} :
          store' = [k \in Keys |-> IF k \in gone THEN None ELSE store[k]]
    /\ reply' = NoReply
    /\ UNCHANGED <<up, latest, written, now>>

\* The answer has been sent.
Sent ==
    /\ reply' = NoReply
    /\ UNCHANGED <<up, store, latest, committed, written, now>>

Advance ==
    /\ now' = now + 1
    /\ reply' = NoReply
    /\ UNCHANGED <<up, store, latest, committed, written>>

Crash ==
    /\ up /\ up' = FALSE
    /\ store' = [k \in Keys |-> None]
    /\ latest' = committed
    /\ reply' = NoReply
    /\ UNCHANGED <<committed, written, now>>

\* What key k may hold after a restart.
Recoverable(k) ==
    IF committed[k] = None \/ ~Expired(committed[k]) THEN {committed[k]}
    ELSE {None} \cup {entry \in {[val |-> w[2], exp |-> w[3]] :
                                  w \in {x \in written : x[1] = k}} : ~Expired(entry)}

Recover ==
    /\ ~up /\ up' = TRUE
    /\ store' \in [Keys -> UNION {Recoverable(k) : k \in Keys}]
    /\ \A k \in Keys : store'[k] \in Recoverable(k)
    /\ reply' = NoReply
    /\ UNCHANGED <<latest, committed, written, now>>

Next ==
    \/ \E k \in Keys, v \in Values : Put("set", k, v, 0)
    \/ \E k \in Keys, v \in Values, ttl \in TTLs : Put("setex", k, v, now + ttl)
    \/ \E k \in Keys : Del(k) \/ Hit(k) \/ Miss(k)
    \/ Commit \/ Sent \/ Advance \/ Crash \/ Recover

Spec == Init /\ [][Next]_kvVars
=============================================================================
