# dataset-local-caching in TLA+

A verification project for the dataset-local cache server and its clients:
TLA+ models of the code, TLC runs on small instances, and TLAPS proofs for every
instance. Paths below are relative to the repository.

## The system

The server keeps a key/value map in shards. Each shard is one task that owns an
index in RAM, a bounded cache of hot values, a heap of expiries and two
append-only files. Connections are tasks that decode frames, bucket the
operations by shard and hand each shard a batch over an unbounded channel; the
shard sends each reply straight to the connection's writer task. Clients
multiplex calls over one connection by a request number.

| component | state | operations | talks to |
|---|---|---|---|
| Disk layer, `src/shards/disk.rs` | `cool.log` (values), `backup.log` (index journal), a BufWriter on each, `cool_len` | `open`, `append_set`, `append_del`, `read_at`, `flush`, `fsync`, `replay_backup` | called by the worker |
| Worker, `src/shards/worker.rs` | `index`, LRU `cache`, `cache_bytes`, heap `expiries` | `start`, `set`, `set_ex`, `get`, `delete`, `expire_due`, `evict_to_budget`, `flush_os`, `fsync` | called by the event loop |
| Shard event loop, `src/shards/state.rs` | its queue, its worker | a batch, or a timer tick | batches from connections, replies to them |
| Rust client, `clients/rust/src/lib.rs` | semaphore, slots and free list, oneshots | `call`, `read_loop` | one connection, many caller tasks |
| Node client, `clients/node/dataset-client.mjs` | pending slots, free list, waiters, the microtask queue | `connect`, `_send`, `_acquire`, `_onData`, `_release`, `_fail`, `close` | one connection |
| Server, `src/server.rs` | per connection: buckets per shard, reply channel, writer task | `start`, `handle_conn`, `plan` | clients and shards |
| Codec and parser, `src/common.rs`, `src/utils.rs` | the bytes not decoded yet | `decode`, `encode`, `parse` | server, clients |
| Routing and bootstrap, `src/hashing.rs`, `src/main.rs` | worker count, a directory per shard | `route_hash`, worker count, credentials | server, shards |
| Tools, `src/bin/bench.rs`, `dataset-cli.rs`, `smoke.rs` | none | load generator, line client | clients |

What is hard here, and what makes each part correct:

* **Files.** Two files written through two buffers, flushed and synced one after
  the other, and a process that can die anywhere. The journal must never point
  at values that are not there; what was synced must be found again.
* **Worker.** Four views of the same key (index, cache, heap, log) changed by
  six operations. They must agree, the byte count must not drift, stale heap
  entries must do no harm, and nothing expired may be answered.
* **Event loop.** Replies go out before the flush; sweeps are bounded and
  compete with batches. Seen from outside, a shard must be a map.
* **Rust client.** Permits and slots are counted separately, calls may be
  dropped at any await, inside the write of a frame too, and the connection may
  close at any time. No response may reach the wrong call, and no call may wait
  forever.
* **Node client.** One thread, but a call that waited for its slot goes on in a
  microtask, after whatever else happened in the job that woke it. No slot may
  have two holders, and every promise should settle.
* **Server.** A reader, a writer and the shards share a reply channel by clones
  of its sender; each may end first. Every request that was planned must be
  answered once, requests for one key must stay in order, and a connection that
  ends must end both its tasks.
* **Bytes.** Frames are cut anywhere, lengths are 16 bits wide, and a dropped
  call may leave half a frame. What was sent whole must be decoded unchanged.
* **Routing.** A key's shard depends on the worker count, which a restart may
  change.

`PROJECT.json` lists the hazards one by one, with the line where each bites.

## The modules

| module | models |
|---|---|
| `Disk` | `disk.rs`, the BufWriters, what a crash leaves of the files |
| `Worker` (extends `Disk`) | `worker.rs` |
| `Shard` (extends `Worker`) | `state.rs`, the clock, crashes and restarts; the properties |
| `KVStore` | the abstract map a shard promises, written without files, cache or heap |
| `ShardKV` (extends `Shard`) | the refinement mapping from `Shard` to `KVStore` |
| `MCShard` | small instances of `ShardKV` for TLC |
| `RustClient`, `MCRustClient` | `lib.rs` of the Rust client, and its instances |
| `NodeClient` | the Node client, checked as it is |
| `Server`, `MCServer` | `server.rs`, `hashing.rs`, `main.rs`, composed with the queues of the shards; its instances |
| `Wire`, `MCWire` | the bytes of a connection: `common.rs`, `utils.rs`, what the Rust client writes; its instance |
| `WorkerLemmas`, `ShardProofs` | proofs about a shard |
| `ShardKVProofs` | proofs about recovery and the refinement of `KVStore` |
| `RustClientProofs`, `NodeClientProofs` | proofs about the clients |
| `ServerProofs`, `ServerReadProofs`, `WireProofs` | proofs about the server and the bytes |

### Disk

A file is one sequence, `cool` or `backup`: everything handed to its BufWriter.
A prefix of it is in the file (`coolFile`, `backupFile`) and a prefix of that is
durable (`coolSync`, `backupSync`).

* `cool.log` is a sequence of cells: a SET is a header cell and a value cell, a
  DEL one cell. Nothing in the program parses `cool.log`, so header cells are
  just `Junk`, as is a value cut short. An offset is a position of a cell and
  stands for `val_off .. val_off + vlen`. `cool_len` is kept apart from
  `Len(cool)`, because the code computes it and a failed append makes the two
  differ. Values are not empty.
* `backup.log` is a sequence of records with the fields replay uses. A record
  that was only partly written has `op = "torn"`.
* `Faults` says which failures happen. A kill may always happen; it loses the
  buffers. `"spill"`: a BufWriter that is full writes out part of a batch.
  `"power"`: a crash also loses any suffix of the unsynced part of each file,
  independently. `"io"`: any write, flush or read may return an error after a
  part of it was done, at each of the code's `?`.
* Replay stops at the first torn record. `open` appends behind it without
  truncating, and from then on the parser reads records out of step: which of
  the later ones it recognises depends on their bytes, so `Readable` allows any
  of them. `op` bytes that are neither SET nor DEL, which also stop the parser,
  are among these cases. Out of step it may also read records nobody wrote; that
  is in `Worker`'s `start`.

### Worker

Each operation is one action. The shard is single-threaded and no operation
awaits, so nothing of the shard runs in between. `write` and `delete` have a
disjunct for an append that fails; `get` is split at its returns into
`get_miss`, `get_expired`, `get_hot` and `get_cold`. The LRU cache is a map and
a relation `older`; `evict_to_budget` is written in closed form: an entry goes
when, with everything older gone, the count is still above the low-water mark.
The heap is a set of `<<exp, key, pos>>`: `pos` tells equal heap entries apart.
`expire_due` pops `SweepBudget` due entries in order of expiry (256 in the
code), ties in any order. `start` gives every key the location of its last
applied record, where expired SETs are not applied. If the replay got out of
step (`MangledKeys`), any key may instead end with a location out of
`MangledLocs`, or with none: the last record the replay took for one of its own
was put together from pieces of others. The heap gets an entry for it as for any
other; what such a record adds for keys that clients do not use is left out.

### Shard

`pc` is the event loop: `idle`, `batch`, between the two files of a flush
(`flush`) or an fsync (`fsync`), or `down`. `flush` and `fsync` are two steps
because a crash between them is seen from outside; `evict_to_budget` and
`expire_due` belong to the second. `now` only advances. `reply` holds the
operation of the last step and its answer. `written` (everything ever set) and
`synced` (what a key held at the last fsync, `Unknown` once it is touched) are
history variables: no action reads them. Ending the loop when all senders are
gone is left out: the server holds them as long as it runs.

### KVStore

A map with expiries; writes become permanent at `Commit`; a crash loses the
others. An expired entry is never answered by GET, but DEL may still find it.
After a restart a key holds exactly its committed value, except that a key whose
committed value has expired may hold any older value written for it: this is
what the code does (finding `shadow`), stated where a client can read it.
`ShardKV` maps the index to `store`, the journal to `latest`, and the journal in
the file to `committed`.

### RustClient

A call is its caller and its number, and the body of a response is the call it
answers, which is all that matching needs. `wire` holds the requests whose
response has not been read; the server answers in any order. Each section under
the slots mutex is one step; a call has a step for each of its awaits
(`acquire`, `alloc`, `write`, `await`), and its future can be dropped at each
one (`Cancel`). `Init` is the client after `connect`.

What the server makes of damaged frames is `Wire`'s matter; here `framing` says
how the next frame reaches it. It is `whole` until a future is dropped inside
`write_all` (`Cut`) or a payload is longer than its length field says
(`WriteTooLong`). The frame behind a cut one is swallowed; from then on, and
behind one that was too long, the server is `astray`: it may still find a frame
whole or swallow it, it may answer bytes that are no frame of a call, and it may
close the connection. `read_loop` hands such an answer to whatever call has its
sender in the slot with that number (`ReceiveStray`); a number that is no slot
makes it panic before the slots change (`ReaderPanics`). `Damage` says which of
this an instance has and `strays` counts those answers.

### NodeClient

`Calls` are calls made once each. Their promise is `new`, `waits`, `resolved` or
`rejected`. `SendNow` and `SendWaits` are the synchronous part of `_send`; the
rest of it, after the `await` of `_acquire`, is `Resume`, which the microtask
queue `micro` runs in order. A chunk with several frames is one job: `handling`
is set from its first frame to its end, and no microtask runs in between.
Events are emitted when the microtask queue is empty. `OnFrame` is the loop body
of `_onData`, `fail` is `_fail`. An oversized payload makes `writeUInt16BE`
throw after the slot was entered in `pending`, so the slot leaks. The socket and
the server are external: a write to a socket that was shut destroys it with an
error, and a destroyed socket emits `close` last.

### Server

A frame is known by its position in the traffic of its connection, and so is its
`req_id`, which the server only echoes. `Traffic` gives the sequences of frames
a client may send: handshakes that are accepted or refused, requests, requests
that do not parse, frames of other kinds, bytes that do not decode.

* `stage` is where `handle_conn` is. The reader takes a chunk (`ReadChunk`),
  plans it frame by frame (`PlanOp`, `PlanImmediate`), then dispatches one batch
  per shard (`Dispatch`). It returns early from inside a chunk (`PlanFails`), and
  what it had bucketed is dropped with it; `groups` keeps it so that the
  properties can say so. An error of the socket (`ReadFails`) comes alone or
  inside a chunk, with the same effect. Otherwise it ends with the stream, drops its reply
  sender (`EndOfStream`) and waits for the writer (`Drained`).
* The writer task sends replies until the socket breaks (`WriterBreaks`) or no
  sender is left (`WriterEnds`): `Senders` counts the reader's and the one in
  each batch.
* A shard applies the operations of a batch one by one, so that other tasks run
  in between, and replies to each. Its store maps keys to the request that wrote
  them; files, cache and expiry heap are `Shard`'s. `journal` keeps of a key the
  records a replay could still bring back: the last SET and the SETEXs after it.
  `Expire` drops a value from the store and leaves its record; `expired` holds
  the requests whose time is over. `Stop` takes the journal back to the end of
  the last batch, which is what `Shard` and `KVStore` show of a process killed
  without spills.
* `Start(n)` rounds the count up to a power of two and replays the journals:
  records that have expired, in the meantime too, are skipped, so that an older
  value can come back. Directories of shards that a start does not use keep their
  content. `Stop` is a kill, or an error of `accept`, which `main` returns: the
  runtime then drops every task where it stands.

Not reachable in the code, and left out: the return when a shard's channel is
closed (the server holds the senders), and `RESP_WORKER_GONE`, which nothing
uses.

### Wire

One connection as a stream of cells: a byte, or a whole integer field. Two-byte
lengths are taken `% LenMod`, so a length that does not fit wraps as the casts
`as u16` do. The client writes whole frames (`Call`) or, when its future is
dropped inside `write_all`, the first part of one, cut at any cell of header or
payload (`Cancel`). The server receives
pieces of any size and applies `decode` to what it has buffered. `intact` is a
history variable: how many requests precede the first damage, none when the
credentials of the handshake are already too long for its length. Frames of kinds
other than requests are decoded and answered without effect on what is checked.
`MAX_FRAME_SIZE` is `LenMod` as in the code (64 KiB), so its check never fires.

## Runs

`tlc -workers 2 -config <cfg> <module>`; `kill`, `faults`, `server` and `wire` take two
to three minutes, `mux` about one, the others less.

| run | configuration | shows |
|---|---|---|
| `kill` | 2 keys, 2 values, budget 10, 3 writes, 1 kill | `Shard` implements `KVStore`; journal behind values; only written, live values are served |
| `faults` | every fault, entries of 3 and 5 bytes, budget 10, 2 writes, 2 crashes | types, byte count, budget and heap under failing I/O; evicted values can be read back while `cool_len` is right; synced data survives |
| `reclaim` | fair, 3 writes, 3 clock values, sweep of 1 | untouched expired keys are reclaimed |
| `mux` | fair, 3 tasks, 2 slots, 3 calls, cancel and close, frames cut and too long, 1 stray answer | responses match and slots are exclusive until a stray answer is read; permits balanced; a permit guarantees a slot and calls return while `read_loop` runs and frames are whole; calls outstanding at the close return behind damage too |
| `node` | fair, 5 calls (1 oversized), 2 slots, connection lost or closed | one holder per slot, responses match; calls, outstanding calls and `connect()` settle |
| `server` | fair, 2 connections with up to 4 frames (GET, SET, SETEX and DEL), 2 keys on 2 of 4 shards, chunks of 2, 2 starts with 3 or 4 workers | one reply per request, handshake first, reads follow writes, keys with their shard; requests are answered, connections end |
| `wire` | fair, 2 calls, lengths modulo 8, values of 3 and 6 cells, names of 0, 1 and 4, authentication with any of them or off | requests decoded as sent, and all of them; values fit responses; credentials exact |
| `shadow`, `dangling`, `torn`, `hang`, `resize` | one instance each | the findings below |

Bounds. `MaxWrites` counts SET, SETEX and DEL, `MaxTime` the clock, `MaxCrashes`
the crashes, `MaxStarts` the starts of the server, `MaxCalls` the calls,
`MaxStrays` the answers to bytes that are no frame; GETs, flushes, ticks and
restarts of a shard are not bounded. Three writes are an overwritten, an
expiring and a deleted version of a key, or two keys and an overwrite; two
crashes are a crash after a recovery. Two large entries overfill the budget and
one does not, so the cache drops one and keeps the other; two values tell an old
one from a new one. A sweep that pops one entry with two in the heap behaves
like one that pops 256 with 257. `MangledLocs` is one location, that of the
first value with another expiry: a mangled record can give it to either key, or
take a key away. Three calls on two slots use
one slot twice while the other is out; with one stray answer they are a damaged
frame, a swallowed one and one more, whose slot the stray frees; five calls on two slots of the Node client let one slot leak while
three calls share the other. A chunk of two frames in a stream of three or four
ends in the middle of a client's requests, and carries requests for one shard,
for two, or an error behind a request. Three workers are rounded, four are not;
both starts then have the same shards, and `resize` uses counts that do not.
Modulo 8 a SETEX with a value of three cells is the longest that fits, one of six
does not, and the cells of the values look like frames and commands to a decoder
that is out of step; so do the names, two long ones of which do not fit the
handshake. Keys of `Shard` are symmetric; values are not, since their lengths
differ. Deadlock checking is off where the system may stop for good: `mux`
and `node` (calls made after the connection is lost wait forever),
`server` (a process that has ended its starts) and the violated runs of both.

Fairness. In `Shard`, the steps of a flush and of a tick follow each other
without blocking (weak fairness). `select!` picks a ready branch at random, and
the timer becomes ready every second, so a tick that is possible again and again
happens even if batches never stop (strong fairness on `TickCool`). Nothing is
assumed of clients, crashes or restarts. In `RustClient`, a task that can run is
polled, and what the server has read it answers (weak fairness on `ReadLoop` and
on each task's steps); no fairness on starting, cancelling or closing. In
`NodeClient`, the event loop runs, and the server answers or ends the connection.
In `Server`, ready tasks are polled: weak fairness on each reader, writer and
shard; it covers the writer's send because a client either reads its replies or
breaks the connection. Nothing is assumed of what clients send, of ends, kills
or starts. In `Wire`, what was written is delivered and the reader is polled.

### What the violated runs show

* `shadow`: `SET k a`, `SETEX k b`, b expires: a miss. After a restart `k` is
  `a` again, since replay skips b's record as if it had never been written
  (`worker.rs:70`). The comment there says no disk delete is needed.
* `dangling`: a batch larger than a buffer, killed half way: the journal points
  past the end of `cool.log` (`disk.rs:59`), later appends fill the place, and
  GET answers bytes of another record.
* `torn`: after a torn record, new journal records are appended behind it
  (`disk.rs:61`). They are fsynced, and the next replay stops before them.
* `hang`: a call that takes its slot after `read_loop` has dropped the senders
  waits forever (`lib.rs:135`).
* `resize`: a key set with one worker is held by shard 0; after a start with two,
  its requests go to shard 1, which does not have it (`main.rs:27`).

What the properties that hold leave out is part of the result. Where the model
has the steps in question, the code goes wrong there as described:

* `JournalBehindCool`, `NeverInvents`, `ServedIsLive` and `ImplementsKVStore` are
  checked for kills at any point of the event loop, between the two files of a
  flush too, of a shard whose batches fit its buffers and whose writes do not
  fail. `dangling` shows what happens when batches spill.
* `CoherentWhileCounted` holds while `cool_len` is the length of the log. When a
  `write_all` fails in the middle of an append (`disk.rs:83`), the bytes before it
  stay and `cool_len`, which is advanced last (`disk.rs:88`), does not count them:
  a value appended later and evicted is read back from the wrong place.
* `NoCrossTalk` and `SlotExclusive` of the Rust client hold until `read_loop` has
  read an answer to bytes that are no frame of a call, that is for every call
  dropped between two frames, and behind a cut frame until the server answers
  pieces of one. From then on such an answer goes to whatever call has its sender
  in that slot (`lib.rs:170`), and a slot can be freed twice. `CallsReturnOpen` holds until the connection is lost or a frame
  is damaged: behind a cut frame a call can wait for as long as the connection
  lives. `OutstandingReturn` holds behind damage too, unless `read_loop` panics on
  a number that is no slot: then it no longer drops the senders when the
  connection closes, and the calls that wait for their responses wait forever.
* `PermitGuaranteesSlotOpen` holds until `read_loop` has dropped the senders, and
  while no dropped call leaves its slot behind. After that permits return and
  slots do not: a call made after the connection was lost acquires a permit,
  finds no free slot and panics (`lib.rs:134`), although the comment on the
  semaphore says that a permit guarantees a slot (`lib.rs:40`).
* `CallsSettle` and `OutstandingSettle` except a lost connection for calls that
  wait for a slot or are made later, `close()` for outstanding ones, and slots
  leaked by oversized payloads: in the Node client those promises stay pending.
* `ReadsFollowWrites` speaks of the writes of the reader's own connection. A miss
  after one's own SET can be another connection's work: its DEL, or a SETEX that
  has replaced the value and expired.
* `OneReplyPerRequest` and `RequestsAnswered` count what a reader had bucketed
  when a frame failed to decode as not answered (`server.rs:156`).
* `DecodedAsSent` says nothing behind a frame that was cut off by a dropped call
  (`lib.rs:146`) or was too long (`lib.rs:142`): the server then parses the
  stream out of step, with the effects `RustClient` has. `ValuesFitResponses`
  holds there too.

## Proofs

`tlapm <module>.tla`. The assumptions on the constants are `DiskAssumption`,
`WorkerAssumption`, `ShardAssumption`, `RustClientAssumption`,
`DamageAssumption`, `NodeClientAssumption`, `ServerAssumption` and
`WireAssumption`: special values
differ from ordinary ones, there are finitely many keys, callers and connections,
lengths and budgets are naturals, and `MAX_FRAME_SIZE` is at most what the length
field can hold (the code has 64 KiB and 16 bits). Two more are facts of arithmetic
rather than choices, stated as assumptions because their proofs are inductions
over bits: `PowerAssumption` (`next_power_of_two` finds a power) and
`RouteAssumption` (a masked hash is a shard number). TLC evaluates all of them in
every run of their modules.

| theorem | states | for |
|---|---|---|
| `ShardProofs!TypeCorrect` | `TypeOK` | every fault |
| `CountExact` | `CacheBytesExact` | every fault |
| `CacheWithinBudget` | `BudgetRespected` | every fault |
| `HeapTracksIndex` | `ExpiryTracked` | every fault |
| `CacheAgreesWithLog` | `CoherentWhileCounted` | every fault |
| `FsyncIsDurable` | `SyncedSurvives` | every fault |
| `NoDanglingOffset` | `JournalBehindCool` | kills only |
| `IndexHoldsWritten` | `NeverInvents` | kills only |
| `GetAnswersLive` | `ServedIsLive` | kills only |
| `ShardImplementsKVStore` | `ImplementsKVStore` | kills only |
| `RustClientProofs!TypeCorrect` | `TypeOK` | cancel, close, damaged frames |
| `RustClientProofs!ResponsesMatch` | `NoCrossTalk` | cancel, close, damaged frames, until a stray answer |
| `SlotsExclusive` | `SlotExclusive` | cancel, close, damaged frames, until a stray answer |
| `PermitsAlwaysBalanced` | `PermitsBalanced` | cancel, close, damaged frames |
| `PermitMeansSlot` | `PermitGuaranteesSlotOpen` | cancel, close, damaged frames |
| `NodeClientProofs!TypeCorrect` | `TypeOK` | lost connection and `close()` |
| `NodeClientProofs!ResponsesMatch` | `NoCrossTalk` | lost connection and `close()` |
| `SlotsHeldOnce` | `OneHolderPerSlot` | lost connection and `close()` |
| `ServerProofs!TypeCorrect` | `TypeOK` | any traffic, kills, restarts |
| `NothingBeforeHandshake` | `HandshakeFirst` | any traffic, kills, restarts |
| `KeysStayHome` | `KeysOwned` | all starts come to one count of shards |
| `RepliesExactlyOnce` | `OneReplyPerRequest` | any traffic, kills, restarts |
| `ReadsSeeOwnWrites` | `ReadsFollowWrites` | any traffic, kills, restarts |
| `WireProofs!TypeCorrect` | `TypeOK` | any cut, cancelled and oversized calls |
| `FramingIsExact` | `DecodedAsSent` | any cut, cancelled and oversized calls |
| `ValuesAlwaysFit` | `ValuesFitResponses` | any cut, cancelled and oversized calls |
| `OnlyTheCredentials` | `AuthExact` | any names |

"Kills only" is sharp: with `"spill"` the run `dangling` breaks `ServedIsLive`.
So is the hypothesis of `KeysStayHome`: the run `resize` breaks `KeysOwned`
without it. Each inductive invariant below was checked by TLC before it was
proved.

How they go:

* **Types** first. `WorkerLemmas` says what each operator keeps: appends, flushes
  and crashes keep the order synced <= in the file <= written; cache operations
  stay in `Cache`; replay yields only locations of records that were read
  (`RebuiltFrom`, which needs that a nonempty set of positions has a maximum,
  `MaxIn`), or mangled ones behind a torn record, and the heap that goes with
  them (`StartTracks`, `StartWhole`).
* **Heap.** `ExpiryTracked` is inductive by itself: `expire_due` drops a key
  together with its live entry (`ExpireDueKeeps`).
* **Byte count.** `CountInv` says that `cache_bytes` counts the bytes of the
  entries, as the number of elements of a set with one element per byte, that
  recency orders the cached keys, and that the cache is within its budget. The
  order is why eviction gets to the low-water mark: the entries it drops are a
  prefix in recency, and dropping everything would be enough.
* **Cache.** `CoherentWhileCounted` is not inductive: a write stores the location
  `cool_len + 2`, so one must know that if `cool_len` is right after a step it was
  right before. `CacheInv` adds that `cool_len` never exceeds the log while the
  process lives, and that the cache is empty while it does not; every append,
  whether it works or fails, lets the log grow at least as much as `cool_len`
  (`SetDrifts`, `DelDrifts`). Existing locations are safe because the log only
  grows while the cache is not empty (`ReadStable`). Where no append fails,
  `cool_len` is always right (`NextLength`), which the next proof uses.
* **Journal.** `KillInv` adds that every journal record and every index entry
  points at a cell holding what was written for its key with its expiry, and
  that all of `cool.log` is in the file between the two halves of a flush or an
  fsync. The second is why the order of the two flushes matters; with it, what a
  kill keeps of the journal points into what it keeps of the values. `FileInv`
  adds that such a journal has no torn record.
* **Durability.** `DurInv` says, for a key untouched since the last fsync, that
  its last record is in the synced part of the journal, that no record of it is
  behind that part, and that the record's location is in the synced part of
  `cool.log`. Crashes keep both synced parts, and everything else only appends.
* **Refinement.** With `RefInv` (types, coherent cache, right `cool_len`, backed
  journal, untorn files) every step of a shard is a step of `KVStore` or leaves
  its variables alone; the proof has one lemma per action. Replay is the hard
  one: the last applied record of a key is its committed value, or, when that has
  expired, an older one, as `KVStore` allows.
* **Clients.** The invariant relates the places where a slot can be (free list,
  senders, wire, reader): a request on the wire has its own sender, or no sender,
  in its slot, and a slot is on the free list or in use, never both. Cut and
  overlong frames leave no request on the wire, so all this stands until an
  answer comes that belongs to none.
  `PermitMeansSlot` adds that every slot that is out has the sender of a call
  that still holds its permit; the senders are an injection of the slots into the
  permits, so a permit to spare is a slot to spare. In the Node client the places
  are the free list, `pending`, and the microtasks a slot was handed to.
* **Server.** `Inv` says that buckets and batches hold operations of their own
  shard, that what a shard holds was routed to it, and that a connection has been
  greeted or has left no trace anywhere. `RepliesExactlyOnce` needs that a frame
  that was planned is in one of four kinds of place (a bucket, a batch, the reply
  channel, the client) and in no two (`AllKept`), and that a connection with
  anything in flight has a writer (`WriterServes`); every action moves frames
  from one place to the next, and the proof follows the move.
* **Reads.** `ReadInv` adds the order that `ReplyInv` leaves out. The buckets and
  the batches of a shard hold a connection's positions in increasing order, and
  what is bucketed comes after what is batched (`OrderInv`). What waits for a
  shard is, of what a connection planned for it, everything from some position on
  (`PendingRouted`), so what a shard applies is the first that waits
  (`FirstWaiting`). Hence a value of a connection's own in a shard is the last it
  had applied for the key, and its later writes all wait (`OwnWriteIsLast`); a key
  missing after its own SET was taken by another's DEL or SETEX
  (`MissExplained`). A kill ends every connection, so nothing need be said of one
  across it.
* **Bytes.** First that decoding inverts encoding, on the operators: `DecodeFrame`,
  `FieldRead`, `CredsRead`, `ParseEncode`. Then `FramingInv`: there is a function
  `ends` that says where in the stream the handshake and each undamaged request
  end, and the server, as long as it is in that part, stands at the end of the
  last request it decoded. So the next frame it can take is the next request,
  whatever part of it has arrived. `ValueInv` bounds every parsed value by the
  frame it came in, which holds behind damage too.

The attempt to prove `DecodedAsSent` showed that the stream is also damaged by
credentials too long for the handshake's length when authentication is off; the
model now counts that as damage, and the run covers it.

Only model-checked: liveness (`ExpiredReclaimed`, `CallsReturnOpen`,
`OutstandingReturn`, `CallsSettle`, `OutstandingSettle`, `ConnectSettles`,
`RequestsAnswered`, `ConnectionsEnd`, `RequestsDecoded`), which is outside the
prover's reach.

## Not modelled

* The benchmark, the command line client and the smoke example: they read
  arguments or lines, call what is modelled and print. They share no state with
  the server, and their own state is a loop counter and measurements.
* A client that reads `(nil)` as a miss although it was stored, and the text of
  errors: the protocol gives them the form of values, and no order of steps is
  involved.
* A clock that steps back. Empty values in `Disk` (they need nothing from the
  file). A power loss that loses pages in the middle of a file. The fields of
  `replay_backup` byte by byte: a torn record stands for them, and what may be
  read behind one is any record or location of a given set.
* `Server` is composed with an abstract shard, not with `Shard`: the product of
  the two is out of reach, and `Shard` implements `KVStore`, whose map with a
  crash back to the last commit is what `Server` uses.

## Plan

1. Done: all the modules above and their runs; proofs of every invariant the runs
   check and of the refinement of `KVStore`.
2. Action properties that follow from these invariants: the journal only grows
   while a process lives, a connection's replies are only appended to.
3. Shorter invariants where two say the same of one place (`ReplyInv`, `ReadInv`).
