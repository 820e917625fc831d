------------------------------- MODULE Server -------------------------------
(***************************************************************************)
(* The server process (src/src/server.rs, main.rs, hashing.rs): it starts  *)
(* a power of two of shards, accepts connections, and for each one runs    *)
(* handle_conn, a reader that plans frames and dispatches batches to the   *)
(* shards, and a writer task that drains the connection's reply channel.   *)
(*                                                                         *)
(* A frame is known by its position in the traffic of its connection, so   *)
(* its req_id is that position: req_ids are echoed and never interpreted.  *)
(* A shard is a map from keys to the request that wrote them, and the      *)
(* requests its journal holds for each key; what its files make of a crash *)
(* is Shard's matter.  Here a kill takes the journal back to the end of    *)
(* the last batch (state.rs, flush_os), and a start replays it.            *)
(***************************************************************************)
EXTENDS Integers, Sequences, FiniteSets, FiniteSetsExt

CONSTANTS
    Conns,       \* connections, each accepted at most once
    Keys,
    Hash,        \* wyhash of each key
    HashBits,    \* width of a hash
    None,
    Traffic,     \* the sequences of frames the client of each connection may send
    MAX_BATCH,
    WORKERS,     \* values of WORKERS, or of the CPU count, at a start
    MaxStarts    \* bound on the number of starts of the process

Frame ==
    [kind: {"HandShake"}, op: {"accepted", "rejected"}, key: {None}]
    \cup [kind: {"Request"}, op: {"get", "set", "setex", "del"}, key: Keys]
    \cup [kind: {"Request"}, op: {"malformed"}, key: {None}]
    \cup [kind: {"Heartbeat", "Response", "undecodable"}, op: {"none"}, key: {None}]

ASSUME ServerAssumption ==
    /\ IsFiniteSet(Conns) /\ IsFiniteSet(Keys)
    /\ HashBits \in Nat /\ Hash \in [Keys -> 0..(2^HashBits - 1)]
    /\ MAX_BATCH \in Nat \ {0} /\ MaxStarts \in Nat
    /\ IsFiniteSet(WORKERS) /\ WORKERS # {} /\ WORKERS \subseteq Nat \ {0}
    /\ None \notin Conns \X Nat
    /\ \A c \in Conns : \A frames \in Traffic[c] : frames \in Seq(Frame)

VARIABLES
    count,      \* worker_count, 0 while there is no process
    starts,     \* number of starts so far
    script,     \* the frames the client of each connection sends
    link,       \* "open"; "half": the client has shut its side; "broken"
    stage,      \* where handle_conn is
    read,       \* frames planned so far
    chunk,      \* position of the last frame of the chunk being planned
    groups,     \* the batch of positions bucketed for each shard
    replies,    \* the reply channel
    writer,     \* "none", "running" or "gone": the writer task
    answers,    \* history: the responses that reached the client
    queue,      \* the batches in each shard's channel, the current one first
    store,      \* what each shard holds: key -> the request that wrote it
    journal,    \* the writes of the key a replay would find, the last one last
    committed,  \* journal at the end of the last batch
    expired     \* the requests whose ttl is known to be over

connVars == <<script, link, stage, read, chunk, groups, replies, writer, answers>>
dataVars == <<store, journal, committed, expired>>
shardVars == <<queue, dataVars>>
vars == <<count, starts, connVars, shardVars>>

-----------------------------------------------------------------------------
(***************************************************************************)
(* main and route_hash.                                                    *)
(***************************************************************************)
\* Mutant: the number of workers is taken as it is.
next_power_of_two_not(n) == n

next_power_of_two(n) == Min({p \in {2^i : i \in 0..n} : p >= n})

\* For any n, as 2^n >= n.
ASSUME PowerAssumption == \A n \in WORKERS : next_power_of_two(n) \in Nat \ {0}

Bit(n, i) == (n \div 2^i) % 2

And(a, b) == MapThenSumSet(LAMBDA i : 2^i * Bit(a, i) * Bit(b, i), 0..(HashBits - 1))

route_hash(k, worker_count) == And(Hash[k], worker_count - 1)

\* The directories shard-<id> any start can use; a shard's state lives in its own.
Dirs == 0..(Max({next_power_of_two(n) : n \in WORKERS}) - 1)

\* For any hash and count, as the bits kept are among those of count - 1.
ASSUME RouteAssumption == \A k \in Keys, n \in WORKERS : route_hash(k, next_power_of_two(n)) \in Dirs

-----------------------------------------------------------------------------
\* none: not accepted; handshake: waits for the first frame; serving; drain:
\* has seen the end of the stream and waits for the writer; ended: returned.
Stages == {"none", "handshake", "serving", "drain", "ended"}

Request == Conns \X Nat

\* What is under a key: the request that wrote it.
Held == Request \cup {None}

Results == {"value", "(nil)", "OK", "1", "0", "already", "invalid", "ERR", "ERR auth"}

\* The value a GET answers is the request that wrote it.
Reply == [pos: Nat, res: Results, val: Held]

Plain(p, result) == [pos |-> p, res |-> result, val |-> None]

Batch == [conn: Conns, ops: Seq(Nat), next: Nat \ {0}]

Scripts == {<<>>} \cup UNION {Traffic[c] : c \in Conns}

TypeOK ==
    /\ count \in Nat /\ starts \in Nat
    /\ script \in [Conns -> Scripts]
    /\ read \in [Conns -> Nat] /\ chunk \in [Conns -> Nat]
    /\ link \in [Conns -> {"open", "half", "broken"}]
    /\ stage \in [Conns -> Stages]
    /\ groups \in [Conns -> [Dirs -> Seq(Nat)]]
    /\ replies \in [Conns -> Seq(Reply)]
    /\ writer \in [Conns -> {"none", "running", "gone"}]
    /\ answers \in [Conns -> SUBSET Reply]
    /\ queue \in [Dirs -> Seq(Batch)]
    /\ store \in [Dirs -> [Keys -> Held]]
    /\ journal \in [Dirs -> [Keys -> Seq(Request)]]
    /\ committed \in [Dirs -> [Keys -> Seq(Request)]]
    /\ expired \subseteq Request

NoGroups == [s \in Dirs |-> <<>>]
NoBatches == [s \in Dirs |-> <<>>]
NoData == [s \in Dirs |-> [k \in Keys |-> None]]

Init ==
    /\ count = 0 /\ starts = 0
    /\ script = [c \in Conns |-> <<>>]
    /\ read = [c \in Conns |-> 0] /\ chunk = read
    /\ link = [c \in Conns |-> "open"]
    /\ stage = [c \in Conns |-> "none"]
    /\ groups = [c \in Conns |-> NoGroups]
    /\ replies = [c \in Conns |-> <<>>]
    /\ writer = [c \in Conns |-> "none"]
    /\ answers = [c \in Conns |-> {}]
    /\ queue = NoBatches
    /\ store = NoData
    /\ journal = [s \in Dirs |-> [k \in Keys |-> <<>>]] /\ committed = journal
    /\ expired = {}

-----------------------------------------------------------------------------
(***************************************************************************)
(* The clients and the network.                                            *)
(***************************************************************************)
Connected(c) == stage[c] \notin {"none", "ended"} \/ writer[c] = "running"

\* accept, and the task spawned for the connection.
Accept(c, frames) ==
    /\ count > 0 /\ stage[c] = "none"
    /\ stage' = [stage EXCEPT ![c] = "handshake"]
    /\ script' = [script EXCEPT ![c] = frames]
    /\ UNCHANGED <<count, starts, link, read, chunk, groups, replies, writer, answers, shardVars>>

Available(c) == read[c] < Len(script[c])

NextFrame(c) == script[c][read[c] + 1]

\* The client shuts its side; the server can tell once it has read all frames.
Shut(c) ==
    /\ Connected(c) /\ link[c] = "open" /\ ~Available(c)
    /\ link' = [link EXCEPT ![c] = "half"]
    /\ UNCHANGED <<count, starts, script, stage, read, chunk, groups, replies, writer, answers, shardVars>>

Break(c) ==
    /\ Connected(c) /\ link[c] # "broken"
    /\ link' = [link EXCEPT ![c] = "broken"]
    /\ UNCHANGED <<count, starts, script, stage, read, chunk, groups, replies, writer, answers, shardVars>>

-----------------------------------------------------------------------------
(***************************************************************************)
(* handle_conn: the handshake.                                             *)
(***************************************************************************)
\* The answer of the handshake to its first frame.
Greeting(f) ==
    IF f.kind = "HandShake" /\ f.op = "accepted" THEN "OK"
    ELSE IF f.kind = "HandShake" THEN "ERR auth" ELSE "ERR"

\* Mutant: a refused handshake is answered, and served.
Handshake_serves_all(c) ==
    /\ stage[c] = "handshake" /\ Available(c) /\ NextFrame(c).kind # "undecodable"
    /\ link[c] # "broken"
    /\ LET res == Greeting(NextFrame(c))
       IN  /\ answers' = [answers EXCEPT ![c] = @ \cup {Plain(1, res)}]
           /\ stage' = [stage EXCEPT ![c] = "serving"]
           /\ writer' = [writer EXCEPT ![c] = "running"]
    /\ read' = [read EXCEPT ![c] = 1] /\ chunk' = [chunk EXCEPT ![c] = 1]
    /\ UNCHANGED <<count, starts, script, link, groups, replies, shardVars>>

\* The reply is written before the writer task exists.
Handshake(c) ==
    /\ stage[c] = "handshake" /\ Available(c) /\ NextFrame(c).kind # "undecodable"
    /\ link[c] # "broken"
    /\ LET res == Greeting(NextFrame(c))
       IN  /\ answers' = [answers EXCEPT ![c] = @ \cup {Plain(1, res)}]
           /\ stage' = [stage EXCEPT ![c] = IF res = "OK" THEN "serving" ELSE "ended"]
           /\ writer' = IF res = "OK" THEN [writer EXCEPT ![c] = "running"] ELSE writer
    /\ read' = [read EXCEPT ![c] = 1] /\ chunk' = [chunk EXCEPT ![c] = 1]
    /\ UNCHANGED <<count, starts, script, link, groups, replies, shardVars>>

\* The stream ends or fails first, the frame cannot be decoded, or the reply
\* cannot be written.
HandshakeFails(c) ==
    /\ stage[c] = "handshake"
    /\ \/ link[c] = "broken"
       \/ link[c] = "half" /\ ~Available(c)
       \/ Available(c) /\ NextFrame(c).kind = "undecodable"
    /\ stage' = [stage EXCEPT ![c] = "ended"]
    /\ UNCHANGED <<count, starts, script, link, read, chunk, groups, replies, writer, answers, shardVars>>

-----------------------------------------------------------------------------
(***************************************************************************)
(* handle_conn: the reader.  ready_chunks gives it the frames that have    *)
(* arrived, up to MAX_BATCH of them; a decoding error is the last item.    *)
(***************************************************************************)
Planned(c) == read[c] = chunk[c]

Waits(c) == stage[c] = "serving" /\ Planned(c) /\ groups[c] = NoGroups

ReadChunk(c, n) ==
    /\ Waits(c) /\ n <= Len(script[c]) - read[c]
    /\ \A i \in 1..(n - 1) : script[c][read[c] + i].kind # "undecodable"
    /\ chunk' = [chunk EXCEPT ![c] = read[c] + n]
    /\ UNCHANGED <<count, starts, script, link, stage, read, groups, replies, writer, answers, shardVars>>

\* What plan answers without a shard.
Immediate(f) ==
    CASE f.kind = "Request" -> "ERR"
      [] f.kind = "Heartbeat" -> "1"
      [] f.kind = "HandShake" -> "already"
      [] f.kind = "Response" -> "invalid"

IsOp(f) == f.kind = "Request" /\ f.op # "malformed"

PlanOp(c) ==
    /\ stage[c] = "serving" /\ ~Planned(c) /\ IsOp(NextFrame(c))
    /\ LET s == route_hash(NextFrame(c).key, count)
       IN  groups' = [groups EXCEPT ![c][s] = Append(@, read[c] + 1)]
    /\ read' = [read EXCEPT ![c] = @ + 1]
    /\ UNCHANGED <<count, starts, script, link, stage, chunk, replies, writer, answers, shardVars>>

PlanImmediate(c) ==
    /\ stage[c] = "serving" /\ ~Planned(c)
    /\ ~IsOp(NextFrame(c)) /\ NextFrame(c).kind # "undecodable"
    /\ writer[c] = "running"
    /\ replies' = [replies EXCEPT ![c] =
                      Append(@, Plain(read[c] + 1, Immediate(NextFrame(c))))]
    /\ read' = [read EXCEPT ![c] = @ + 1]
    /\ UNCHANGED <<count, starts, script, link, stage, chunk, groups, writer, answers, shardVars>>

\* handle_conn returns from inside the loop: the reply sender and everything
\* bucketed are dropped (groups keeps what was); the writer task and the
\* dispatched batches go on.
Return(c) ==
    /\ stage' = [stage EXCEPT ![c] = "ended"]
    /\ UNCHANGED <<count, starts, script, link, read, chunk, groups, replies, writer, answers, shardVars>>

\* `frame?` on an error, or an immediate reply with the writer gone.
PlanFails(c) ==
    /\ stage[c] = "serving" /\ ~Planned(c) /\ ~IsOp(NextFrame(c))
    /\ NextFrame(c).kind = "undecodable" \/ writer[c] = "gone"
    /\ Return(c)

\* `frame?` on an error of the socket.  It comes alone, or in place of a frame of
\* the chunk: what was bucketed from the frames before it is dropped.  (Behind
\* the last frame of the script it does what it does one frame earlier, as no
\* reply can reach a client whose connection is broken.)
ReadFails(c) ==
    /\ stage[c] = "serving" /\ link[c] = "broken"
    /\ Planned(c) => groups[c] = NoGroups
    /\ Return(c)

Bucketed(c) == {s \in Dirs : groups[c][s] # <<>>}

\* Mutant: the bucket is copied and not drained.
Dispatch_copies(c) ==
    /\ stage[c] = "serving" /\ Planned(c) /\ Bucketed(c) # {}
    /\ LET s == Min(Bucketed(c))
       IN  queue' = [queue EXCEPT ![s] = Append(@, [conn |-> c, ops |-> groups[c][s], next |-> 1])]
    /\ UNCHANGED <<count, starts, connVars, dataVars>>

\* Mutant: the batch is sent ahead of those that wait.
Dispatch_jumps_queue(c) ==
    /\ stage[c] = "serving" /\ Planned(c) /\ Bucketed(c) # {}
    /\ LET s == Min(Bucketed(c))
       IN  /\ queue' = [queue EXCEPT ![s] = <<[conn |-> c, ops |-> groups[c][s], next |-> 1]>> \o @]
           /\ groups' = [groups EXCEPT ![c][s] = <<>>]
    /\ UNCHANGED <<count, starts, script, link, stage, read, chunk, replies, writer, answers, dataVars>>

\* One batch per shard, in the order of the shards, each with a clone of the
\* reply sender.  The shards outlive every connection, so the send succeeds.
Dispatch(c) ==
    /\ stage[c] = "serving" /\ Planned(c) /\ Bucketed(c) # {}
    /\ LET s == Min(Bucketed(c))
       IN  /\ queue' = [queue EXCEPT ![s] = Append(@, [conn |-> c, ops |-> groups[c][s], next |-> 1])]
           /\ groups' = [groups EXCEPT ![c][s] = <<>>]
    /\ UNCHANGED <<count, starts, script, link, stage, read, chunk, replies, writer, answers, dataVars>>

\* The end of the stream: the reader drops its sender, then awaits the writer.
EndOfStream(c) ==
    /\ Waits(c) /\ link[c] = "half" /\ ~Available(c)
    /\ stage' = [stage EXCEPT ![c] = "drain"]
    /\ UNCHANGED <<count, starts, script, link, read, chunk, groups, replies, writer, answers, shardVars>>

Drained(c) ==
    /\ stage[c] = "drain" /\ writer[c] = "gone"
    /\ stage' = [stage EXCEPT ![c] = "ended"]
    /\ UNCHANGED <<count, starts, script, link, read, chunk, groups, replies, writer, answers, shardVars>>

-----------------------------------------------------------------------------
(***************************************************************************)
(* The writer task.  It drains the channel until no sender is left: the    *)
(* reader's own, and one in each batch of the connection.                  *)
(***************************************************************************)
WriterSends(c) ==
    /\ writer[c] = "running" /\ replies[c] # <<>> /\ link[c] # "broken"
    /\ answers' = [answers EXCEPT ![c] = @ \cup {Head(replies[c])}]
    /\ replies' = [replies EXCEPT ![c] = Tail(@)]
    /\ UNCHANGED <<count, starts, script, link, stage, read, chunk, groups, writer, shardVars>>

WriterBreaks(c) ==
    /\ writer[c] = "running" /\ replies[c] # <<>> /\ link[c] = "broken"
    /\ writer' = [writer EXCEPT ![c] = "gone"]
    /\ replies' = [replies EXCEPT ![c] = <<>>]
    /\ UNCHANGED <<count, starts, script, link, stage, read, chunk, groups, answers, shardVars>>

BatchesOf(c, s) == {i \in 1..Len(queue[s]) : queue[s][i].conn = c}

\* Mutant: the reader's sender is never dropped.
Senders_reader_keeps(c) == stage[c] \in {"serving", "drain"} \/ \E s \in Dirs : BatchesOf(c, s) # {}

\* Mutant: the writer waits for the batches only.
Senders_batches_only(c) == \E s \in Dirs : BatchesOf(c, s) # {}

Senders(c) == stage[c] = "serving" \/ \E s \in Dirs : BatchesOf(c, s) # {}

WriterEnds(c) ==
    /\ writer[c] = "running" /\ replies[c] = <<>> /\ ~Senders(c)
    /\ writer' = [writer EXCEPT ![c] = "gone"]
    /\ UNCHANGED <<count, starts, script, link, stage, read, chunk, groups, replies, answers, shardVars>>

-----------------------------------------------------------------------------
(***************************************************************************)
(* The shards: start_worker and apply.                                     *)
(***************************************************************************)
Op(b) == script[b.conn][b.ops[b.next]]

\* What apply leaves under the key, and what it answers.
Written(b, old) ==
    CASE Op(b).op \in {"set", "setex"} -> <<b.conn, b.ops[b.next]>>
      [] Op(b).op = "del" -> None
      [] Op(b).op = "get" -> old

\* What it leaves in the journal.  A SET or a DEL hides all records before it from
\* a replay; a SETEX only until it expires.  The DEL of a missing key writes none.
Logged(b, old, log) ==
    CASE Op(b).op = "set" -> <<<<b.conn, b.ops[b.next]>>>>
      [] Op(b).op = "setex" -> Append(log, <<b.conn, b.ops[b.next]>>)
      [] Op(b).op = "del" -> IF old # None THEN <<>> ELSE log
      [] Op(b).op = "get" -> log

\* Mutant: a miss is not turned into RESP_NIL.
Result_raw(b, old) ==
    IF Op(b).op = "get" THEN [pos |-> b.ops[b.next], res |-> old, val |-> old]
    ELSE Plain(b.ops[b.next], "OK")

Result(b, old) ==
    LET p == b.ops[b.next]
    IN  CASE Op(b).op \in {"set", "setex"} -> Plain(p, "OK")
          [] Op(b).op = "del" -> Plain(p, IF old # None THEN "1" ELSE "0")
          [] Op(b).op = "get" -> IF old = None THEN Plain(p, "(nil)")
                                 ELSE [pos |-> p, res |-> "value", val |-> old]

\* One operation, and its reply unless the writer has gone.
Apply(s) ==
    /\ queue[s] # <<>> /\ queue[s][1].next <= Len(queue[s][1].ops)
    /\ LET b == queue[s][1]
           k == Op(b).key
           old == store[s][k]
       IN  /\ store' = [store EXCEPT ![s][k] = Written(b, old)]
           /\ journal' = [journal EXCEPT ![s][k] = Logged(b, old, @)]
           /\ replies' = IF writer[b.conn] = "running"
                         THEN [replies EXCEPT ![b.conn] = Append(@, Result(b, old))] ELSE replies
    /\ queue' = [queue EXCEPT ![s][1].next = @ + 1]
    /\ UNCHANGED <<count, starts, script, link, stage, read, chunk, groups, writer, answers, committed, expired>>

\* flush_os; the batch and its reply sender are dropped.
EndBatch(s) ==
    /\ queue[s] # <<>> /\ queue[s][1].next > Len(queue[s][1].ops)
    /\ queue' = [queue EXCEPT ![s] = Tail(@)]
    /\ committed' = [committed EXCEPT ![s] = journal[s]]
    /\ UNCHANGED <<count, starts, connVars, store, journal, expired>>

Timed(r) == script[r[1]][r[2]].op = "setex"

\* A value with a ttl expires, and a GET or the sweep drops it.  Neither writes to
\* the journal, whose record stays.
Expire(s, k) ==
    /\ s < count /\ store[s][k] # None /\ Timed(store[s][k])
    /\ store' = [store EXCEPT ![s][k] = None]
    /\ expired' = expired \cup {store[s][k]}
    /\ UNCHANGED <<count, starts, connVars, queue, journal, committed>>

-----------------------------------------------------------------------------
(***************************************************************************)
(* The process.                                                            *)
(***************************************************************************)
\* What replay makes of the records of a key: it skips the expired ones, and so
\* brings back an older value that a SETEX had replaced.
Replayed(log, gone) ==
    LET live == {i \in 1..Len(log) : log[i] \notin gone}
    IN  IF live = {} THEN None ELSE log[Max(live)]

TimedRecords ==
    {r \in UNION {{journal[s][k][i] : i \in 1..Len(journal[s][k])} : s \in Dirs, k \in Keys} : Timed(r)}

\* A directory no shard opens keeps what it holds.
Start(n) ==
    /\ count = 0 /\ starts < MaxStarts
    /\ count' = next_power_of_two(n) /\ starts' = starts + 1
    /\ \E gone \in SUBSET TimedRecords :
         /\ expired' = expired \cup gone
         /\ store' = [s \in Dirs |-> [k \in Keys |-> Replayed(journal[s][k], expired')]]
    /\ UNCHANGED <<connVars, queue, journal, committed>>

\* The process is killed; or accept returns an error, which start and main return,
\* and the runtime drops every task wherever it waits, as a kill would.
Stop ==
    /\ count > 0 /\ count' = 0
    /\ stage' = [c \in Conns |-> IF stage[c] = "none" THEN "none" ELSE "ended"]
    /\ link' = [c \in Conns |-> IF Connected(c) THEN "broken" ELSE link[c]]
    /\ writer' = [c \in Conns |-> IF writer[c] = "running" THEN "gone" ELSE writer[c]]
    /\ replies' = [c \in Conns |-> <<>>] /\ queue' = NoBatches
    /\ store' = NoData /\ journal' = committed
    /\ UNCHANGED <<starts, script, read, chunk, groups, answers, committed, expired>>

Reader(c) ==
    \/ Handshake(c) \/ HandshakeFails(c)
    \/ \E n \in 1..MAX_BATCH : ReadChunk(c, n)
    \/ PlanOp(c) \/ PlanImmediate(c) \/ PlanFails(c) \/ ReadFails(c)
    \/ Dispatch(c) \/ EndOfStream(c) \/ Drained(c)

Writer(c) == WriterSends(c) \/ WriterBreaks(c) \/ WriterEnds(c)

Worker(s) == Apply(s) \/ EndBatch(s)

Client(c) == Shut(c) \/ Break(c) \/ \E frames \in Traffic[c] : Accept(c, frames)

Next ==
    \/ \E c \in Conns : Client(c) \/ Reader(c) \/ Writer(c)
    \/ \E s \in Dirs : Worker(s) \/ \E k \in Keys : Expire(s, k)
    \/ \E n \in WORKERS : Start(n)
    \/ Stop

Spec == Init /\ [][Next]_vars

\* The runtime polls tasks that are ready.  A client reads its replies or
\* breaks the connection: otherwise its writer task would wait forever.
Fairness ==
    /\ \A c \in Conns : WF_vars(Reader(c)) /\ WF_vars(Writer(c))
    /\ \A s \in Dirs : WF_vars(Worker(s))

FairSpec == Spec /\ Fairness

-----------------------------------------------------------------------------
At(seq, p) == {i \in 1..Len(seq) : seq[i] = p}

UnappliedAt(b, p) == {j \in b.next..Len(b.ops) : b.ops[j] = p}

\* The places where a frame that was planned, or its reply, is: buckets, batches,
\* the reply channel and the client.
Places(c, p) ==
    (UNION {{<<"bucket", s, i>> : i \in At(groups[c][s], p)} : s \in Dirs})
    \cup (UNION {UNION {{<<"batch", s, i, j>> : j \in UnappliedAt(queue[s][i], p)} :
                          i \in BatchesOf(c, s)} : s \in Dirs})
    \cup {<<"channel", i>> : i \in {j \in 1..Len(replies[c]) : replies[c][j].pos = p}}
    \cup {<<"client", r>> : r \in {x \in answers[c] : x.pos = p}}

Copies(c, p) == Cardinality(Places(c, p))

\* Every frame that was planned is in exactly one place, its bucket, a batch,
\* the reply channel or the client, until the connection breaks: the batching,
\* a reader that returns early and a writer that ends lose no reply and send
\* none twice, save what the reader had bucketed when it returned.
OneReplyPerRequest ==
    \A c \in Conns : \A p \in 1..read[c] :
        Copies(c, p) <= 1 /\ (link[c] # "broken" => Copies(c, p) = 1)

\* A connection whose handshake was not accepted gets one reply at most, and
\* nothing it sent reaches a shard (server.rs: "Handshake must come first").
HandshakeFirst ==
    \A c \in Conns : Plain(1, "OK") \notin answers[c] =>
        /\ \A p \in 2..Len(script[c]) : Copies(c, p) = 0
        /\ \A s \in Dirs, k \in Keys : store[s][k] # None => store[s][k][1] # c

Writes(f, k) == f.kind = "Request" /\ f.op \in {"set", "setex", "del"} /\ f.key = k

\* The last write of the key that the connection sent before position p, or 0.
LastWrite(c, p, k) == Max({0} \cup {q \in 1..(p - 1) : Writes(script[c][q], k)})

\* A GET is answered with a value written for its key.  If its own connection
\* wrote the value, that is its last write before the GET; if it is a miss, the
\* connection's last write was no SET, or another one deleted the key or gave it
\* a ttl.  Neither chunks, batches nor queues reorder the requests of one
\* connection for one key, although replies come back in any order.
ReadsFollowWrites ==
    \A c \in Conns : \A r \in answers[c] :
        LET k == script[c][r.pos].key
            q == LastWrite(c, r.pos, k)
        IN  /\ r.res = "value" => /\ script[r.val[1]][r.val[2]].key = k
                                  /\ r.val[1] = c => r.val[2] = q
            /\ r.res = "(nil)" /\ q # 0 /\ script[c][q].op = "set" =>
                  \E d \in Conns \ {c} : \E i \in 1..Len(script[d]) :
                      Writes(script[d][i], k) /\ script[d][i].op # "set"

\* Every key is held by the shard its requests are routed to, also after the
\* process has been killed or has stopped and was started again (README.md:
\* "every key is routed to the CPU core that owns it").
KeysOwned ==
    count # 0 => \A s \in Dirs, k \in Keys : store[s][k] # None => s = route_hash(k, count)

\* The shards and the writer still have something to do for the connection.
Owing(c) == replies[c] # <<>> \/ \E s \in Dirs : BatchesOf(c, s) # {}

AllAnswered(c) == {r.pos : r \in answers[c]} = 1..Len(script[c])

\* Everything that was dispatched is answered unless the connection breaks, even
\* if the reader has given up meanwhile; and if it has not, every frame is.
RequestsAnswered ==
    \A c \in Conns :
        (stage[c] # "none") ~>
            (link[c] = "broken" \/ (~Owing(c) /\ (stage[c] = "ended" \/ AllAnswered(c))))

\* A connection the client has shut or lost is given up, both by its reader and
\* by its writer (server.rs: "Dropping our sender lets the writer finish once
\* all worker clones drain").
ConnectionsEnd == \A c \in Conns : (link[c] # "open") ~> ~Connected(c)
=============================================================================
