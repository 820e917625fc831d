-------------------------- MODULE ServerReadProofs --------------------------
(***************************************************************************)
(* Reads follow writes, for any connections, keys, traffic, batch size and *)
(* number of starts: for one shard, what a connection has planned is       *)
(* applied in the order in which it was sent.                              *)
(***************************************************************************)
EXTENDS ServerProofs

Increasing(q) == \A i, j \in 1..Len(q) : i < j => q[i] < q[j]

\* Buckets, and the batches of a shard, hold the positions of a connection in
\* the order of its traffic; what is bucketed comes after what is batched.
BucketsOrdered ==
    \A c \in Conns, s \in Dirs :
        /\ Increasing(groups[c][s])
        /\ \A i \in 1..Len(groups[c][s]) : groups[c][s][i] <= read[c]

BatchOrdered(s, i) ==
    LET b == queue[s][i]
    IN  /\ Increasing(b.ops)
        /\ \A j \in 1..Len(b.ops) :
            /\ b.ops[j] <= read[b.conn]
            /\ \A m \in 1..Len(groups[b.conn][s]) : b.ops[j] < groups[b.conn][s][m]

Before(a, b) ==
    a.conn = b.conn => \A i \in 1..Len(a.ops), j \in 1..Len(b.ops) : a.ops[i] < b.ops[j]

BatchesOrdered ==
    \A s \in Dirs : \A i \in 1..Len(queue[s]) :
        /\ BatchOrdered(s, i)
        /\ \A j \in 1..Len(queue[s]) : i < j => Before(queue[s][i], queue[s][j])

OrderInv == BucketsOrdered /\ BatchesOrdered

\* Position p of the connection waits in a batch for s, or in the bucket.
Unapplied(c, s, p) ==
    \E i \in 1..Len(queue[s]) :
        queue[s][i].conn = c /\ \E j \in queue[s][i].next..Len(queue[s][i].ops) : queue[s][i].ops[j] = p

Pending(c, s, p) == InBucket(c, s, p) \/ Unapplied(c, s, p)

\* The shard may still get or apply an operation of the connection.
Active(c, s) == stage[c] = "serving" \/ HasBatch(s, c)

Routed(c, p, s) == IsOp(script[c][p]) /\ route_hash(script[c][p].key, count) = s

\* What waits for a shard is routed to it, and all that is routed to it and was
\* planned later waits too.
PendingRouted(c, s) ==
    \A p \in Nat : Pending(c, s, p) =>
        /\ Routed(c, p, s)
        /\ \A w \in Nat : p < w /\ w <= read[c] /\ Routed(c, w, s) => Pending(c, s, w)

\* Every later write of the key by the connection still waits.
LastApplied(c, s, q, k) ==
    \A w \in Nat : q < w /\ w <= read[c] /\ Writes(script[c][w], k) => Pending(c, s, w)

\* What the shard holds of the connection's own is the last write applied.
OwnWriteIsLast(c, s) ==
    \A k \in Keys, q \in Nat : store[s][k] = <<c, q>> =>
        /\ q <= read[c] /\ route_hash(k, count) = s
        /\ \A p \in Nat : Pending(c, s, p) => q < p
        /\ LastApplied(c, s, q, k)

\* Another connection may delete the key or let it expire.
OthersDrop(c, k) ==
    \E d \in Conns \ {c} : \E i \in 1..Len(script[d]) :
        Writes(script[d][i], k) /\ script[d][i].op # "set"

\* If that is a SET and the key is not there, another connection has dropped it.
MissExplained(c, s) ==
    \A k \in Keys, q \in Nat :
        /\ q \in 1..read[c] /\ route_hash(k, count) = s /\ store[s][k] = None
        /\ Writes(script[c][q], k) /\ script[c][q].op = "set" /\ ~Pending(c, s, q)
        /\ LastApplied(c, s, q, k)
        => OthersDrop(c, k)

Follows(c, s) == PendingRouted(c, s) /\ OwnWriteIsLast(c, s) /\ MissExplained(c, s)

ShardsFollow == \A c \in Conns, s \in Dirs : Active(c, s) => Follows(c, s)

\* A shard holds under a key what a request for that key has set.
WrittenBy(v, k) ==
    v # None => /\ v[2] \in 1..Len(script[v[1]])
                /\ Writes(script[v[1]][v[2]], k) /\ script[v[1]][v[2]].op # "del"

StoreWritten ==
    \A s \in Dirs, k \in Keys : \A v \in Holds(s, k) : WrittenBy(v, k)

\* What ReadsFollowWrites says of one reply.
ReadOK(c, r) ==
    LET k == script[c][r.pos].key
        q == LastWrite(c, r.pos, k)
    IN  /\ r.res = "value" => r.val # None /\ WrittenBy(r.val, k) /\ (r.val[1] = c => r.val[2] = q)
        /\ r.res = "(nil)" /\ q # 0 /\ script[c][q].op = "set" => OthersDrop(c, k)

RepliesOK ==
    \A c \in Conns :
        /\ \A r \in answers[c] : ReadOK(c, r)
        /\ \A i \in 1..Len(replies[c]) : ReadOK(c, replies[c][i])

\* Nothing is sent before accept, and nothing is batched without a process.
Idle ==
    /\ \A c \in Conns : stage[c] = "none" => script[c] = <<>>
    /\ count = 0 => queue = NoBatches

\* What makes ReadsFollowWrites inductive.
ReadInv == Inv /\ Idle /\ OrderInv /\ ShardsFollow /\ StoreWritten /\ RepliesOK

\* The conjuncts that ServerProofs has not shown already.
ReadParts == Idle /\ OrderInv /\ ShardsFollow /\ StoreWritten /\ RepliesOK

LEMMA WritesIsOp == \A f, k : Writes(f, k) => IsOp(f) /\ f.key = k
BY DEF Writes, IsOp

\* What the frames of connections that are already there say does not change.
LEMMA WrittenStays ==
    ASSUME NEW v \in Held, NEW k, WrittenBy(v, k),
           v # None => script'[v[1]] = script[v[1]]
    PROVE  WrittenBy(v, k)'
BY DEF WrittenBy

LEMMA ScriptFixed ==
    ASSUME UNCHANGED script
    PROVE  /\ \A v, k : WrittenBy(v, k)' <=> WrittenBy(v, k)
           /\ \A c, k : OthersDrop(c, k)' <=> OthersDrop(c, k)
           /\ \A c, r : ReadOK(c, r)' <=> ReadOK(c, r)
<1>1. \A v, k : WrittenBy(v, k)' <=> WrittenBy(v, k)
  BY DEF WrittenBy
<1>2. \A c, k : OthersDrop(c, k)' <=> OthersDrop(c, k)
  BY DEF OthersDrop
<1>3. \A c, p, k : LastWrite(c, p, k)' = LastWrite(c, p, k)
  BY DEF LastWrite
<1> QED
  BY <1>1, <1>2, <1>3 DEF ReadOK

LEMMA StoredWritten ==
    ASSUME StoreWritten
    PROVE  \A s \in Dirs, k \in Keys : WrittenBy(store[s][k], k)
BY DEF StoreWritten, Holds, WrittenBy

LEMMA WrittenKept ==
    ASSUME StoreWritten, UNCHANGED script,
           \A s \in Dirs, k \in Keys : Holds(s, k)' \subseteq Holds(s, k)
    PROVE  StoreWritten'
BY ScriptFixed DEF StoreWritten

LEMMA HoldsRequests ==
    ASSUME TypeOK
    PROVE  \A s \in Dirs, k \in Keys : Holds(s, k) \subseteq Request
BY RecordedSeq DEF TypeOK, Holds, Held

\* A shard whose view of the connection does not change.
LEMMA FollowsStays ==
    ASSUME NEW c \in Conns, NEW s \in Dirs, Follows(c, s),
           script'[c] = script[c], read'[c] = read[c], store'[s] = store[s], count' = count,
           \A p : Pending(c, s, p)' <=> Pending(c, s, p),
           \A k \in Keys : OthersDrop(c, k) => OthersDrop(c, k)'
    PROVE  Follows(c, s)'
<1>1. \A p : Routed(c, p, s)' <=> Routed(c, p, s)
  BY DEF Routed
<1>2. \A q, k : LastApplied(c, s, q, k)' <=> LastApplied(c, s, q, k)
  BY DEF LastApplied
<1>3. PendingRouted(c, s)'
  BY <1>1 DEF Follows, PendingRouted
<1>4. OwnWriteIsLast(c, s)'
  BY <1>2 DEF Follows, OwnWriteIsLast
<1>5. MissExplained(c, s)'
  BY <1>2 DEF Follows, MissExplained
<1> QED
  BY <1>3, <1>4, <1>5 DEF Follows

\* What each part depends on.
LEMMA OrderStays ==
    ASSUME OrderInv, TypeOK, read' \in [Conns -> Nat], \A c \in Conns : read[c] <= read'[c],
           UNCHANGED groups,
           \A s \in Dirs : /\ Len(queue'[s]) = Len(queue[s])
                           /\ \A i \in 1..Len(queue[s]) : /\ queue'[s][i].conn = queue[s][i].conn
                                                          /\ queue'[s][i].ops = queue[s][i].ops
    PROVE  OrderInv'
<1>1. BucketsOrdered'
  <2> SUFFICES ASSUME NEW c \in Conns, NEW s \in Dirs
               PROVE  /\ Increasing(groups[c][s])
                      /\ \A i \in 1..Len(groups[c][s]) : groups[c][s][i] <= read'[c]
    BY DEF BucketsOrdered
  <2>1. groups[c][s] \in Seq(Nat) /\ read[c] \in Nat /\ read'[c] \in Nat /\ read[c] <= read'[c]
    BY DEF TypeOK
  <2>2. Increasing(groups[c][s]) /\ \A i \in 1..Len(groups[c][s]) : groups[c][s][i] <= read[c]
    BY DEF OrderInv, BucketsOrdered
  <2>3. ASSUME NEW i \in 1..Len(groups[c][s]) PROVE groups[c][s][i] <= read'[c]
    <3>1. groups[c][s][i] \in Nat /\ groups[c][s][i] <= read[c]
      BY <2>1, <2>2, ElementOfSeq
    <3> QED
      BY <2>1, <3>1
  <2> QED
    BY <2>2, <2>3
<1>2. BatchesOrdered'
  <2> SUFFICES ASSUME NEW s \in Dirs, NEW i \in 1..Len(queue[s])
               PROVE  /\ BatchOrdered(s, i)'
                      /\ \A j \in 1..Len(queue[s]) : i < j => Before(queue'[s][i], queue'[s][j])
    BY DEF BatchesOrdered
  <2>1. /\ BatchOrdered(s, i)
        /\ \A j \in 1..Len(queue[s]) : i < j => Before(queue[s][i], queue[s][j])
    BY DEF OrderInv, BatchesOrdered
  <2>2. BatchOrdered(s, i)'
    <3> DEFINE b == queue[s][i]
    <3>1. queue[s] \in Seq(Batch)
      BY DEF TypeOK
    <3>2. b \in Batch
      BY <3>1, ElementOfSeq
    <3>3. b.conn \in Conns /\ b.ops \in Seq(Nat)
      BY <3>2 DEF Batch
    <3>4. read[b.conn] \in Nat /\ read'[b.conn] \in Nat /\ read[b.conn] <= read'[b.conn]
      BY <3>3 DEF TypeOK
    <3>5. queue'[s][i].conn = b.conn /\ queue'[s][i].ops = b.ops
      OBVIOUS
    <3>6. /\ Increasing(b.ops)
          /\ \A j \in 1..Len(b.ops) :
              /\ b.ops[j] <= read[b.conn]
              /\ \A m \in 1..Len(groups[b.conn][s]) : b.ops[j] < groups[b.conn][s][m]
      BY <2>1 DEF BatchOrdered
    <3> HIDE DEF b
    <3>7. \A j \in 1..Len(b.ops) : b.ops[j] <= read'[b.conn]
      BY <3>3, <3>4, <3>6
    <3> QED
      BY <3>5, <3>6, <3>7 DEF BatchOrdered
  <2>3. \A j \in 1..Len(queue[s]) : i < j => Before(queue'[s][i], queue'[s][j])
    BY <2>1 DEF Before
  <2> QED
    BY <2>2, <2>3
<1> QED
  BY <1>1, <1>2 DEF OrderInv

\* A reply that is there, or that is about no GET, is as good as before.
LEMMA RepliesStay ==
    ASSUME RepliesOK, UNCHANGED script,
           \A c \in Conns : \A r \in answers'[c] :
               r \in answers[c] \/ (\E i \in 1..Len(replies[c]) : r = replies[c][i]) \/ ReadOK(c, r),
           \A c \in Conns : \A j \in 1..Len(replies'[c]) :
               (\E i \in 1..Len(replies[c]) : replies'[c][j] = replies[c][i]) \/ ReadOK(c, replies'[c][j])
    PROVE  RepliesOK'
<1>1. ASSUME NEW c \in Conns
      PROVE  /\ \A r \in answers'[c] : ReadOK(c, r)
             /\ \A j \in 1..Len(replies'[c]) : ReadOK(c, replies'[c][j])
  <2>1. /\ \A r \in answers[c] : ReadOK(c, r)
        /\ \A i \in 1..Len(replies[c]) : ReadOK(c, replies[c][i])
    BY DEF RepliesOK
  <2> QED
    BY <2>1, Zenon
<1>2. \A c, r : ReadOK(c, r)' <=> ReadOK(c, r)
  BY ScriptFixed
<1>3. ASSUME NEW c \in Conns, NEW j \in 1..Len(replies'[c])
      PROVE  \A r : r = replies'[c][j] => ReadOK(c, r)'
  BY <1>1, <1>2
<1> QED
  BY <1>1, <1>2, <1>3 DEF RepliesOK

LEMMA PlainOK ==
    ASSUME NEW c, NEW p, NEW res, res \notin {"value", "(nil)"}
    PROVE  ReadOK(c, Plain(p, res))
BY DEF ReadOK, Plain

\* Before it is served, a connection has nothing anywhere.
LEMMA NoneWaits ==
    ASSUME Inv, NEW c \in Conns, stage[c] \in {"none", "handshake"}
    PROVE  /\ read[c] = 0 /\ answers[c] = {} /\ replies[c] = <<>>
           /\ \A s \in Dirs : ~Active(c, s) /\ ~HasBatch(s, c) /\ \A p : ~Pending(c, s, p)
           /\ \A s \in Dirs, k \in Keys : \A v \in Holds(s, k) : v[1] # c
<1>1. read[c] = 0 /\ answers[c] = {} /\ Untouched(c)
  BY DEF Inv, Fresh, Gate, Greeted
<1>2. ASSUME NEW s \in Dirs PROVE ~HasBatch(s, c) /\ \A p : ~Pending(c, s, p)
  <2>1. groups[c][s] = <<>> /\ ~HasBatch(s, c)
    BY <1>1 DEF Untouched, NoGroups
  <2>2. \A i : i \notin 1..Len(<<>>)
    OBVIOUS
  <2> QED
    BY <2>1, <2>2 DEF Pending, InBucket, Unapplied, HasBatch
<1> QED
  BY <1>1, <1>2 DEF Untouched, Active

\* A step that neither plans nor applies.
LEMMA QuietReads ==
    ASSUME ReadInv, UNCHANGED <<count, script, read, groups, queue, store, dataVars>>,
           \A c \in Conns : stage'[c] \in {"serving", "none"} => stage'[c] = stage[c],
           RepliesOK'
    PROVE  ReadParts'
<1>1. Idle'
  BY DEF ReadInv, Idle, NoBatches
<1>2. OrderInv'
  BY DEF ReadInv, OrderInv, BucketsOrdered, BatchesOrdered, BatchOrdered
<1>3. ShardsFollow'
  <2> SUFFICES ASSUME NEW c \in Conns, NEW s \in Dirs, Active(c, s)' PROVE Follows(c, s)'
    BY DEF ShardsFollow
  <2>1. Active(c, s)
    BY DEF Active, HasBatch
  <2>2. \A p : Pending(c, s, p)' <=> Pending(c, s, p)
    BY DEF Pending, InBucket, Unapplied
  <2> QED
    BY <2>1, <2>2, FollowsStays, ScriptFixed DEF ReadInv, ShardsFollow
<1>4. StoreWritten'
  BY SameData, WrittenKept DEF ReadInv
<1> QED
  BY <1>1, <1>2, <1>3, <1>4 DEF ReadParts

LEMMA QuietStepReads ==
    ASSUME ReadInv, NEW c \in Conns,
           \/ Shut(c) \/ Break(c) \/ HandshakeFails(c) \/ PlanFails(c) \/ ReadFails(c)
           \/ \E n \in 1..MAX_BATCH : ReadChunk(c, n)
           \/ EndOfStream(c) \/ Drained(c) \/ WriterEnds(c)
    PROVE  ReadParts'
<1>1. UNCHANGED <<count, script, read, groups, queue, store, dataVars, replies, answers>>
  BY DEF Shut, Break, HandshakeFails, PlanFails, ReadFails, ReadChunk, EndOfStream, Drained,
         WriterEnds, Return, shardVars, dataVars
<1>2. \A d \in Conns : stage'[d] \in {"serving", "none"} => stage'[d] = stage[d]
  BY DEF Shut, Break, HandshakeFails, PlanFails, ReadFails, ReadChunk, EndOfStream, Drained,
         WriterEnds, Return, ReadInv, Inv, TypeOK
<1>3. RepliesOK'
  BY <1>1, ScriptFixed DEF ReadInv, RepliesOK
<1> QED
  BY <1>1, <1>2, <1>3, QuietReads

LEMMA WriterReads ==
    ASSUME ReadInv, NEW c \in Conns, WriterSends(c) \/ WriterBreaks(c)
    PROVE  ReadParts'
<1>1. UNCHANGED <<count, script, read, groups, queue, store, dataVars, stage>>
  BY DEF WriterSends, WriterBreaks, shardVars, dataVars
<1>2. \A i : i \notin 1..Len(<<>>)
  OBVIOUS
<1>3. CASE WriterSends(c)
  <2>1. replies[c] \in Seq(Reply) /\ replies[c] # <<>>
    BY <1>3 DEF ReadInv, Inv, TypeOK, WriterSends
  <2>2. /\ 1 \in 1..Len(replies[c]) /\ Head(replies[c]) = replies[c][1]
        /\ \A j \in 1..Len(Tail(replies[c])) : j + 1 \in 1..Len(replies[c])
                                              /\ Tail(replies[c])[j] = replies[c][j + 1]
    BY <2>1, TailSeq
  <2>3. /\ replies'[c] = Tail(replies[c]) /\ answers'[c] = answers[c] \cup {Head(replies[c])}
        /\ \A d \in Conns \ {c} : replies'[d] = replies[d] /\ answers'[d] = answers[d]
    BY <1>3 DEF ReadInv, Inv, TypeOK, WriterSends
  <2>4. \A d \in Conns : \A r \in answers'[d] :
            r \in answers[d] \/ \E i \in 1..Len(replies[d]) : r = replies[d][i]
    BY <2>2, <2>3
  <2>5. \A d \in Conns : \A j \in 1..Len(replies'[d]) :
            \E i \in 1..Len(replies[d]) : replies'[d][j] = replies[d][i]
    <3> SUFFICES ASSUME NEW d \in Conns, NEW j \in 1..Len(replies'[d])
                 PROVE  \E i \in 1..Len(replies[d]) : replies'[d][j] = replies[d][i]
      OBVIOUS
    <3>1. CASE d = c
      <4>1. j + 1 \in 1..Len(replies[d]) /\ replies'[d][j] = replies[d][j + 1]
        BY <2>2, <2>3, <3>1
      <4> QED
        BY <4>1
    <3>2. CASE d # c
      BY <2>3, <3>2
    <3> QED
      BY <3>1, <3>2
  <2>6. RepliesOK'
    BY <1>1, <2>4, <2>5, RepliesStay DEF ReadInv
  <2> QED
    BY <1>1, <2>6, QuietReads
<1>4. CASE WriterBreaks(c)
  <2>1. /\ replies'[c] = <<>> /\ answers' = answers
        /\ \A d \in Conns \ {c} : replies'[d] = replies[d]
    BY <1>4 DEF ReadInv, Inv, TypeOK, WriterBreaks
  <2>2. \A d \in Conns : \A j \in 1..Len(replies'[d]) :
            \E i \in 1..Len(replies[d]) : replies'[d][j] = replies[d][i]
    BY <1>2, <2>1
  <2>3. RepliesOK'
    BY <1>1, <2>1, <2>2, RepliesStay DEF ReadInv
  <2> QED
    BY <1>1, <2>3, QuietReads
<1> QED
  BY <1>3, <1>4

LEMMA AcceptReads ==
    ASSUME ReadInv, NEW c \in Conns, NEW frames \in Traffic[c], Accept(c, frames)
    PROVE  ReadParts'
<1>1. /\ stage[c] = "none" /\ count # 0
      /\ UNCHANGED <<count, read, groups, queue, store, dataVars, replies, answers>>
  BY DEF Accept, shardVars, dataVars, ReadInv, Inv, TypeOK
<1>2. /\ stage'[c] = "handshake"
      /\ \A d \in Conns \ {c} : script'[d] = script[d] /\ stage'[d] = stage[d]
  BY DEF Accept, ReadInv, Inv, TypeOK
<1>3. /\ script[c] = <<>> /\ answers[c] = {} /\ replies[c] = <<>>
      /\ \A s \in Dirs : ~Active(c, s) /\ ~HasBatch(s, c)
      /\ \A s \in Dirs, k \in Keys : \A v \in Holds(s, k) : v[1] # c
  BY <1>1, NoneWaits DEF ReadInv, Idle
<1>4. \A i : i \notin 1..Len(<<>>)
  OBVIOUS
<1>5. Idle'
  BY <1>1, <1>2 DEF ReadInv, Idle
<1>6. OrderInv'
  BY <1>1 DEF ReadInv, OrderInv, BucketsOrdered, BatchesOrdered, BatchOrdered
<1>7. \A d \in Conns, k \in Keys : OthersDrop(d, k) => OthersDrop(d, k)'
  <2> SUFFICES ASSUME NEW d \in Conns, NEW k \in Keys, OthersDrop(d, k) PROVE OthersDrop(d, k)'
    OBVIOUS
  <2>1. PICK e \in Conns \ {d} : \E i \in 1..Len(script[e]) :
            Writes(script[e][i], k) /\ script[e][i].op # "set"
    BY DEF OthersDrop
  <2>2. script'[e] = script[e]
    BY <1>2, <1>3, <1>4, <2>1
  <2> QED
    BY <2>1, <2>2 DEF OthersDrop
<1>8. ShardsFollow'
  <2> SUFFICES ASSUME NEW d \in Conns, NEW s \in Dirs, Active(d, s)' PROVE Follows(d, s)'
    BY DEF ShardsFollow
  <2>1. d # c
    BY <1>1, <1>2, <1>3 DEF Active, HasBatch
  <2>2. Active(d, s)
    BY <1>1, <1>2, <2>1 DEF Active, HasBatch
  <2>3. \A p : Pending(d, s, p)' <=> Pending(d, s, p)
    BY <1>1 DEF Pending, InBucket, Unapplied
  <2> QED
    BY <1>1, <1>2, <1>7, <2>1, <2>2, <2>3, FollowsStays DEF ReadInv, ShardsFollow
<1>9. StoreWritten'
  <2> SUFFICES ASSUME NEW s \in Dirs, NEW k \in Keys, NEW v \in Holds(s, k) PROVE WrittenBy(v, k)'
    BY <1>1, SameData DEF StoreWritten
  <2>1. v \in Held /\ WrittenBy(v, k) /\ (v # None => v[1] # c)
    BY <1>3, HoldsRequests DEF ReadInv, Inv, StoreWritten, Held
  <2>2. v # None => v[1] \in Conns
    BY <2>1 DEF Held, Request
  <2> QED
    BY <1>2, <2>1, <2>2, WrittenStays
<1>10. ASSUME NEW d \in Conns, d # c, NEW r \in Reply, ReadOK(d, r) PROVE ReadOK(d, r)'
  <2>0. PICK k, q : k = script[d][r.pos].key /\ q = LastWrite(d, r.pos, k)
    OBVIOUS
  <2>1. script'[d] = script[d]
    BY <1>2, <1>10
  <2>2. \A p, x : LastWrite(d, p, x)' = LastWrite(d, p, x)
    BY <2>1 DEF LastWrite
  <2>3. r.val \in Held
    BY DEF Reply
  <2>4. ASSUME r.res = "value" PROVE WrittenBy(r.val, k)' /\ r.val # None /\ (r.val[1] = d => r.val[2] = q)
    <3>1. r.val # None /\ WrittenBy(r.val, k) /\ (r.val[1] = d => r.val[2] = q)
      BY <1>10, <2>0, <2>4 DEF ReadOK
    <3>2. r.val[1] \in Conns
      BY <2>3, <3>1 DEF Held, Request
    <3>3. r.val[1] # c
      BY <1>3, <1>4, <3>1 DEF WrittenBy
    <3>4. WrittenBy(r.val, k)'
      BY <1>2, <2>3, <3>1, <3>2, <3>3, WrittenStays
    <3> QED
      BY <3>1, <3>4
  <2>5. ASSUME NEW x, OthersDrop(d, x) PROVE OthersDrop(d, x)'
    <3>1. PICK e \in Conns \ {d} : \E i \in 1..Len(script[e]) :
              Writes(script[e][i], x) /\ script[e][i].op # "set"
      BY <2>5 DEF OthersDrop
    <3>2. script'[e] = script[e]
      BY <1>2, <1>3, <1>4, <3>1
    <3> QED
      BY <3>1, <3>2 DEF OthersDrop
  <2> QED
    <3>1. k = script'[d][r.pos].key /\ q = LastWrite(d, r.pos, k)'
      BY <2>0, <2>1, <2>2
    <3>2. r.res = "(nil)" /\ q # 0 /\ script[d][q].op = "set" => OthersDrop(d, k)'
      BY <1>10, <2>0, <2>5 DEF ReadOK
    <3> QED
      BY <2>1, <2>4, <3>1, <3>2 DEF ReadOK
<1>11. RepliesOK'
  <2> SUFFICES ASSUME NEW d \in Conns
               PROVE  /\ \A r \in answers[d] : ReadOK(d, r)'
                      /\ \A i \in 1..Len(replies[d]) : \A r : r = replies[d][i] => ReadOK(d, r)'
    BY <1>1 DEF RepliesOK
  <2>1. CASE d = c
    BY <1>3, <1>4, <2>1
  <2>2. CASE d # c
    <3>1. answers[d] \subseteq Reply /\ replies[d] \in Seq(Reply)
      BY DEF ReadInv, Inv, TypeOK
    <3>2. \A i \in 1..Len(replies[d]) : replies[d][i] \in Reply
      BY <3>1, ElementOfSeq
    <3>3. /\ \A r \in answers[d] : ReadOK(d, r)
          /\ \A i \in 1..Len(replies[d]) : ReadOK(d, replies[d][i])
      BY DEF ReadInv, RepliesOK
    <3> QED
      BY <1>10, <2>2, <3>1, <3>2, <3>3
  <2> QED
    BY <2>1, <2>2
<1> QED
  BY <1>5, <1>6, <1>8, <1>9, <1>11 DEF ReadParts

\* The reader has planned the frame at p0, and bucketed it if it is for s.
LEMMA PlannedFollows ==
    ASSUME NEW c \in Conns, NEW s \in Dirs, Follows(c, s), UNCHANGED <<script, store, count>>,
           NEW p0 \in Nat, read[c] \in Nat, p0 = read[c] + 1, read'[c] = p0,
           \A p : Pending(c, s, p)' <=> Pending(c, s, p) \/ (p = p0 /\ Routed(c, p0, s))
    PROVE  Follows(c, s)'
<1>1. /\ \A p : Routed(c, p, s)' <=> Routed(c, p, s)
      /\ \A k : Writes(script[c][p0], k) /\ route_hash(k, count) = s => Routed(c, p0, s)
  BY WritesIsOp DEF Routed
<1>2. \A w \in Nat : w <= read'[c] => w <= read[c] \/ w = p0
  OBVIOUS
<1>3. \A k \in Keys, q \in Nat : LastApplied(c, s, q, k)' => LastApplied(c, s, q, k)
  BY DEF LastApplied
<1>4. PendingRouted(c, s)'
  <2> SUFFICES ASSUME NEW p \in Nat, Pending(c, s, p)'
               PROVE  /\ Routed(c, p, s)
                      /\ \A w \in Nat : p < w /\ w <= read'[c] /\ Routed(c, w, s) => Pending(c, s, w)'
    BY <1>1 DEF PendingRouted
  <2>1. CASE Pending(c, s, p)
    BY <1>2, <2>1 DEF Follows, PendingRouted
  <2>2. CASE p = p0 /\ Routed(c, p0, s)
    BY <2>2
  <2> QED
    BY <2>1, <2>2
<1>5. OwnWriteIsLast(c, s)'
  <2> SUFFICES ASSUME NEW k \in Keys, NEW q \in Nat, store[s][k] = <<c, q>>
               PROVE  /\ q <= read'[c] /\ route_hash(k, count) = s
                      /\ \A p \in Nat : Pending(c, s, p)' => q < p
                      /\ LastApplied(c, s, q, k)'
    BY DEF OwnWriteIsLast
  <2>1. /\ q <= read[c] /\ route_hash(k, count) = s
        /\ \A p \in Nat : Pending(c, s, p) => q < p
        /\ LastApplied(c, s, q, k)
    BY DEF Follows, OwnWriteIsLast
  <2>2. LastApplied(c, s, q, k)'
    BY <1>1, <1>2, <2>1 DEF LastApplied
  <2> QED
    BY <2>1, <2>2
<1>6. MissExplained(c, s)'
  <2> SUFFICES ASSUME NEW k \in Keys, NEW q \in Nat,
                      q \in 1..read'[c], route_hash(k, count) = s, store[s][k] = None,
                      Writes(script[c][q], k), script[c][q].op = "set", ~Pending(c, s, q)',
                      LastApplied(c, s, q, k)'
               PROVE  OthersDrop(c, k)
    BY ScriptFixed DEF MissExplained
  <2>1. q # p0 /\ ~Pending(c, s, q)
    BY <1>1
  <2>2. q \in 1..read[c] /\ LastApplied(c, s, q, k)
    BY <1>2, <1>3, <2>1
  <2> QED
    BY <2>1, <2>2 DEF Follows, MissExplained
<1> QED
  BY <1>4, <1>5, <1>6 DEF Follows

LEMMA PlanOpReads ==
    ASSUME ReadInv, NEW c \in Conns, PlanOp(c)
    PROVE  ReadParts'
<1> DEFINE t == route_hash(NextFrame(c).key, count)
           p0 == read[c] + 1
<1>1. /\ stage[c] = "serving" /\ ~Planned(c) /\ IsOp(NextFrame(c))
      /\ groups' = [groups EXCEPT ![c][t] = Append(@, p0)]
      /\ read' = [read EXCEPT ![c] = @ + 1]
      /\ UNCHANGED <<count, script, stage, replies, answers, queue, store, dataVars>>
  BY DEF PlanOp, shardVars, dataVars
<1>2. p0 \in Nat /\ read[c] \in Nat
  BY <1>1, NextPosition DEF ReadInv
<1>3. \A s : Routed(c, p0, s) <=> s = t
  BY <1>1 DEF Routed, NextFrame
<1> HIDE DEF t
<1>4. /\ read'[c] = p0 /\ \A d \in Conns \ {c} : read'[d] = read[d]
      /\ \A d \in Conns \ {c} : groups'[d] = groups[d]
      /\ \A s \in Dirs : groups'[c][s] = IF s = t THEN Append(groups[c][s], p0) ELSE groups[c][s]
      /\ \A d \in Conns, s \in Dirs : groups[d][s] \in Seq(Nat)
      /\ read' \in [Conns -> Nat]
  <2>1. groups[c] \in [Dirs -> Seq(Nat)]
    BY DEF ReadInv, Inv, TypeOK
  <2>2. groups' = [groups EXCEPT ![c] = [groups[c] EXCEPT ![t] = Append(@, p0)]]
    BY <1>1
  <2> QED
    BY <1>1, <1>2, <2>1, <2>2 DEF ReadInv, Inv, TypeOK
<1>5. \A s \in Dirs : \A i \in 1..Len(groups'[c][s]) :
          \/ i \in 1..Len(groups[c][s]) /\ groups'[c][s][i] = groups[c][s][i]
          \/ s = t /\ i = Len(groups[c][s]) + 1 /\ groups'[c][s][i] = p0
  <2> SUFFICES ASSUME NEW s \in Dirs, s = t, NEW i \in 1..Len(groups'[c][s])
               PROVE  \/ i \in 1..Len(groups[c][s]) /\ groups'[c][s][i] = groups[c][s][i]
                      \/ i = Len(groups[c][s]) + 1 /\ groups'[c][s][i] = p0
    BY <1>4
  <2> DEFINE g == groups[c][s]
  <2>1. g \in Seq(Nat) /\ groups'[c][s] = Append(g, p0)
    BY <1>4
  <2> HIDE DEF p0, g
  <2>2. /\ Len(groups'[c][s]) = Len(g) + 1 /\ Len(g) \in Nat /\ groups'[c][s][Len(g) + 1] = p0
        /\ \A j \in 1..Len(g) : groups'[c][s][j] = g[j]
    BY <1>2, <2>1, AppendSeq
  <2>3. i \in 1..Len(g) \/ i = Len(g) + 1
    BY <2>2
  <2> QED
    BY <2>2, <2>3 DEF g
<1>6. \A s \in Dirs : \A p : InBucket(c, s, p)' <=> InBucket(c, s, p) \/ (p = p0 /\ s = t)
  <2> SUFFICES ASSUME NEW s \in Dirs, NEW p
               PROVE  InBucket(c, s, p)' <=> InBucket(c, s, p) \/ (p = p0 /\ s = t)
    OBVIOUS
  <2>1. InBucket(c, s, p)' => InBucket(c, s, p) \/ (p = p0 /\ s = t)
    BY <1>5 DEF InBucket
  <2>2. CASE s # t
    BY <1>4, <2>1, <2>2 DEF InBucket
  <2>3. CASE s = t
    <3> DEFINE g == groups[c][s]
    <3>1. g \in Seq(Nat) /\ groups'[c][s] = Append(g, p0)
      BY <1>4, <2>3
    <3> HIDE DEF g, p0
    <3>2. /\ Len(groups'[c][s]) = Len(g) + 1 /\ Len(g) \in Nat /\ groups'[c][s][Len(g) + 1] = p0
          /\ \A i \in 1..Len(g) : groups'[c][s][i] = g[i]
      BY <1>2, <3>1, AppendSeq
    <3>3. Len(g) + 1 \in 1..Len(groups'[c][s]) /\ \A i \in 1..Len(g) : i \in 1..Len(groups'[c][s])
      BY <3>2
    <3>4. (\E i \in 1..Len(g) : g[i] = p) \/ p = p0 => InBucket(c, s, p)'
      BY <3>2, <3>3 DEF InBucket
    <3> QED
      BY <2>1, <2>3, <3>4 DEF InBucket, g
  <2> QED
    BY <2>2, <2>3
<1> HIDE DEF p0
<1>7. p0 = read[c] + 1
  BY DEF p0
<1>8. ShardsFollow'
  <2> SUFFICES ASSUME NEW d \in Conns, NEW s \in Dirs, Active(d, s)' PROVE Follows(d, s)'
    BY DEF ShardsFollow
  <2>1. Active(d, s)
    BY <1>1 DEF Active, HasBatch
  <2>2. Follows(d, s)
    BY <2>1 DEF ReadInv, ShardsFollow
  <2>3. \A p : Unapplied(d, s, p)' <=> Unapplied(d, s, p)
    BY <1>1 DEF Unapplied
  <2>4. CASE d # c
    <3>1. \A p : Pending(d, s, p)' <=> Pending(d, s, p)
      BY <1>4, <2>3, <2>4 DEF Pending, InBucket
    <3> QED
      BY <1>1, <1>4, <2>2, <2>4, <3>1, FollowsStays, ScriptFixed
  <2>5. CASE d = c
    <3>1. \A p : Pending(c, s, p)' <=> Pending(c, s, p) \/ (p = p0 /\ Routed(c, p0, s))
      BY <1>3, <1>6, <2>3, <2>5 DEF Pending
    <3> QED
      BY <1>1, <1>2, <1>4, <1>7, <2>2, <2>5, <3>1, PlannedFollows
  <2> QED
    BY <2>4, <2>5
<1>9. BucketsOrdered'
  <2> SUFFICES ASSUME NEW d \in Conns, NEW s \in Dirs
               PROVE  /\ Increasing(groups'[d][s])
                      /\ \A i \in 1..Len(groups'[d][s]) : groups'[d][s][i] <= read'[d]
    BY DEF BucketsOrdered, Increasing
  <2>1. /\ Increasing(groups[d][s]) /\ \A i \in 1..Len(groups[d][s]) : groups[d][s][i] <= read[d]
        /\ groups[d][s] \in Seq(Nat)
    BY <1>4 DEF ReadInv, OrderInv, BucketsOrdered
  <2>2. CASE d # c
    BY <1>4, <2>1, <2>2
  <2>3. CASE d = c
    <3>0. /\ Len(groups[c][s]) \in Nat
          /\ \A i \in 1..Len(groups[c][s]) : groups[c][s][i] \in Nat /\ groups[c][s][i] < p0
      <4>1. Len(groups[c][s]) \in Nat /\ \A i \in 1..Len(groups[c][s]) : groups[c][s][i] \in Nat
        BY <2>1, <2>3, LenProperties, ElementOfSeq
      <4>2. ASSUME NEW i \in 1..Len(groups[c][s]) PROVE groups[c][s][i] < p0
        <5>1. groups[c][s][i] \in Nat /\ groups[c][s][i] <= read[c]
          BY <2>1, <2>3, <4>1
        <5> QED
          BY <1>2, <1>7, <5>1
      <4> QED
        BY <4>1, <4>2
    <3>1. ASSUME NEW i \in 1..Len(groups'[c][s]) PROVE groups'[c][s][i] <= p0
      <4>1. CASE i \in 1..Len(groups[c][s]) /\ groups'[c][s][i] = groups[c][s][i]
        BY <1>2, <3>0, <4>1
      <4>2. CASE groups'[c][s][i] = p0
        BY <1>2, <4>2
      <4> QED
        BY <1>5, <4>1, <4>2
    <3>2. Increasing(groups'[c][s])
      <4> SUFFICES ASSUME NEW i \in 1..Len(groups'[c][s]), NEW j \in 1..Len(groups'[c][s]), i < j
                   PROVE  groups'[c][s][i] < groups'[c][s][j]
        BY DEF Increasing
      <4> DEFINE n == Len(groups[c][s])
      <4>1. CASE j \in 1..n /\ groups'[c][s][j] = groups[c][s][j]
        <5>1. i \in 1..n /\ i # n + 1
          BY <3>0, <4>1
        <5>2. groups'[c][s][i] = groups[c][s][i]
          BY <1>5, <5>1
        <5> QED
          BY <2>1, <2>3, <4>1, <5>1, <5>2 DEF Increasing
      <4>2. CASE j = n + 1 /\ groups'[c][s][j] = p0
        <5>1. i \in 1..n /\ i # n + 1
          BY <3>0, <4>2
        <5>2. groups'[c][s][i] = groups[c][s][i]
          BY <1>5, <5>1
        <5> QED
          BY <3>0, <4>2, <5>1, <5>2
      <4> QED
        BY <1>5, <4>1, <4>2
    <3> QED
      BY <1>4, <2>3, <3>1, <3>2
  <2> QED
    BY <2>2, <2>3
<1>10. BatchesOrdered'
  <2> SUFFICES ASSUME NEW s \in Dirs, NEW i \in 1..Len(queue[s])
               PROVE  BatchOrdered(s, i)' /\ \A j \in 1..Len(queue[s]) : i < j => Before(queue[s][i], queue[s][j])
    BY <1>1 DEF BatchesOrdered, Before
  <2> DEFINE b == queue[s][i]
  <2>1. BatchOrdered(s, i) /\ \A j \in 1..Len(queue[s]) : i < j => Before(queue[s][i], queue[s][j])
    BY DEF ReadInv, OrderInv, BatchesOrdered
  <2>2. b.conn \in Conns /\ b.ops \in Seq(Nat)
    <3>1. queue[s] \in Seq(Batch)
      BY DEF ReadInv, Inv, TypeOK
    <3>2. b \in Batch
      BY <3>1, ElementOfSeq
    <3> QED
      BY <3>2 DEF Batch
  <2>3. Increasing(b.ops) /\ \A j \in 1..Len(b.ops) :
            /\ b.ops[j] <= read[b.conn]
            /\ \A m \in 1..Len(groups[b.conn][s]) : b.ops[j] < groups[b.conn][s][m]
    BY <2>1 DEF BatchOrdered
  <2>4. queue'[s][i] = b
    BY <1>1
  <2> HIDE DEF b
  <2>5. ASSUME NEW j \in 1..Len(b.ops)
        PROVE  /\ b.ops[j] <= read'[b.conn]
               /\ \A m \in 1..Len(groups'[b.conn][s]) : b.ops[j] < groups'[b.conn][s][m]
    <3>1. CASE b.conn # c
      BY <1>4, <2>2, <2>3, <3>1
    <3>2. CASE b.conn = c
      <4>1. b.ops[j] \in Nat /\ b.ops[j] <= read[c]
        BY <2>2, <2>3, <3>2, ElementOfSeq
      <4>2. b.ops[j] < p0 /\ b.ops[j] <= read'[c]
        BY <1>2, <1>4, <1>7, <4>1
      <4> QED
        BY <1>5, <2>3, <3>2, <4>2
    <3> QED
      BY <3>1, <3>2
  <2>6. BatchOrdered(s, i)'
    BY <2>3, <2>4, <2>5 DEF BatchOrdered
  <2> QED
    BY <2>1, <2>6
<1>11. Idle' /\ StoreWritten' /\ RepliesOK'
  BY <1>1, ScriptFixed, SameData, WrittenKept DEF ReadInv, Idle, NoBatches, RepliesOK
<1> QED
  BY <1>8, <1>9, <1>10, <1>11 DEF ReadParts, OrderInv

LEMMA PlanImmediateReads ==
    ASSUME ReadInv, NEW c \in Conns, PlanImmediate(c)
    PROVE  ReadParts'
<1> DEFINE p0 == read[c] + 1
           r == Plain(p0, Immediate(NextFrame(c)))
<1>1. /\ stage[c] = "serving" /\ ~Planned(c) /\ ~IsOp(NextFrame(c)) /\ NextFrame(c).kind # "undecodable"
      /\ replies' = [replies EXCEPT ![c] = Append(@, r)]
      /\ read' = [read EXCEPT ![c] = @ + 1]
      /\ UNCHANGED <<count, script, stage, groups, answers, queue, store, dataVars>>
  BY DEF PlanImmediate, shardVars, dataVars
<1>2. p0 \in Nat /\ read[c] \in Nat /\ NextFrame(c) \in Frame
  BY <1>1, NextPosition DEF ReadInv
<1>3. \A s : ~Routed(c, p0, s)
  BY <1>1 DEF Routed, NextFrame
<1>4. ReadOK(c, r)
  <2>1. Immediate(NextFrame(c)) \notin {"value", "(nil)"}
    <3>1. NextFrame(c).kind \in {"Request", "Heartbeat", "HandShake", "Response"}
      BY <1>1, <1>2 DEF Frame
    <3> QED
      BY <3>1 DEF Immediate
  <2> QED
    BY <2>1, PlainOK
<1> HIDE DEF r, p0
<1>5. /\ p0 = read[c] + 1 /\ read'[c] = p0 /\ \A d \in Conns \ {c} : read'[d] = read[d]
      /\ read' \in [Conns -> Nat] /\ \A d \in Conns : read[d] <= read'[d]
  BY <1>1, <1>2 DEF ReadInv, Inv, TypeOK, p0
<1>6. OrderInv'
  BY <1>1, <1>5, OrderStays DEF ReadInv, Inv
<1>7. ShardsFollow'
  <2> SUFFICES ASSUME NEW d \in Conns, NEW s \in Dirs, Active(d, s)' PROVE Follows(d, s)'
    BY DEF ShardsFollow
  <2>1. Active(d, s)
    BY <1>1 DEF Active, HasBatch
  <2>2. Follows(d, s)
    BY <2>1 DEF ReadInv, ShardsFollow
  <2>3. \A p : Pending(d, s, p)' <=> Pending(d, s, p)
    BY <1>1 DEF Pending, InBucket, Unapplied
  <2>4. CASE d # c
    BY <1>1, <1>5, <2>2, <2>3, <2>4, FollowsStays, ScriptFixed
  <2>5. CASE d = c
    BY <1>1, <1>2, <1>3, <1>5, <2>2, <2>3, <2>5, PlannedFollows
  <2> QED
    BY <2>4, <2>5
<1>8. RepliesOK'
  <2>1. replies[c] \in Seq(Reply) /\ replies'[c] = Append(replies[c], r)
        /\ \A d \in Conns \ {c} : replies'[d] = replies[d]
    BY <1>1 DEF ReadInv, Inv, TypeOK
  <2>2. /\ Len(replies[c]) \in Nat /\ Len(replies'[c]) = Len(replies[c]) + 1
        /\ replies'[c][Len(replies[c]) + 1] = r
        /\ \A i \in 1..Len(replies[c]) : replies'[c][i] = replies[c][i]
    BY <2>1, AppendAny
  <2>3. \A j \in 1..Len(replies'[c]) :
            j \in 1..Len(replies[c]) \/ replies'[c][j] = r
    BY <2>2
  <2>4. \A d \in Conns : \A j \in 1..Len(replies'[d]) :
            (\E i \in 1..Len(replies[d]) : replies'[d][j] = replies[d][i]) \/ ReadOK(d, replies'[d][j])
    BY <1>4, <2>1, <2>2, <2>3
  <2> QED
    BY <1>1, <2>4, RepliesStay DEF ReadInv
<1>9. Idle' /\ StoreWritten'
  BY <1>1, SameData, WrittenKept DEF ReadInv, Idle, NoBatches
<1> QED
  BY <1>6, <1>7, <1>8, <1>9 DEF ReadParts

LEMMA HandshakeReads ==
    ASSUME ReadInv, NEW c \in Conns, Handshake(c)
    PROVE  ReadParts'
<1> DEFINE res == Greeting(NextFrame(c))
<1>1. /\ stage[c] = "handshake"
      /\ answers' = [answers EXCEPT ![c] = @ \cup {Plain(1, res)}]
      /\ stage' = [stage EXCEPT ![c] = IF res = "OK" THEN "serving" ELSE "ended"]
      /\ read' = [read EXCEPT ![c] = 1]
      /\ UNCHANGED <<count, script, groups, replies, queue, store, dataVars>>
  BY DEF Handshake, shardVars, dataVars
<1>2. /\ read[c] = 0 /\ \A s \in Dirs : ~HasBatch(s, c) /\ \A p : ~Pending(c, s, p)
      /\ \A s \in Dirs, k \in Keys : store[s][k] # None => store[s][k][1] # c
  BY <1>1, NoneWaits DEF ReadInv, Holds
<1>3. /\ res \notin {"value", "(nil)"}
      /\ res = "OK" => script[c][1].kind = "HandShake"
  BY <1>2 DEF Greeting, NextFrame
<1> HIDE DEF res
<1>4. /\ read' \in [Conns -> Nat] /\ \A d \in Conns : read[d] <= read'[d]
      /\ read'[c] = 1 /\ stage'[c] = (IF res = "OK" THEN "serving" ELSE "ended")
      /\ answers'[c] = answers[c] \cup {Plain(1, res)}
      /\ \A d \in Conns \ {c} : /\ read'[d] = read[d] /\ stage'[d] = stage[d]
                                /\ answers'[d] = answers[d]
  BY <1>1, <1>2 DEF ReadInv, Inv, TypeOK
<1>5. OrderInv'
  BY <1>1, <1>4, OrderStays DEF ReadInv, Inv
<1>6. ShardsFollow'
  <2> SUFFICES ASSUME NEW d \in Conns, NEW s \in Dirs, Active(d, s)' PROVE Follows(d, s)'
    BY DEF ShardsFollow
  <2>1. \A p : Pending(d, s, p)' <=> Pending(d, s, p)
    BY <1>1 DEF Pending, InBucket, Unapplied
  <2>2. CASE d # c
    <3>1. Active(d, s)
      BY <1>1, <1>4, <2>2 DEF Active, HasBatch
    <3> QED
      BY <1>1, <1>4, <2>1, <2>2, <3>1, FollowsStays, ScriptFixed DEF ReadInv, ShardsFollow
  <2>3. CASE d = c
    <3>1. ~HasBatch(s, c)'
      BY <1>1, <1>2 DEF HasBatch
    <3>2. script[c][1].kind = "HandShake" /\ \A k : ~Writes(script[c][1], k)
      BY <1>3, <1>4, <2>3, <3>1 DEF Active, Writes
    <3>3. \A p : ~Pending(c, s, p)'
      BY <1>2, <2>1, <2>3
    <3>4. PendingRouted(c, s)'
      BY <3>3 DEF PendingRouted
    <3>5. OwnWriteIsLast(c, s)'
      <4>1. \A k \in Keys, q \in Nat : <<c, q>> # None /\ <<c, q>>[1] = c
        BY ServerAssumption
      <4>2. \A k \in Keys, q \in Nat : store'[s][k] # <<c, q>>
        BY <1>1, <1>2, <4>1
      <4> QED
        BY <4>2 DEF OwnWriteIsLast
    <3>6. MissExplained(c, s)'
      <4>1. \A q \in 1..read'[c] : q = 1
        BY <1>4
      <4>2. \A k, q : q \in 1..read'[c] => ~Writes(script'[c][q], k)
        BY <1>1, <3>2, <4>1
      <4> QED
        BY <4>2 DEF MissExplained
    <3> QED
      BY <2>3, <3>4, <3>5, <3>6 DEF Follows
  <2> QED
    BY <2>2, <2>3
<1>7. RepliesOK'
  <2>1. ReadOK(c, Plain(1, res))
    BY <1>3, PlainOK
  <2>2. \A d \in Conns : \A r \in answers'[d] : r \in answers[d] \/ ReadOK(d, r)
    BY <1>4, <2>1
  <2> QED
    BY <1>1, <2>2, RepliesStay DEF ReadInv
<1>8. Idle' /\ StoreWritten'
  BY <1>1, <1>4, SameData, WrittenKept DEF ReadInv, Idle, NoBatches
<1> QED
  BY <1>5, <1>6, <1>7, <1>8 DEF ReadParts

\* The bucket becomes the last batch of its shard: nothing overtakes.
LEMMA DispatchReads ==
    ASSUME ReadInv, NEW c \in Conns, Dispatch(c)
    PROVE  ReadParts'
<1>0. PICK t \in Dirs : t = Min(Bucketed(c))
  BY FirstBucket DEF Dispatch
<1>1. PICK g, n, b : g = groups[c][t] /\ n = Len(queue[t]) /\ b = [conn |-> c, ops |-> g, next |-> 1]
  OBVIOUS
<1>2. /\ stage[c] = "serving"
      /\ queue' = [queue EXCEPT ![t] = Append(@, b)]
      /\ groups' = [groups EXCEPT ![c][t] = <<>>]
      /\ UNCHANGED <<count, script, stage, read, replies, answers, store, dataVars>>
  BY <1>0, <1>1 DEF Dispatch, dataVars
<1>3. b.conn = c /\ b.ops = g /\ b.next = 1 /\ b \in Batch /\ g \in Seq(Nat)
  <2>1. g \in Seq(Nat)
    BY <1>1 DEF ReadInv, Inv, TypeOK
  <2> QED
    BY <1>1, <2>1 DEF Batch
<1>4. /\ n \in Nat /\ Len(queue'[t]) = n + 1 /\ queue'[t][n + 1] = b
      /\ \A i \in 1..n : queue'[t][i] = queue[t][i]
      /\ \A s \in Dirs \ {t} : queue'[s] = queue[s]
  <2>1. queue[t] \in Seq(Batch) /\ queue'[t] = Append(queue[t], b)
        /\ \A s \in Dirs \ {t} : queue'[s] = queue[s]
    BY <1>2 DEF ReadInv, Inv, TypeOK
  <2> QED
    BY <1>1, <1>3, <2>1, AppendSeq
<1>5. /\ \A d \in Conns \ {c} : groups'[d] = groups[d]
      /\ groups'[c][t] = <<>> /\ \A s \in Dirs \ {t} : groups'[c][s] = groups[c][s]
  <2>1. groups \in [Conns -> [Dirs -> Seq(Nat)]]
    BY DEF ReadInv, Inv, TypeOK
  <2>2. groups' = [groups EXCEPT ![c] = [groups[c] EXCEPT ![t] = <<>>]]
    BY <1>2
  <2> QED
    BY <2>1, <2>2
<1>6. 1..Len(queue'[t]) = 1..n \cup {n + 1} /\ \A i : i \notin 1..Len(<<>>)
  BY <1>4
<1>7. ASSUME NEW d \in Conns, NEW s \in Dirs, NEW p PROVE Pending(d, s, p)' <=> Pending(d, s, p)
  <2>1. CASE s # t
    <3>1. queue'[s] = queue[s] /\ groups'[d][s] = groups[d][s]
      BY <1>4, <1>5, <2>1
    <3> QED
      BY <3>1 DEF Pending, InBucket, Unapplied
  <2>2. CASE s = t
    <3> DEFINE W(x) == x.conn = d /\ \E j \in x.next..Len(x.ops) : x.ops[j] = p
    <3>1. /\ Unapplied(d, t, p) <=> \E i \in 1..n : W(queue[t][i])
          /\ Unapplied(d, t, p)' <=> \E i \in 1..Len(queue'[t]) : W(queue'[t][i])
      BY <1>1 DEF Unapplied
    <3>2. W(b) <=> c = d /\ InBucket(c, t, p)
      BY <1>1, <1>3 DEF InBucket
    <3> HIDE DEF W
    <3>3. Unapplied(d, t, p)' <=> Unapplied(d, t, p) \/ (c = d /\ InBucket(c, t, p))
      BY <1>4, <1>6, <3>1, <3>2
    <3>4. InBucket(d, t, p)' <=> InBucket(d, t, p) /\ c # d
      BY <1>5, <1>6 DEF InBucket
    <3> QED
      BY <2>2, <3>3, <3>4 DEF Pending
  <2> QED
    BY <2>1, <2>2
<1>8. ShardsFollow'
  <2> SUFFICES ASSUME NEW d \in Conns, NEW s \in Dirs, Active(d, s)' PROVE Follows(d, s)'
    BY DEF ShardsFollow
  <2>1. Active(d, s)
    <3>1. CASE d = c
      BY <1>2, <3>1 DEF Active
    <3>2. CASE d # c
      <4>1. HasBatch(s, d)' => HasBatch(s, d)
        BY <1>1, <1>3, <1>4, <1>6, <3>2 DEF HasBatch
      <4> QED
        BY <1>2, <4>1 DEF Active
    <3> QED
      BY <3>1, <3>2
  <2> QED
    BY <1>2, <1>7, <2>1, FollowsStays, ScriptFixed DEF ReadInv, ShardsFollow
<1>9. BucketsOrdered'
  <2> SUFFICES ASSUME NEW d \in Conns, NEW s \in Dirs
               PROVE  /\ Increasing(groups'[d][s])
                      /\ \A i \in 1..Len(groups'[d][s]) : groups'[d][s][i] <= read[d]
    BY <1>2 DEF BucketsOrdered, Increasing
  <2>1. Increasing(groups[d][s]) /\ \A i \in 1..Len(groups[d][s]) : groups[d][s][i] <= read[d]
    BY DEF ReadInv, OrderInv, BucketsOrdered
  <2>2. CASE d = c /\ s = t
    BY <1>5, <1>6, <2>2 DEF Increasing
  <2>3. CASE d # c \/ s # t
    BY <1>5, <2>1, <2>3
  <2> QED
    BY <2>2, <2>3
<1>10. \A s \in Dirs : \A i \in 1..Len(queue[s]) :
           /\ BatchOrdered(s, i)
           /\ \A j \in 1..Len(queue[s]) : i < j => Before(queue[s][i], queue[s][j])
  BY DEF ReadInv, OrderInv, BatchesOrdered
<1>11. ASSUME NEW s \in Dirs, NEW i \in 1..Len(queue[s]), queue'[s][i] = queue[s][i]
       PROVE  BatchOrdered(s, i)'
  <2> DEFINE a == queue[s][i]
  <2>1. a.conn \in Conns
    <3>1. queue[s] \in Seq(Batch)
      BY DEF ReadInv, Inv, TypeOK
    <3>2. a \in Batch
      BY <3>1, ElementOfSeq
    <3> QED
      BY <3>2 DEF Batch
  <2>2. Increasing(a.ops) /\ \A j \in 1..Len(a.ops) :
            /\ a.ops[j] <= read[a.conn]
            /\ \A m \in 1..Len(groups[a.conn][s]) : a.ops[j] < groups[a.conn][s][m]
    BY <1>10 DEF BatchOrdered
  <2>3. queue'[s][i] = a
    BY <1>11
  <2> HIDE DEF a
  <2>4. groups'[a.conn][s] = groups[a.conn][s] \/ groups'[a.conn][s] = <<>>
    BY <1>5, <2>1
  <2>5. \A j \in 1..Len(a.ops) : \A m \in 1..Len(groups'[a.conn][s]) : a.ops[j] < groups'[a.conn][s][m]
    BY <1>6, <2>2, <2>4
  <2> QED
    BY <1>2, <2>2, <2>3, <2>5 DEF BatchOrdered
<1>12. BatchOrdered(t, n + 1)'
  <2>1. Increasing(g) /\ \A j \in 1..Len(g) : g[j] <= read[c]
    BY <1>1 DEF ReadInv, OrderInv, BucketsOrdered
  <2> QED
    BY <1>2, <1>3, <1>4, <1>5, <1>6, <2>1 DEF BatchOrdered
<1>13. ASSUME NEW i \in 1..n PROVE Before(queue[t][i], b)
  <2>1. BatchOrdered(t, i)
    BY <1>1, <1>10
  <2> QED
    BY <1>1, <1>3, <2>1 DEF BatchOrdered, Before
<1>14. BatchesOrdered'
  <2> SUFFICES ASSUME NEW s \in Dirs, NEW i \in 1..Len(queue'[s])
               PROVE  /\ BatchOrdered(s, i)'
                      /\ \A j \in 1..Len(queue'[s]) : i < j => Before(queue'[s][i], queue'[s][j])
    BY DEF BatchesOrdered, Before
  <2>1. CASE s # t
    BY <1>4, <1>10, <1>11, <2>1
  <2>2. CASE s = t
    <3>1. \A j \in 1..n : j < n + 1 /\ queue'[t][j] = queue[t][j]
      BY <1>4
    <3>2. BatchOrdered(s, i)'
      <4>1. CASE i \in 1..n
        BY <1>1, <1>11, <2>2, <3>1, <4>1
      <4>2. CASE i = n + 1
        BY <1>12, <2>2, <4>2
      <4> QED
        BY <1>6, <2>2, <4>1, <4>2
    <3>3. ASSUME NEW j \in 1..Len(queue'[s]), i < j PROVE Before(queue'[s][i], queue'[s][j])
      <4>1. i \in 1..n
        BY <1>4, <2>2, <3>3
      <4>2. CASE j \in 1..n
        BY <1>1, <1>10, <2>2, <3>1, <3>3, <4>1, <4>2
      <4>3. CASE j = n + 1
        BY <1>4, <1>13, <2>2, <4>1, <4>3
      <4> QED
        BY <1>6, <2>2, <4>2, <4>3
    <3> QED
      BY <3>2, <3>3
  <2> QED
    BY <2>1, <2>2
<1>15. Idle'
  <2>1. count # 0
    BY <1>2 DEF ReadInv, Inv, CountKnown
  <2> QED
    BY <1>2, <2>1 DEF ReadInv, Idle
<1>16. StoreWritten' /\ RepliesOK'
  BY <1>2, ScriptFixed, SameData, WrittenKept DEF ReadInv, RepliesOK
<1> QED
  BY <1>8, <1>9, <1>14, <1>15, <1>16 DEF ReadParts, OrderInv

\* The batch that ends has nothing left to apply; the others move up.
LEMMA EndBatchReads ==
    ASSUME ReadInv, NEW s \in Dirs, EndBatch(s)
    PROVE  ReadParts'
<1>0. PICK q : q = queue[s]
  OBVIOUS
<1>1. /\ q # <<>> /\ q[1].next > Len(q[1].ops)
      /\ queue' = [queue EXCEPT ![s] = Tail(@)]
      /\ UNCHANGED <<count, script, stage, read, groups, replies, answers, store>>
  BY <1>0 DEF EndBatch, connVars
<1>2. /\ q \in Seq(Batch) /\ Len(q) \in Nat \ {0} /\ q[1] \in Batch
      /\ Len(Tail(q)) = Len(q) - 1
      /\ \A i \in 1..Len(Tail(q)) : Tail(q)[i] = q[i + 1] /\ i + 1 \in 1..Len(q)
  <2>1. q \in Seq(Batch)
    BY <1>0 DEF ReadInv, Inv, TypeOK
  <2> QED
    BY <1>1, <2>1, TailSeq
<1>3. queue'[s] = Tail(q) /\ \A t \in Dirs \ {s} : queue'[t] = queue[t]
  BY <1>0, <1>1 DEF ReadInv, Inv, TypeOK
<1>4. \A i \in 1..Len(q) : i = 1 \/ (i - 1 \in 1..Len(Tail(q)) /\ q[i] = Tail(q)[i - 1])
  BY <1>2
<1>5. ASSUME NEW d \in Conns, NEW t \in Dirs, NEW p PROVE Pending(d, t, p)' <=> Pending(d, t, p)
  <2>1. CASE t # s
    BY <1>1, <1>3, <2>1 DEF Pending, InBucket, Unapplied
  <2>2. CASE t = s
    <3> DEFINE W(x) == x.conn = d /\ \E j \in x.next..Len(x.ops) : x.ops[j] = p
    <3>1. /\ Unapplied(d, s, p) <=> \E i \in 1..Len(q) : W(q[i])
          /\ Unapplied(d, s, p)' <=> \E i \in 1..Len(Tail(q)) : W(Tail(q)[i])
      BY <1>0, <1>3 DEF Unapplied
    <3>2. ~W(q[1])
      <4>1. q[1].next \in Nat /\ Len(q[1].ops) \in Nat
        BY <1>2, LenProperties DEF Batch
      <4>2. q[1].next..Len(q[1].ops) = {}
        BY <1>1, <4>1
      <4> QED
        BY <4>2
    <3> HIDE DEF W
    <3>3. ASSUME NEW i \in 1..Len(q), W(q[i]) PROVE \E m \in 1..Len(Tail(q)) : W(Tail(q)[m])
      <4>1. i - 1 \in 1..Len(Tail(q)) /\ q[i] = Tail(q)[i - 1]
        BY <1>4, <3>2, <3>3
      <4> QED
        BY <3>3, <4>1
    <3>4. ASSUME NEW m \in 1..Len(Tail(q)), W(Tail(q)[m]) PROVE \E i \in 1..Len(q) : W(q[i])
      <4>1. m + 1 \in 1..Len(q) /\ Tail(q)[m] = q[m + 1]
        BY <1>2
      <4> QED
        BY <3>4, <4>1
    <3>5. Unapplied(d, s, p)' <=> Unapplied(d, s, p)
      BY <3>1, <3>3, <3>4
    <3> QED
      BY <1>1, <2>2, <3>5 DEF Pending, InBucket
  <2> QED
    BY <2>1, <2>2
<1>6. ASSUME NEW d \in Conns, NEW t \in Dirs, HasBatch(t, d)' PROVE HasBatch(t, d)
  <2>1. CASE t # s
    BY <1>3, <1>6, <2>1 DEF HasBatch
  <2>2. CASE t = s
    <3>1. PICK i \in 1..Len(Tail(q)) : Tail(q)[i].conn = d
      BY <1>3, <1>6, <2>2 DEF HasBatch
    <3>2. i + 1 \in 1..Len(q) /\ q[i + 1].conn = d
      BY <1>2, <3>1
    <3> QED
      BY <1>0, <2>2, <3>2 DEF HasBatch
  <2> QED
    BY <2>1, <2>2
<1>7. ShardsFollow'
  <2> SUFFICES ASSUME NEW d \in Conns, NEW t \in Dirs, Active(d, t)' PROVE Follows(d, t)'
    BY DEF ShardsFollow
  <2>1. Active(d, t)
    BY <1>1, <1>6 DEF Active
  <2> QED
    BY <1>1, <1>5, <2>1, FollowsStays, ScriptFixed DEF ReadInv, ShardsFollow
<1>8. BucketsOrdered'
  BY <1>1 DEF ReadInv, OrderInv, BucketsOrdered
<1>9. \A t \in Dirs : \A i \in 1..Len(queue[t]) :
           /\ BatchOrdered(t, i)
           /\ \A j \in 1..Len(queue[t]) : i < j => Before(queue[t][i], queue[t][j])
  BY DEF ReadInv, OrderInv, BatchesOrdered
<1>10. ASSUME NEW t \in Dirs, NEW i, NEW m, queue'[t][i] = queue[t][m], BatchOrdered(t, m)
       PROVE  BatchOrdered(t, i)'
  BY <1>1, <1>10 DEF BatchOrdered
<1>11. BatchesOrdered'
  <2> SUFFICES ASSUME NEW t \in Dirs, NEW i \in 1..Len(queue'[t])
               PROVE  /\ BatchOrdered(t, i)'
                      /\ \A j \in 1..Len(queue'[t]) : i < j => Before(queue'[t][i], queue'[t][j])
    BY DEF BatchesOrdered, Before
  <2>1. CASE t # s
    <3>1. queue'[t] = queue[t]
      BY <1>3, <2>1
    <3> QED
      BY <1>9, <1>10, <3>1
  <2>2. CASE t = s
    <3>1. \A j \in 1..Len(queue'[t]) : j + 1 \in 1..Len(queue[t]) /\ queue'[t][j] = queue[t][j + 1]
      BY <1>0, <1>2, <1>3, <2>2
    <3>2. BatchOrdered(t, i)'
      BY <1>9, <1>10, <3>1
    <3>3. ASSUME NEW j \in 1..Len(queue'[t]), i < j PROVE Before(queue'[t][i], queue'[t][j])
      <4>1. i + 1 < j + 1
        BY <3>3
      <4>2. Before(queue[t][i + 1], queue[t][j + 1])
        BY <1>9, <3>1, <4>1
      <4> QED
        BY <3>1, <4>2
    <3> QED
      BY <3>2, <3>3
  <2> QED
    BY <2>1, <2>2
<1>12. Idle'
  <2>1. count # 0
    <3>1. queue[s] # NoBatches[s]
      BY <1>0, <1>1 DEF NoBatches
    <3> QED
      BY <3>1 DEF ReadInv, Idle
  <2> QED
    BY <1>1, <2>1 DEF ReadInv, Idle
<1>13. StoreWritten'
  BY <1>1, EndBatchData, WrittenKept DEF ReadInv, Inv
<1>14. RepliesOK'
  BY <1>1, ScriptFixed DEF ReadInv, RepliesOK
<1> QED
  BY <1>7, <1>8, <1>11, <1>12, <1>13, <1>14 DEF ReadParts, OrderInv

\* A process that starts finds nothing under way.
LEMMA StartReads ==
    ASSUME ReadInv, NEW m \in WORKERS, Start(m)
    PROVE  ReadParts'
<1>1. /\ count = 0
      /\ UNCHANGED <<script, stage, read, groups, replies, answers, queue>>
  BY DEF Start, connVars
<1>2. count' # 0
  BY PowerAssumption DEF Start
<1>3. \A c \in Conns, s \in Dirs : ~Active(c, s)'
  <2>1. queue' = NoBatches /\ \A c \in Conns : stage'[c] # "serving"
    BY <1>1 DEF ReadInv, Inv, CountKnown, Idle
  <2>2. \A i : i \notin 1..Len(<<>>)
    OBVIOUS
  <2> QED
    BY <2>1, <2>2 DEF Active, HasBatch, NoBatches
<1>4. Idle' /\ ShardsFollow'
  BY <1>1, <1>2, <1>3 DEF ReadInv, Idle, ShardsFollow
<1>5. OrderInv'
  BY <1>1 DEF ReadInv, OrderInv, BucketsOrdered, BatchesOrdered, BatchOrdered
<1>6. StoreWritten'
  BY <1>1, StartData, WrittenKept DEF ReadInv, Inv
<1>7. RepliesOK'
  BY <1>1, ScriptFixed DEF ReadInv, RepliesOK
<1> QED
  BY <1>4, <1>5, <1>6, <1>7 DEF ReadParts

\* A kill ends every connection, and with it what its reads could see.
LEMMA StopReads ==
    ASSUME ReadInv, Stop
    PROVE  ReadParts'
<1>1. /\ stage' = [c \in Conns |-> IF stage[c] = "none" THEN "none" ELSE "ended"]
      /\ replies' = [c \in Conns |-> <<>>] /\ queue' = NoBatches
      /\ UNCHANGED <<script, read, groups, answers>>
  BY DEF Stop
<1>2. /\ \A i : i \notin 1..Len(<<>>)
      /\ \A s \in Dirs : queue'[s] = <<>>
      /\ \A c \in Conns : /\ replies'[c] = <<>> /\ stage'[c] # "serving"
                          /\ stage'[c] = "none" => stage[c] = "none"
  BY <1>1 DEF NoBatches
<1>3. Idle'
  BY <1>1, <1>2 DEF ReadInv, Idle
<1>4. ShardsFollow'
  BY <1>2 DEF ShardsFollow, Active, HasBatch
<1>5. OrderInv'
  <2>1. BucketsOrdered'
    BY <1>1 DEF ReadInv, OrderInv, BucketsOrdered
  <2>2. BatchesOrdered'
    BY <1>2 DEF BatchesOrdered
  <2> QED
    BY <2>1, <2>2 DEF OrderInv
<1>6. StoreWritten'
  BY <1>1, StopData, WrittenKept DEF ReadInv, Inv
<1>7. RepliesOK'
  BY <1>1, <1>2, ScriptFixed DEF ReadInv, RepliesOK
<1> QED
  BY <1>3, <1>4, <1>5, <1>6, <1>7 DEF ReadParts

\* A value that expires was set with a ttl.  If the connection's own, it was its
\* last write, so no SET of it is missed.
LEMMA ExpireReads ==
    ASSUME ReadInv, NEW s \in Dirs, NEW k \in Keys, Expire(s, k)
    PROVE  ReadParts'
<1>0. PICK v : v = store[s][k]
  OBVIOUS
<1>1. /\ v # None /\ script[v[1]][v[2]].op = "setex"
      /\ store' = [store EXCEPT ![s][k] = None]
      /\ UNCHANGED <<count, script, stage, read, groups, replies, answers, queue>>
  BY <1>0 DEF Expire, Timed, connVars
<1>2. /\ v \in Conns \X Nat /\ v[1] \in Conns /\ v[2] \in Nat /\ v = <<v[1], v[2]>>
      /\ v[2] \in 1..Len(script[v[1]]) /\ Writes(script[v[1]][v[2]], k)
  <2>1. v \in Held /\ WrittenBy(v, k)
    BY <1>0, StoredWritten DEF ReadInv, Inv, TypeOK
  <2>2. v \in Conns \X Nat
    BY <1>1, <2>1 DEF Held, Request
  <2> QED
    BY <1>1, <2>1, <2>2 DEF WrittenBy
<1>3. \A t \in Dirs, x \in Keys : store'[t][x] = IF t = s /\ x = k THEN None ELSE store[t][x]
  BY <1>1 DEF ReadInv, Inv, TypeOK
<1>4. ShardsFollow'
  <2> SUFFICES ASSUME NEW c \in Conns, NEW t \in Dirs, Active(c, t)' PROVE Follows(c, t)'
    BY DEF ShardsFollow
  <2>1. Follows(c, t)
    BY <1>1 DEF ReadInv, ShardsFollow, Active, HasBatch
  <2>2. \A p : Pending(c, t, p)' <=> Pending(c, t, p)
    BY <1>1 DEF Pending, InBucket, Unapplied
  <2>3. CASE t # s
    <3>1. store'[t] = store[t]
      BY <1>1, <2>3 DEF ReadInv, Inv, TypeOK
    <3> QED
      BY <1>1, <2>1, <2>2, <3>1, FollowsStays, ScriptFixed
  <2>4. CASE t = s
    <3>1. /\ \A p : Routed(c, p, s)' <=> Routed(c, p, s)
          /\ \A q, x : LastApplied(c, s, q, x)' <=> LastApplied(c, s, q, x)
      BY <1>1, <2>2, <2>4 DEF Routed, LastApplied
    <3>2. PendingRouted(c, s)'
      BY <1>1, <2>1, <2>2, <2>4, <3>1 DEF Follows, PendingRouted
    <3>3. OwnWriteIsLast(c, s)'
      <4>1. \A q \in Nat : <<c, q>> # None
        BY ServerAssumption
      <4>2. \A x \in Keys, q \in Nat : store'[s][x] = <<c, q>> => store[s][x] = <<c, q>>
        BY <1>3, <4>1
      <4> QED
        BY <1>1, <2>1, <2>2, <2>4, <3>1, <4>2 DEF Follows, OwnWriteIsLast
    <3>4. MissExplained(c, s)'
      <4> SUFFICES ASSUME NEW x \in Keys, NEW q \in Nat,
                          q \in 1..read[c], route_hash(x, count) = s, store'[s][x] = None,
                          Writes(script[c][q], x), script[c][q].op = "set", ~Pending(c, s, q),
                          LastApplied(c, s, q, x)
                   PROVE  OthersDrop(c, x)
        BY <1>1, <2>2, <2>4, <3>1, ScriptFixed DEF MissExplained
      <4>1. CASE x # k
        BY <1>3, <2>1, <2>4, <4>1 DEF Follows, MissExplained
      <4>2. CASE x = k /\ v[1] # c
        BY <1>1, <1>2, <4>2 DEF OthersDrop
      <4>3. CASE x = k /\ v[1] = c
        <5>1. PICK q0 \in Nat : store[s][k] = <<c, q0>> /\ q0 = v[2]
          BY <1>0, <1>2, <4>3
        <5>2. /\ q0 <= read[c] /\ \A p \in Nat : Pending(c, s, p) => q0 < p
              /\ LastApplied(c, s, q0, k)
          BY <2>1, <2>4, <5>1 DEF Follows, OwnWriteIsLast
        <5>3. script[c][q0].op = "setex" /\ Writes(script[c][q0], k)
          BY <1>1, <1>2, <4>3, <5>1
        <5>4. ~(q0 < q)
          BY <4>3, <5>2 DEF LastApplied
        <5>5. ~(q < q0)
          BY <4>3, <5>2, <5>3 DEF LastApplied
        <5> QED
          BY <5>3, <5>4, <5>5
      <4> QED
        BY <4>1, <4>2, <4>3
    <3> QED
      BY <2>4, <3>2, <3>3, <3>4 DEF Follows
  <2> QED
    BY <2>3, <2>4
<1>5. OrderInv'
  BY <1>1 DEF ReadInv, OrderInv, BucketsOrdered, BatchesOrdered, BatchOrdered
<1>6. StoreWritten'
  BY <1>1, ExpireData, WrittenKept DEF ReadInv, Inv
<1>7. Idle' /\ RepliesOK'
  BY <1>1, ScriptFixed DEF ReadInv, Idle, NoBatches, RepliesOK
<1> QED
  BY <1>4, <1>5, <1>6, <1>7 DEF ReadParts

\* The operation that is applied is the first of its connection's that waits.
LEMMA FirstWaiting ==
    ASSUME ReadInv, NEW s \in Dirs, Apply(s), NEW b, b = queue[s][1],
           NEW c, c = b.conn, NEW p0, p0 = b.ops[b.next]
    PROVE  /\ Pending(c, s, p0) /\ p0 <= read[c]
           /\ \A p \in Nat : Pending(c, s, p) => p0 <= p
           /\ \A d \in Conns, t \in Dirs : \A p \in Nat :
                  Pending(d, t, p)' <=> Pending(d, t, p) /\ ~(d = c /\ t = s /\ p = p0)
           /\ \A d \in Conns, t \in Dirs : HasBatch(t, d)' <=> HasBatch(t, d)
           /\ OrderInv'
<1>1. /\ queue[s] # <<>> /\ b.next <= Len(b.ops)
      /\ queue' = [queue EXCEPT ![s][1].next = @ + 1]
      /\ UNCHANGED <<groups, read>>
  BY DEF Apply
<1>2. /\ queue[s] \in Seq(Batch) /\ b \in Batch /\ 1 \in 1..Len(queue[s])
      /\ c \in Conns /\ p0 \in Nat
  BY <1>1, NextOp DEF ReadInv
<1>3. /\ b.ops \in Seq(Nat) /\ Len(b.ops) \in Nat /\ b.next \in 1..Len(b.ops)
      /\ b.next \in b.next..Len(b.ops) /\ b.next..Len(b.ops) \subseteq 1..Len(b.ops)
      /\ b.next..Len(b.ops) = {b.next} \cup (b.next + 1)..Len(b.ops)
      /\ Len(queue[s]) \in Nat
  <2>1. b.next \in Nat \ {0} /\ b.ops \in Seq(Nat)
    BY <1>2 DEF Batch
  <2>2. Len(b.ops) \in Nat /\ Len(queue[s]) \in Nat
    BY <1>2, <2>1, LenProperties
  <2> QED
    BY <1>1, <2>1, <2>2
<1>4. PICK b2 : b2 = [b EXCEPT !.next = @ + 1]
  OBVIOUS
<1>5. b2.conn = c /\ b2.ops = b.ops /\ b2.next = b.next + 1 /\ b2 \in Batch
  <2>1. b.next + 1 \in Nat \ {0}
    BY <1>2 DEF Batch
  <2>2. \A m \in Nat \ {0} : LET a == [b EXCEPT !.next = m]
                            IN  a \in Batch /\ a.conn = b.conn /\ a.ops = b.ops /\ a.next = m
    BY <1>2 DEF Batch
  <2> QED
    BY <1>4, <2>1, <2>2
<1>6. /\ \A t \in Dirs \ {s} : queue'[t] = queue[t]
      /\ Len(queue'[s]) = Len(queue[s]) /\ queue'[s][1] = b2
      /\ \A i \in 1..Len(queue[s]) : i # 1 => queue'[s][i] = queue[s][i]
  <2>1. queue' = [queue EXCEPT ![s] = [queue[s] EXCEPT ![1] = b2]]
    BY <1>1, <1>4
  <2>2. queue'[s] = [queue[s] EXCEPT ![1] = b2] /\ \A t \in Dirs \ {s} : queue'[t] = queue[t]
    BY <2>1 DEF ReadInv, Inv, TypeOK
  <2> QED
    BY <1>2, <1>5, <2>2, ExceptSeq
<1>7. \A t \in Dirs : /\ Len(queue'[t]) = Len(queue[t])
                      /\ \A i \in 1..Len(queue[t]) : /\ queue'[t][i].conn = queue[t][i].conn
                                                     /\ queue'[t][i].ops = queue[t][i].ops
  BY <1>5, <1>6
<1>8. OrderInv'
  <2>1. read' \in [Conns -> Nat] /\ \A d \in Conns : read[d] <= read'[d]
    BY <1>1 DEF ReadInv, Inv, TypeOK
  <2> QED
    BY <1>1, <1>7, <2>1, OrderStays DEF ReadInv, Inv
<1>9. /\ \A j \in 1..Len(b.ops) : /\ b.ops[j] \in Nat /\ b.ops[j] <= read[c]
                                  /\ \A m \in 1..Len(groups[c][s]) : b.ops[j] < groups[c][s][m]
      /\ \A i, j \in 1..Len(b.ops) : i < j => b.ops[i] < b.ops[j]
      /\ \A i \in 1..Len(queue[s]) : i # 1 => Before(b, queue[s][i])
  <2>1. BatchOrdered(s, 1) /\ \A i \in 1..Len(queue[s]) : 1 < i => Before(queue[s][1], queue[s][i])
    BY <1>2 DEF ReadInv, OrderInv, BatchesOrdered
  <2>2. \A i \in 1..Len(queue[s]) : i # 1 => 1 < i
    BY <1>3
  <2>3. \A j \in 1..Len(b.ops) : b.ops[j] \in Nat
    BY <1>3, ElementOfSeq
  <2> QED
    BY <2>1, <2>2, <2>3 DEF BatchOrdered, Increasing
<1> DEFINE W(x, p) == x.conn = c /\ \E j \in x.next..Len(x.ops) : x.ops[j] = p
<1>10. \A i \in 1..Len(queue[s]) : i # 1 => \A p : W(queue[s][i], p) => p0 < p
  <2> SUFFICES ASSUME NEW i \in 1..Len(queue[s]), i # 1, NEW p, W(queue[s][i], p) PROVE p0 < p
    OBVIOUS
  <2>1. PICK a : a = queue[s][i]
    OBVIOUS
  <2>2. a \in Batch
    BY <1>2, <2>1, ElementOfSeq
  <2>3. a.next \in Nat \ {0} /\ Len(a.ops) \in Nat
    BY <2>2, LenProperties DEF Batch
  <2>4. PICK j \in a.next..Len(a.ops) : a.ops[j] = p
    BY <2>1
  <2>5. j \in 1..Len(a.ops) /\ a.conn = c
    BY <2>1, <2>3, <2>4
  <2>6. Before(b, a)
    BY <1>9, <2>1
  <2> QED
    BY <1>3, <2>4, <2>5, <2>6 DEF Before
<1>11. \A p : (\E j \in (b.next + 1)..Len(b.ops) : b.ops[j] = p) => p0 < p
  <2> SUFFICES ASSUME NEW j \in (b.next + 1)..Len(b.ops) PROVE p0 < b.ops[j]
    OBVIOUS
  <2>1. j \in 1..Len(b.ops) /\ b.next < j
    BY <1>3
  <2> QED
    BY <1>3, <1>9, <2>1
<1>12. \A p : InBucket(c, s, p) => p0 < p
  BY <1>3, <1>9 DEF InBucket
<1>13. \A p : W(b, p) <=> p = p0 \/ W(b2, p)
  BY <1>3, <1>5
<1>14. \A p : W(b2, p) => p0 < p
  BY <1>5, <1>11
<1>15. \A p : /\ Unapplied(c, s, p) <=> \E i \in 1..Len(queue[s]) : W(queue[s][i], p)
              /\ Unapplied(c, s, p)' <=> \E i \in 1..Len(queue[s]) : W(queue'[s][i], p)
  BY <1>6 DEF Unapplied
<1> HIDE DEF W
<1>16. \A p : /\ Unapplied(c, s, p) <=> p = p0 \/ Unapplied(c, s, p)'
              /\ Unapplied(c, s, p)' => p0 < p
  <2>1. \A p : Unapplied(c, s, p)' => p0 < p
    BY <1>2, <1>6, <1>10, <1>14, <1>15
  <2>2. \A p : Unapplied(c, s, p) => p = p0 \/ Unapplied(c, s, p)'
    BY <1>2, <1>6, <1>13, <1>15
  <2>3. \A p : Unapplied(c, s, p)' => Unapplied(c, s, p)
    BY <1>2, <1>6, <1>13, <1>15
  <2>4. Unapplied(c, s, p0)
    BY <1>2, <1>13, <1>15
  <2> QED
    BY <2>1, <2>2, <2>3, <2>4
<1>17. ASSUME NEW d \in Conns, NEW t \in Dirs, NEW p \in Nat
       PROVE  Pending(d, t, p)' <=> Pending(d, t, p) /\ ~(d = c /\ t = s /\ p = p0)
  <2>1. InBucket(d, t, p)' <=> InBucket(d, t, p)
    BY <1>1 DEF InBucket
  <2>2. CASE d = c /\ t = s
    <3>1. ~(p0 < p0)
      BY <1>2
    <3> QED
      BY <1>12, <1>16, <2>1, <2>2, <3>1 DEF Pending
  <2>3. CASE t # s
    BY <1>6, <2>1, <2>3 DEF Pending, Unapplied
  <2>4. CASE t = s /\ d # c
    <3> DEFINE V(x) == x.conn = d /\ \E j \in x.next..Len(x.ops) : x.ops[j] = p
    <3>1. /\ Unapplied(d, s, p) <=> \E i \in 1..Len(queue[s]) : V(queue[s][i])
          /\ Unapplied(d, s, p)' <=> \E i \in 1..Len(queue[s]) : V(queue'[s][i])
      BY <1>6 DEF Unapplied
    <3>2. ~V(queue[s][1]) /\ ~V(queue'[s][1])
      BY <1>5, <1>6, <2>4
    <3> HIDE DEF V
    <3>3. Unapplied(d, s, p)' <=> Unapplied(d, s, p)
      BY <1>6, <3>1, <3>2
    <3> QED
      BY <2>1, <2>4, <3>3 DEF Pending
  <2> QED
    BY <2>2, <2>3, <2>4
<1>18. \A p \in Nat : Pending(c, s, p) => p0 <= p
  BY <1>2, <1>12, <1>16 DEF Pending
<1>19. Pending(c, s, p0) /\ p0 <= read[c]
  BY <1>3, <1>9, <1>16 DEF Pending
<1>20. \A d \in Conns, t \in Dirs : HasBatch(t, d)' <=> HasBatch(t, d)
  BY <1>7 DEF HasBatch
<1> QED
  BY <1>8, <1>17, <1>18, <1>19, <1>20

\* The value a GET finds is the last one its connection wrote, or another's.
LEMMA OwnValueIsLast ==
    ASSUME NEW c \in Conns, NEW s \in Dirs, Follows(c, s), read[c] \in Nat,
           NEW p0 \in Nat, p0 <= read[c], Pending(c, s, p0),
           \A p \in Nat : Pending(c, s, p) => p0 <= p,
           NEW k \in Keys, NEW q \in Nat \ {0}, store[s][k] = <<c, q>>, Writes(script[c][q], k)
    PROVE  q = LastWrite(c, p0, k)
<1> DEFINE U == {0} \cup {w \in 1..(p0 - 1) : Writes(script[c][w], k)}
<1>1. q < p0 /\ LastApplied(c, s, q, k)
  BY DEF Follows, OwnWriteIsLast
<1>2. q \in U
  BY <1>1
<1>3. \A w \in U : w <= q
  <2> SUFFICES ASSUME NEW w \in 1..(p0 - 1), Writes(script[c][w], k), ~(w <= q) PROVE FALSE
    OBVIOUS
  <2>1. w \in Nat /\ q < w /\ w <= read[c] /\ ~(p0 <= w)
    OBVIOUS
  <2>2. Pending(c, s, w)
    BY <1>1, <2>1 DEF LastApplied
  <2> QED
    BY <2>1, <2>2
<1>4. U \in SUBSET Nat
  OBVIOUS
<1>5. LastWrite(c, p0, k) = Max(U)
  BY DEF LastWrite
<1> HIDE DEF U
<1>6. Max(U) \in U /\ \A w \in U : w <= Max(U)
  BY <1>2, <1>3, <1>4, GreatestNat
<1>7. Max(U) \in Nat /\ Max(U) <= q /\ q <= Max(U)
  BY <1>2, <1>3, <1>4, <1>6
<1> QED
  BY <1>5, <1>7

\* If it finds none and the connection's last write was a SET, another
\* connection has deleted the key or given it a ttl.
LEMMA MissIsExplained ==
    ASSUME NEW c \in Conns, NEW s \in Dirs, Follows(c, s), read[c] \in Nat,
           NEW p0 \in Nat, p0 <= read[c], Pending(c, s, p0),
           \A p \in Nat : Pending(c, s, p) => p0 <= p,
           NEW k \in Keys, store[s][k] = None, script[c][p0].key = k, script[c][p0].op = "get",
           NEW q, q = LastWrite(c, p0, k), q # 0, script[c][q].op = "set"
    PROVE  OthersDrop(c, k)
<1> DEFINE U == {0} \cup {w \in 1..(p0 - 1) : Writes(script[c][w], k)}
<1>1. U \in SUBSET Nat /\ 0 \in U /\ \A w \in U : w <= p0
  OBVIOUS
<1>2. q = Max(U)
  BY DEF LastWrite
<1>3. q \in U /\ \A w \in U : w <= q
  <2> HIDE DEF U
  <2> QED
    BY <1>1, <1>2, GreatestNat
<1>4. q \in Nat /\ q \in 1..(p0 - 1) /\ Writes(script[c][q], k)
  BY <1>3
<1>5. q \in 1..read[c] /\ ~(p0 <= q)
  BY <1>4
<1>6. ~Pending(c, s, q)
  BY <1>4, <1>5
<1>7. Routed(c, p0, s) /\ \A w \in Nat : p0 < w /\ w <= read[c] /\ Routed(c, w, s) => Pending(c, s, w)
  BY DEF Follows, PendingRouted
<1>8. route_hash(k, count) = s
  BY <1>7 DEF Routed
<1>9. LastApplied(c, s, q, k)
  <2> SUFFICES ASSUME NEW w \in Nat, q < w, w <= read[c], Writes(script[c][w], k)
               PROVE  Pending(c, s, w)
    BY DEF LastApplied
  <2>1. w \notin U
    BY <1>3, <1>4
  <2>2. ~(w <= p0 - 1)
    BY <1>4, <2>1
  <2>3. w # p0
    BY DEF Writes
  <2>4. p0 < w
    BY <2>2, <2>3
  <2>5. Routed(c, w, s)
    BY <1>8, WritesIsOp DEF Routed
  <2> QED
    BY <1>7, <2>4, <2>5
<1> QED
  BY <1>4, <1>5, <1>6, <1>8, <1>9 DEF Follows, MissExplained

LEMMA ApplyReads ==
    ASSUME ReadInv, NEW s \in Dirs, Apply(s)
    PROVE  ReadParts'
<1>0. PICK b : b = queue[s][1]
  OBVIOUS
<1>1. PICK c, p0 : c = b.conn /\ p0 = b.ops[b.next]
  OBVIOUS
<1>2. PICK f : f = script[c][p0]
  OBVIOUS
<1>3. PICK k, old : k = f.key /\ old = store[s][k]
  OBVIOUS
<1>4. PICK new, r : new = Written(b, old) /\ r = Result(b, old)
  OBVIOUS
<1>5. /\ queue[s] # <<>> /\ b.next <= Len(b.ops)
      /\ store' = [store EXCEPT ![s][k] = new]
      /\ replies' = IF writer[c] = "running" THEN [replies EXCEPT ![c] = Append(@, r)] ELSE replies
      /\ UNCHANGED <<count, script, stage, read, groups, answers>>
  BY <1>0, <1>1, <1>2, <1>3, <1>4 DEF Apply, Op
<1>6. /\ c \in Conns /\ p0 \in Nat /\ HasBatch(s, c) /\ k \in Keys
      /\ f.op \in {"get", "set", "setex", "del"} /\ f.kind = "Request"
      /\ p0 \in 1..Len(script[c])
  <2>1. /\ c \in Conns /\ p0 \in Nat /\ HasBatch(s, c) /\ k \in Keys
        /\ f.op \in {"get", "set", "setex", "del"}
        /\ 1 \in 1..Len(queue[s]) /\ b \in Batch
    BY <1>0, <1>1, <1>2, <1>3, <1>5, NextOp DEF Op, ReadInv
  <2>2. b.next \in 1..Len(b.ops)
    <3>1. b.next \in Nat \ {0} /\ b.ops \in Seq(Nat)
      BY <2>1 DEF Batch
    <3> QED
      BY <1>5, <3>1, LenProperties
  <2>3. InBatch(s, c, p0)
    BY <1>0, <1>1, <2>1, <2>2 DEF InBatch
  <2>4. Good(c, p0, s)
    BY <2>1, <2>3 DEF ReadInv, Inv, BatchesGood
  <2> QED
    BY <1>2, <2>1, <2>4 DEF Good, IsOp
<1>7. /\ new = IF f.op \in {"set", "setex"} THEN <<c, p0>> ELSE IF f.op = "del" THEN None ELSE old
      /\ r.pos = p0 /\ (r.res = "value" => f.op = "get" /\ old # None /\ r.val = old)
      /\ r.res = "(nil)" => f.op = "get" /\ old = None
  BY <1>1, <1>2, <1>4, <1>6 DEF Written, Result, Op, Plain
<1>8. /\ Pending(c, s, p0) /\ p0 <= read[c] /\ \A p \in Nat : Pending(c, s, p) => p0 <= p
      /\ \A d \in Conns, t \in Dirs : \A p \in Nat :
            Pending(d, t, p)' <=> Pending(d, t, p) /\ ~(d = c /\ t = s /\ p = p0)
      /\ \A d \in Conns, t \in Dirs : HasBatch(t, d)' <=> HasBatch(t, d)
      /\ OrderInv'
  BY <1>0, <1>1, FirstWaiting
<1>9. \A t \in Dirs, x \in Keys : store'[t][x] = IF t = s /\ x = k THEN new ELSE store[t][x]
  BY <1>5, <1>6 DEF ReadInv, Inv, TypeOK
<1>10. Follows(c, s) /\ read[c] \in Nat /\ old \in Held /\ WrittenBy(old, k)
  BY <1>3, <1>6, StoredWritten DEF ReadInv, ShardsFollow, Active, Inv, TypeOK
<1>11. \A x, q : <<x, q>> \in Conns \X Nat => <<x, q>> # None
  BY ServerAssumption
<1>12. /\ Routed(c, p0, s) /\ route_hash(k, count) = s
       /\ \A w \in Nat : p0 < w /\ w <= read[c] /\ Routed(c, w, s) => Pending(c, s, w)
  BY <1>2, <1>3, <1>6, <1>8, <1>10 DEF Follows, PendingRouted, Routed
<1>13. \A x : Writes(f, x) <=> x = k /\ f.op # "get"
  BY <1>3, <1>6 DEF Writes
<1>14. ASSUME NEW d \in Conns, NEW t \in Dirs, d # c \/ t # s, Follows(d, t) PROVE Follows(d, t)'
  <2>1. \A p \in Nat : Pending(d, t, p)' <=> Pending(d, t, p)
    BY <1>8, <1>14
  <2>2. /\ \A p : Routed(d, p, t)' <=> Routed(d, p, t)
        /\ \A q, x : LastApplied(d, t, q, x)' <=> LastApplied(d, t, q, x)
    BY <1>5, <2>1 DEF Routed, LastApplied
  <2>3. PendingRouted(d, t)'
    BY <1>5, <1>14, <2>1, <2>2 DEF Follows, PendingRouted
  <2>4. OwnWriteIsLast(d, t)'
    <3>1. \A x \in Keys, q \in Nat : store'[t][x] = <<d, q>> => store[t][x] = <<d, q>>
      BY <1>3, <1>7, <1>9, <1>11, <1>14
    <3> QED
      BY <1>5, <1>14, <2>1, <2>2, <3>1 DEF Follows, OwnWriteIsLast
  <2>5. MissExplained(d, t)'
    <3> SUFFICES ASSUME NEW x \in Keys, NEW q \in Nat,
                        q \in 1..read[d], route_hash(x, count) = t, store'[t][x] = None,
                        Writes(script[d][q], x), script[d][q].op = "set", ~Pending(d, t, q),
                        LastApplied(d, t, q, x)
                 PROVE  OthersDrop(d, x)
      BY <1>5, <2>1, <2>2, ScriptFixed DEF MissExplained
    <3>1. CASE store[t][x] = None
      BY <1>14, <3>1 DEF Follows, MissExplained
    <3>2. CASE store[t][x] # None
      <4>1. t = s /\ x = k /\ new = None
        BY <1>9, <3>2
      <4>2. <<c, p0>> # None /\ old # None
        BY <1>3, <1>6, <1>11, <3>2, <4>1
      <4>3. f.op = "del" /\ d # c
        BY <1>7, <1>14, <4>1, <4>2
      <4> QED
        BY <1>2, <1>6, <1>13, <4>1, <4>3 DEF OthersDrop
    <3> QED
      BY <3>1, <3>2
  <2> QED
    BY <2>3, <2>4, <2>5 DEF Follows
<1>15. Follows(c, s)'
  <2>1. \A p \in Nat : Pending(c, s, p)' <=> Pending(c, s, p) /\ p # p0
    BY <1>6, <1>8
  <2>2. /\ \A p : Routed(c, p, s)' <=> Routed(c, p, s)
        /\ \A q, x : LastApplied(c, s, q, x)' => LastApplied(c, s, q, x)
    BY <1>5, <2>1 DEF Routed, LastApplied
  <2>3. PendingRouted(c, s)'
    <3> SUFFICES ASSUME NEW p \in Nat, Pending(c, s, p)'
                 PROVE  /\ Routed(c, p, s)
                        /\ \A w \in Nat : p < w /\ w <= read[c] /\ Routed(c, w, s) => Pending(c, s, w)'
      BY <1>5, <2>2 DEF PendingRouted
    <3>1. Pending(c, s, p) /\ p0 <= p
      BY <1>8, <2>1
    <3> QED
      BY <1>6, <1>10, <2>1, <3>1 DEF Follows, PendingRouted
  <2>4. OwnWriteIsLast(c, s)'
    <3> SUFFICES ASSUME NEW x \in Keys, NEW q \in Nat, store'[s][x] = <<c, q>>
                 PROVE  /\ q <= read[c] /\ route_hash(x, count) = s
                        /\ \A p \in Nat : Pending(c, s, p)' => q < p
                        /\ \A w \in Nat : q < w /\ w <= read[c] /\ Writes(script[c][w], x) => Pending(c, s, w)'
      BY <1>5 DEF OwnWriteIsLast, LastApplied
    <3>1. CASE x = k /\ f.op \in {"set", "setex"}
      <4>1. q = p0
        BY <1>7, <1>9, <3>1
      <4>2. \A p \in Nat : Pending(c, s, p)' => q < p
        BY <1>6, <1>8, <2>1, <4>1
      <4>3. \A w \in Nat : Writes(script[c][w], x) => Routed(c, w, s)
        BY <1>12, <3>1, WritesIsOp DEF Routed
      <4>4. \A w \in Nat : q < w => w # p0
        BY <1>6, <4>1
      <4> QED
        BY <1>8, <1>12, <2>1, <3>1, <4>1, <4>2, <4>3, <4>4
    <3>2. CASE x # k \/ f.op = "get"
      <4>1. store[s][x] = <<c, q>>
        BY <1>3, <1>7, <1>9, <3>2
      <4>2. /\ q <= read[c] /\ route_hash(x, count) = s
            /\ \A p \in Nat : Pending(c, s, p) => q < p
            /\ \A w \in Nat : q < w /\ w <= read[c] /\ Writes(script[c][w], x) => Pending(c, s, w)
        BY <1>10, <4>1 DEF Follows, OwnWriteIsLast, LastApplied
      <4>3. ~Writes(script[c][p0], x)
        BY <1>2, <1>13, <3>2
      <4> QED
        BY <2>1, <4>2, <4>3
    <3>3. CASE x = k /\ f.op = "del"
      BY <1>6, <1>7, <1>9, <1>11, <3>3
    <3> QED
      BY <1>6, <3>1, <3>2, <3>3
  <2>5. MissExplained(c, s)'
    <3> SUFFICES ASSUME NEW x \in Keys, NEW q \in Nat,
                        q \in 1..read[c], route_hash(x, count) = s, store'[s][x] = None,
                        Writes(script[c][q], x), script[c][q].op = "set", ~Pending(c, s, q)',
                        LastApplied(c, s, q, x)'
                 PROVE  OthersDrop(c, x)
      BY <1>5, ScriptFixed DEF MissExplained
    <3>1. CASE x # k \/ f.op = "get"
      <4>1. store[s][x] = None
        BY <1>3, <1>7, <1>9, <3>1
      <4>2. q # p0
        BY <1>2, <1>13, <3>1
      <4>3. ~Pending(c, s, q) /\ LastApplied(c, s, q, x)
        BY <2>1, <2>2, <4>2
      <4> QED
        BY <1>10, <4>1, <4>3 DEF Follows, MissExplained
    <3>2. CASE x = k /\ f.op \in {"set", "setex"}
      BY <1>6, <1>7, <1>9, <1>11, <3>2
    <3>3. CASE x = k /\ f.op = "del"
      <4>1. q # p0
        BY <1>2, <3>3
      <4>2. CASE q < p0
        <5>1. Writes(script'[c][p0], k) /\ p0 <= read'[c]
          BY <1>2, <1>5, <1>8, <1>13, <3>3
        <5>2. Pending(c, s, p0)'
          BY <1>6, <3>3, <4>2, <5>1 DEF LastApplied
        <5> QED
          BY <1>6, <2>1, <5>2
      <4>3. CASE p0 < q
        <5>1. Routed(c, q, s)
          BY WritesIsOp DEF Routed
        <5>2. Pending(c, s, q) /\ q # p0
          BY <1>10, <1>12, <4>1, <4>3, <5>1
        <5> QED
          BY <2>1, <5>2
      <4> QED
        BY <1>6, <4>1, <4>2, <4>3
    <3> QED
      BY <1>6, <3>1, <3>2, <3>3
  <2> QED
    BY <2>3, <2>4, <2>5 DEF Follows
<1>16. ShardsFollow'
  <2> SUFFICES ASSUME NEW d \in Conns, NEW t \in Dirs, Active(d, t)' PROVE Follows(d, t)'
    BY DEF ShardsFollow
  <2>1. Follows(d, t)
    BY <1>5, <1>8 DEF ReadInv, ShardsFollow, Active
  <2> QED
    BY <1>14, <1>15, <2>1
<1>17. ReadOK(c, r)
  <2>1. script[c][r.pos].key = k
    BY <1>2, <1>3, <1>7
  <2>2. PICK q : q = LastWrite(c, p0, k)
    OBVIOUS
  <2>3. ASSUME r.res = "value"
        PROVE  r.val # None /\ WrittenBy(r.val, k) /\ (r.val[1] = c => r.val[2] = q)
    <3>1. r.val = old /\ old # None
      BY <1>7, <2>3
    <3>2. old \in Conns \X Nat
      BY <1>10, <3>1 DEF Held, Request
    <3>3. ASSUME old[1] = c PROVE old[2] = q
      <4>1. PICK q0 \in Nat : old = <<c, q0>>
        BY <3>2, <3>3
      <4>2. q0 \in 1..Len(script[c]) /\ Writes(script[c][q0], k)
        BY <1>10, <3>1, <4>1 DEF WrittenBy
      <4>3. q0 \in Nat \ {0} /\ store[s][k] = <<c, q0>>
        BY <1>3, <4>1, <4>2
      <4>4. q0 = LastWrite(c, p0, k)
        BY <1>6, <1>8, <1>10, <4>2, <4>3, OwnValueIsLast
      <4> QED
        BY <2>2, <4>1, <4>4
    <3> QED
      BY <1>10, <3>1, <3>3
  <2>4. ASSUME r.res = "(nil)", q # 0, script[c][q].op = "set" PROVE OthersDrop(c, k)
    <3>1. f.op = "get" /\ old = None
      BY <1>7, <2>4
    <3>2. store[s][k] = None /\ script[c][p0].key = k /\ script[c][p0].op = "get"
      BY <1>2, <1>3, <3>1
    <3> QED
      BY <1>6, <1>8, <1>10, <2>2, <2>4, <3>2, MissIsExplained
  <2> QED
    BY <1>7, <2>1, <2>2, <2>3, <2>4 DEF ReadOK
<1>18. RepliesOK'
  <2>1. CASE writer[c] = "running"
    <3>1. replies[c] \in Seq(Reply) /\ replies'[c] = Append(replies[c], r)
          /\ \A d \in Conns \ {c} : replies'[d] = replies[d]
      BY <1>5, <1>6, <2>1 DEF ReadInv, Inv, TypeOK
    <3>2. /\ Len(replies[c]) \in Nat /\ Len(replies'[c]) = Len(replies[c]) + 1
          /\ replies'[c][Len(replies[c]) + 1] = r
          /\ \A i \in 1..Len(replies[c]) : replies'[c][i] = replies[c][i]
      BY <3>1, AppendAny
    <3>3. \A j \in 1..Len(replies'[c]) : j \in 1..Len(replies[c]) \/ replies'[c][j] = r
      BY <3>2
    <3>4. \A d \in Conns : \A j \in 1..Len(replies'[d]) :
              (\E i \in 1..Len(replies[d]) : replies'[d][j] = replies[d][i]) \/ ReadOK(d, replies'[d][j])
      BY <1>17, <3>1, <3>2, <3>3
    <3> QED
      BY <1>5, <3>4, RepliesStay DEF ReadInv
  <2>2. CASE writer[c] # "running"
    BY <1>5, <2>2, ScriptFixed DEF ReadInv, RepliesOK
  <2> QED
    BY <2>1, <2>2
<1>19. StoreWritten'
  <2>1. ASSUME f.op \in {"set", "setex"} PROVE WrittenBy(<<c, p0>>, k)
    BY <1>2, <1>6, <1>13, <2>1 DEF WrittenBy
  <2>2. \A t \in Dirs, x \in Keys : \A v \in Holds(t, x) : WrittenBy(v, x)
    BY DEF ReadInv, StoreWritten
  <2>3. \A t \in Dirs, x \in Keys : \A v \in Holds(t, x)' :
           v \in Holds(t, x) \/ (t = s /\ x = k /\ v = <<c, p0>> /\ f.op \in {"set", "setex"})
    BY <1>0, <1>1, <1>2, <1>3, <1>6, ApplyData DEF Op, ReadInv, Inv
  <2> QED
    BY <1>5, <2>1, <2>2, <2>3, ScriptFixed DEF StoreWritten
<1>20. Idle'
  <2>1. count # 0
    <3>1. queue[s] # NoBatches[s]
      BY <1>5 DEF NoBatches
    <3> QED
      BY <3>1 DEF ReadInv, Idle
  <2> QED
    BY <1>5, <2>1 DEF ReadInv, Idle
<1> QED
  BY <1>8, <1>16, <1>18, <1>19, <1>20 DEF ReadParts

LEMMA InitReads == Init => ReadInv
<1> SUFFICES ASSUME Init PROVE ReadInv
  OBVIOUS
<1>1. \A i : i \notin 1..Len(<<>>)
  OBVIOUS
<1>2. /\ \A c \in Conns : /\ replies[c] = <<>> /\ answers[c] = {} /\ stage[c] = "none"
                          /\ script[c] = <<>> /\ \A s \in Dirs : groups[c][s] = <<>>
      /\ \A s \in Dirs : queue[s] = <<>>
      /\ \A s \in Dirs, k \in Keys : store[s][k] = None /\ journal[s][k] = <<>> /\ committed[s][k] = <<>>
  BY DEF Init, NoGroups, NoBatches, NoData
<1>3. Idle
  BY <1>2 DEF Init, Idle
<1>4. OrderInv
  BY <1>1, <1>2 DEF OrderInv, BucketsOrdered, BatchesOrdered, Increasing
<1>5. ShardsFollow
  BY <1>1, <1>2 DEF ShardsFollow, Active, HasBatch
<1>6. StoreWritten /\ RepliesOK
  BY <1>1, <1>2 DEF StoreWritten, Holds, Recorded, RepliesOK
<1> QED
  BY <1>3, <1>4, <1>5, <1>6, InitInv DEF ReadInv

LEMMA NextReads == ReadInv /\ [Next]_vars => ReadInv'
<1> SUFFICES ASSUME ReadInv, [Next]_vars PROVE ReadParts'
  BY NextInv DEF ReadInv, ReadParts
<1>1. ASSUME NEW c \in Conns, Client(c) PROVE ReadParts'
  BY <1>1, QuietStepReads, AcceptReads DEF Client
<1>2. ASSUME NEW c \in Conns, Reader(c) PROVE ReadParts'
  BY <1>2, QuietStepReads, HandshakeReads, PlanOpReads, PlanImmediateReads, DispatchReads DEF Reader
<1>3. ASSUME NEW c \in Conns, Writer(c) PROVE ReadParts'
  BY <1>3, QuietStepReads, WriterReads DEF Writer
<1>4. ASSUME NEW s \in Dirs, Worker(s) PROVE ReadParts'
  BY <1>4, ApplyReads, EndBatchReads DEF Worker
<1>5. CASE Stop
  BY <1>5, StopReads
<1>6. CASE UNCHANGED vars
  <2>1. UNCHANGED <<count, script, read, groups, queue, store, dataVars, stage, replies, answers>>
    BY <1>6 DEF vars, connVars, shardVars, dataVars
  <2>2. RepliesOK'
    BY <2>1, ScriptFixed DEF ReadInv, RepliesOK
  <2> QED
    BY <2>1, <2>2, QuietReads
<1> QED
  BY <1>1, <1>2, <1>3, <1>4, <1>5, <1>6, ExpireReads, StartReads DEF Next

\* A GET is answered with a value that was written for its key; one that its own
\* connection wrote is the connection's last write before the GET, and a miss
\* after its own SET has another connection's DEL or SETEX behind it.  This holds
\* for any chunks, batches, shards and interleaving of connections, over kills
\* and restarts: the requests of one connection for one key are never reordered.
THEOREM ReadsSeeOwnWrites == Spec => []ReadsFollowWrites
<1>1. ReadInv => ReadsFollowWrites
  <2> SUFFICES ASSUME ReadInv, NEW c \in Conns, NEW r \in answers[c], NEW k, NEW q,
                      k = script[c][r.pos].key, q = LastWrite(c, r.pos, k)
               PROVE  /\ r.res = "value" => /\ script[r.val[1]][r.val[2]].key = k
                                            /\ r.val[1] = c => r.val[2] = q
                      /\ r.res = "(nil)" /\ q # 0 /\ script[c][q].op = "set" => OthersDrop(c, k)
    BY DEF ReadsFollowWrites, OthersDrop
  <2>1. ReadOK(c, r)
    BY DEF ReadInv, RepliesOK
  <2> QED
    BY <2>1, WritesIsOp DEF ReadOK, WrittenBy
<1> QED
  BY <1>1, InitReads, NextReads, PTL DEF Spec
=============================================================================
