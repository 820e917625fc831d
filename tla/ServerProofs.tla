---------------------------- MODULE ServerProofs ----------------------------
(***************************************************************************)
(* Proofs about Server, for any connections, keys, traffic, batch size and *)
(* number of starts.                                                       *)
(***************************************************************************)
EXTENDS Server, FiniteSetTheorems, SequenceTheorems, WellFoundedInduction, TLAPS

\* Every start of the process runs the same number of shards.
OneCount == \A m, n \in WORKERS : next_power_of_two(m) = next_power_of_two(n)

\* Then s is the shard of k.
Home(k, s) == OneCount => \A n \in WORKERS : s = route_hash(k, next_power_of_two(n))

\* Position p of connection c is an operation, and one for shard s.
Good(c, p, s) ==
    p \in 1..Len(script[c]) /\ IsOp(script[c][p]) /\ Home(script[c][p].key, s)

InBucket(c, s, p) == \E i \in 1..Len(groups[c][s]) : groups[c][s][i] = p

HasBatch(s, c) == \E i \in 1..Len(queue[s]) : queue[s][i].conn = c

InBatch(s, c, p) ==
    \E i \in 1..Len(queue[s]) :
        queue[s][i].conn = c /\ \E j \in 1..Len(queue[s][i].ops) : queue[s][i].ops[j] = p

\* The requests a shard holds for a key, in memory or in its files.
Recorded(log) == {log[i] : i \in 1..Len(log)}

Holds(s, k) == ({store[s][k]} \ {None}) \cup Recorded(journal[s][k]) \cup Recorded(committed[s][k])

\* The part of TypeOK about what the shards hold.
DataType ==
    /\ store \in [Dirs -> [Keys -> Held]]
    /\ journal \in [Dirs -> [Keys -> Seq(Request)]] /\ committed \in [Dirs -> [Keys -> Seq(Request)]]
    /\ expired \subseteq Request

\* Only operations are bucketed and batched, and for the shard they belong to.
BucketsGood == \A c \in Conns, s \in Dirs, p \in Nat : InBucket(c, s, p) => Good(c, p, s)

BatchesGood == \A c \in Conns, s \in Dirs, p \in Nat : InBatch(s, c, p) => Good(c, p, s)

\* So what a shard holds, in memory or in its files, belongs to it.
KeptHome ==
    \A s \in Dirs, k \in Keys : Holds(s, k) # {} => Home(k, s)

CountKnown ==
    /\ count = 0 => \A c \in Conns : stage[c] \in {"none", "ended"}
    /\ count # 0 => \E n \in WORKERS : count = next_power_of_two(n)

ReadInBounds == \A c \in Conns : read[c] <= chunk[c] /\ chunk[c] <= Len(script[c])

\* Nothing has been read before the handshake.
Fresh ==
    \A c \in Conns : stage[c] \in {"none", "handshake"} =>
        read[c] = 0 /\ chunk[c] = 0 /\ answers[c] = {}

Greeted(c) == Plain(1, "OK") \in answers[c]

\* Nothing of the connection has got past the handshake.
Untouched(c) ==
    /\ stage[c] \in {"none", "handshake", "ended"} /\ writer[c] = "none"
    /\ groups[c] = NoGroups /\ replies[c] = <<>>
    /\ \A s \in Dirs : ~HasBatch(s, c)
    /\ \A r \in answers[c] : r.pos = 1
    /\ \A s \in Dirs, k \in Keys : \A v \in Holds(s, k) : v[1] # c

Gate == \A c \in Conns : Greeted(c) \/ Untouched(c)

\* What makes TypeOK, HandshakeFirst and KeysOwned inductive.
Inv ==
    /\ TypeOK /\ BucketsGood /\ BatchesGood /\ KeptHome /\ CountKnown /\ ReadInBounds
    /\ Fresh /\ Gate

-----------------------------------------------------------------------------
LEMMA LeastNat ==
    ASSUME NEW U \in SUBSET Nat, U # {}
    PROVE  Min(U) \in U /\ \A y \in U : Min(U) <= y
<1> DEFINE R == OpToRel(<, Nat)
<1>1. IsWellFoundedOn(R, Nat)
  BY NatLessThanWellFounded
<1>2. \A y, m \in Nat : <<y, m>> \in R <=> y < m
  BY DEF OpToRel
<1> HIDE DEF R
<1>3. PICK m \in U : \A y \in U : ~(<<y, m>> \in R)
  BY <1>1, WFMin
<1>4. \A y \in U : m <= y
  <2> TAKE y \in U
  <2>1. y \in Nat /\ m \in Nat /\ ~(<<y, m>> \in R)
    BY <1>3
  <2>2. ~(y < m)
    BY <1>2, <2>1
  <2> QED
    BY <2>1, <2>2
<1> QED
  BY <1>4 DEF Min

\* The greatest element of a bounded set of numbers is one of its elements.
LEMMA GreatestNat ==
    ASSUME NEW U \in SUBSET Nat, NEW n \in Nat, \A y \in U : y <= n, U # {}
    PROVE  Max(U) \in U /\ \A y \in U : y <= Max(U)
<1> DEFINE B == {m \in Nat : \A y \in U : y <= m}
<1>1. B \in SUBSET Nat /\ B # {}
  BY DEF B
<1> HIDE DEF B
<1>2. PICK m \in B : \A x \in B : m <= x
  BY <1>1, LeastNat
<1>3. m \in Nat /\ \A y \in U : y <= m
  BY <1>2 DEF B
<1>4. m \in U
  <2> SUFFICES ASSUME m \notin U PROVE FALSE
    OBVIOUS
  <2>1. \A y \in U : y < m
    BY <1>3
  <2>2. m - 1 \in Nat /\ \A y \in U : y <= m - 1
    <3>1. PICK x \in U : TRUE
      OBVIOUS
    <3>2. x \in Nat /\ x < m
      BY <2>1, <3>1
    <3> QED
      BY <1>3, <2>1, <3>2
  <2>3. m - 1 \in B
    BY <2>2 DEF B
  <2> QED
    BY <1>2, <1>3, <2>3
<1>5. \E x \in U : \A y \in U : x >= y
  BY <1>3, <1>4
<1> QED
  <2>1. Max(U) \in U /\ \A y \in U : Max(U) >= y
    BY <1>5 DEF Max
  <2> QED
    BY <2>1

LEMMA DirsNat == Dirs \subseteq Nat
BY DEF Dirs

\* The shard a bucket is dispatched to next is one that has one.
LEMMA FirstBucket ==
    ASSUME NEW c, Bucketed(c) # {}
    PROVE  Min(Bucketed(c)) \in Dirs /\ Min(Bucketed(c)) \in Bucketed(c)
<1>1. Bucketed(c) \in SUBSET Dirs /\ Bucketed(c) \in SUBSET Nat
  BY DirsNat DEF Bucketed
<1> QED
  BY <1>1, LeastNat

LEMMA AppendSeq ==
    ASSUME NEW S, NEW q \in Seq(S), NEW x \in S
    PROVE  /\ Append(q, x) \in Seq(S) /\ Len(Append(q, x)) = Len(q) + 1 /\ Len(q) \in Nat
           /\ Append(q, x)[Len(q) + 1] = x
           /\ \A i \in 1..Len(q) : Append(q, x)[i] = q[i]
BY AppendProperties, LenProperties

LEMMA AppendAny ==
    ASSUME NEW S, NEW q \in Seq(S), NEW x
    PROVE  /\ Len(Append(q, x)) = Len(q) + 1 /\ Len(q) \in Nat /\ Append(q, x)[Len(q) + 1] = x
           /\ \A i \in 1..Len(q) : Append(q, x)[i] = q[i]
<1>1. q \in Seq(S \cup {x}) /\ x \in S \cup {x}
  OBVIOUS
<1> QED
  BY <1>1, AppendSeq

LEMMA TailSeq ==
    ASSUME NEW S, NEW q \in Seq(S), q # <<>>
    PROVE  /\ Tail(q) \in Seq(S) /\ Len(q) \in Nat \ {0} /\ Len(Tail(q)) = Len(q) - 1
           /\ Head(q) = q[1] /\ q[1] \in S
           /\ \A i \in 1..Len(Tail(q)) : Tail(q)[i] = q[i + 1] /\ i + 1 \in 1..Len(q)
<1>1. Len(q) \in Nat \ {0} /\ Tail(q) \in Seq(S) /\ Len(Tail(q)) = Len(q) - 1
      /\ \A i \in 1..Len(Tail(q)) : Tail(q)[i] = q[i + 1]
  BY HeadTailProperties, EmptySeq
<1>2. Head(q) = q[1] /\ q[1] \in S
  BY <1>1, ElementOfSeq
<1> QED
  BY <1>1, <1>2

LEMMA ScriptType ==
    ASSUME TypeOK, NEW c \in Conns
    PROVE  script[c] \in Seq(Frame) /\ Len(script[c]) \in Nat
<1>1. script[c] \in Scripts
  BY DEF TypeOK
<1>2. CASE script[c] = <<>>
  BY <1>2, EmptySeq
<1>3. CASE \E d \in Conns : script[c] \in Traffic[d]
  BY <1>3, ServerAssumption, LenProperties
<1> QED
  BY <1>1, <1>2, <1>3 DEF Scripts

LEMMA GoodStable ==
    ASSUME NEW c, NEW p, NEW s, script'[c] = script[c]
    PROVE  Good(c, p, s)' <=> Good(c, p, s)
BY DEF Good

-----------------------------------------------------------------------------
\* What the actions do to what the shards hold: only Apply adds a request.
LEMMA SameData ==
    ASSUME UNCHANGED dataVars
    PROVE  \A s, k : Holds(s, k)' = Holds(s, k)
BY DEF dataVars, Holds, Recorded

LEMMA RecordedSeq ==
    ASSUME NEW log \in Seq(Request)
    PROVE  /\ Recorded(log) \subseteq Request
           /\ \A r \in Request : /\ Append(log, r) \in Seq(Request)
                               /\ Recorded(Append(log, r)) \subseteq Recorded(log) \cup {r}
                               /\ <<r>> \in Seq(Request) /\ Recorded(<<r>>) = {r}
           /\ <<>> \in Seq(Request) /\ Recorded(<<>>) = {}
<1>1. Recorded(log) \subseteq Request
  BY ElementOfSeq DEF Recorded
<1>2. ASSUME NEW r \in Request
      PROVE  Append(log, r) \in Seq(Request) /\ Recorded(Append(log, r)) \subseteq Recorded(log) \cup {r}
  <2>1. /\ Append(log, r) \in Seq(Request) /\ Len(Append(log, r)) = Len(log) + 1 /\ Len(log) \in Nat
        /\ Append(log, r)[Len(log) + 1] = r
        /\ \A i \in 1..Len(log) : Append(log, r)[i] = log[i]
    BY AppendSeq
  <2>2. \A i \in 1..(Len(log) + 1) : i \in 1..Len(log) \/ i = Len(log) + 1
    BY <2>1
  <2> QED
    BY <2>1, <2>2 DEF Recorded
<1>3. ASSUME NEW r \in Request PROVE <<r>> \in Seq(Request) /\ Recorded(<<r>>) = {r}
  <2>1. Len(<<r>>) = 1 /\ <<r>>[1] = r /\ <<r>> \in Seq(Request) /\ 1..1 = {1}
    OBVIOUS
  <2> QED
    BY <2>1 DEF Recorded
<1>4. <<>> \in Seq(Request) /\ Recorded(<<>>) = {}
  <2>1. \A i : i \notin 1..Len(<<>>)
    OBVIOUS
  <2> QED
    BY <2>1, EmptySeq DEF Recorded
<1> QED
  BY <1>1, <1>2, <1>3, <1>4

LEMMA EndBatchData ==
    ASSUME TypeOK, NEW s \in Dirs, EndBatch(s)
    PROVE  DataType' /\ \A t \in Dirs, k \in Keys : Holds(t, k)' \subseteq Holds(t, k)
<1>1. /\ committed' = [committed EXCEPT ![s] = journal[s]]
      /\ UNCHANGED <<store, journal, expired>>
  BY DEF EndBatch
<1>2. /\ committed' \in [Dirs -> [Keys -> Seq(Request)]]
      /\ \A t \in Dirs : committed'[t] \in {committed[t], journal[t]}
  BY <1>1 DEF TypeOK
<1> QED
  BY <1>1, <1>2 DEF TypeOK, DataType, Holds

LEMMA ExpireData ==
    ASSUME TypeOK, NEW s \in Dirs, NEW k \in Keys, Expire(s, k)
    PROVE  DataType' /\ \A t \in Dirs, x \in Keys : Holds(t, x)' \subseteq Holds(t, x)
<1>1. /\ store[s][k] # None
      /\ store' = [store EXCEPT ![s][k] = None]
      /\ expired' = expired \cup {store[s][k]}
      /\ UNCHANGED <<journal, committed>>
  BY DEF Expire
<1>2. store[s][k] \in Request /\ None \in Held
  BY <1>1 DEF TypeOK, Held
<1>3. /\ store' \in [Dirs -> [Keys -> Held]] /\ expired' \subseteq Request
      /\ \A t \in Dirs, x \in Keys : store'[t][x] \in {None, store[t][x]}
  BY <1>1, <1>2 DEF TypeOK
<1> QED
  BY <1>1, <1>3 DEF TypeOK, DataType, Holds

\* What a replay brings back is one of the records.
LEMMA ReplayedRecord ==
    ASSUME NEW log \in Seq(Request), NEW gone
    PROVE  Replayed(log, gone) \in Recorded(log) \cup {None}
<1> DEFINE live == {i \in 1..Len(log) : log[i] \notin gone}
<1>1. CASE live = {}
  BY <1>1 DEF Replayed
<1>2. CASE live # {}
  <2>1. live \in SUBSET Nat /\ Len(log) \in Nat /\ \A i \in live : i <= Len(log)
    BY LenProperties
  <2>2. Max(live) \in live
    BY <1>2, <2>1, GreatestNat
  <2> QED
    BY <1>2, <2>2 DEF Replayed, Recorded
<1> QED
  BY <1>1, <1>2

LEMMA StartData ==
    ASSUME TypeOK, NEW n \in WORKERS, Start(n)
    PROVE  DataType' /\ \A t \in Dirs, k \in Keys : Holds(t, k)' \subseteq Holds(t, k)
<1>1. PICK gone \in SUBSET TimedRecords :
          /\ expired' = expired \cup gone
          /\ store' = [s \in Dirs |-> [k \in Keys |-> Replayed(journal[s][k], expired')]]
  BY DEF Start
<1>2. UNCHANGED <<journal, committed>>
  BY DEF Start
<1>3. gone \subseteq Request
  <2>1. \A s \in Dirs, k \in Keys : \A i \in 1..Len(journal[s][k]) : journal[s][k][i] \in Request
    BY ElementOfSeq DEF TypeOK
  <2> QED
    BY <2>1 DEF TimedRecords
<1>4. \A s \in Dirs, k \in Keys : /\ store'[s][k] \in Recorded(journal[s][k]) \cup {None}
                                  /\ store'[s][k] \in Held
  <2> TAKE s \in Dirs, k \in Keys
  <2>1. journal[s][k] \in Seq(Request) /\ store'[s][k] = Replayed(journal[s][k], expired')
    BY <1>1 DEF TypeOK
  <2>2. Replayed(journal[s][k], expired') \in Recorded(journal[s][k]) \cup {None}
    BY <2>1, ReplayedRecord
  <2> QED
    BY <2>1, <2>2, RecordedSeq DEF Held
<1>5. store' \in [Dirs -> [Keys -> Held]]
  BY <1>1, <1>4
<1>6. DataType'
  BY <1>1, <1>2, <1>3, <1>5 DEF TypeOK, DataType
<1> QED
  BY <1>2, <1>4, <1>6 DEF Holds

LEMMA StopData ==
    ASSUME TypeOK, Stop
    PROVE  DataType' /\ \A t \in Dirs, k \in Keys : Holds(t, k)' \subseteq Holds(t, k)
<1>1. store' = NoData /\ journal' = committed /\ UNCHANGED <<committed, expired>>
  BY DEF Stop
<1>2. /\ store' \in [Dirs -> [Keys -> Held]]
      /\ \A t \in Dirs, k \in Keys : store'[t][k] = None
  BY <1>1 DEF NoData, Held
<1> QED
  BY <1>1, <1>2 DEF TypeOK, DataType, Holds

LEMMA InitInv == Init => Inv
<1> SUFFICES ASSUME Init PROVE Inv
  OBVIOUS
<1>1. TypeOK
  <2>1. \A S : <<>> \in Seq(S)
    BY EmptySeq
  <2>2. NoGroups \in [Dirs -> Seq(Nat)] /\ NoBatches \in [Dirs -> Seq(Batch)]
    BY <2>1 DEF NoGroups, NoBatches
  <2>3. replies \in [Conns -> Seq(Reply)] /\ queue \in [Dirs -> Seq(Batch)]
    BY <2>1, <2>2 DEF Init
  <2>4. groups \in [Conns -> [Dirs -> Seq(Nat)]]
    BY <2>2 DEF Init
  <2>5. <<>> \in Scripts /\ None \in Held
    BY DEF Scripts, Held
  <2>6. script \in [Conns -> Scripts]
    BY <2>5 DEF Init
  <2>7. DataType
    BY <2>1, <2>5 DEF Init, NoData, DataType
  <2>8. answers \in [Conns -> SUBSET Reply]
    BY DEF Init
  <2>9. /\ count \in Nat /\ starts \in Nat
        /\ read \in [Conns -> Nat] /\ chunk \in [Conns -> Nat]
        /\ link \in [Conns -> {"open", "half", "broken"}]
        /\ stage \in [Conns -> Stages]
        /\ writer \in [Conns -> {"none", "running", "gone"}]
    BY DEF Init, Stages
  <2> QED
    BY <2>3, <2>4, <2>6, <2>7, <2>8, <2>9 DEF TypeOK, DataType
<1>2. /\ \A c \in Conns, s \in Dirs : \A p : ~InBucket(c, s, p)
      /\ \A c, p : \A s \in Dirs : ~HasBatch(s, c) /\ ~InBatch(s, c, p)
  <2>1. \A i : i \notin 1..Len(<<>>)
    BY DEF Init
  <2> QED
    BY <2>1 DEF Init, InBucket, HasBatch, InBatch, NoGroups, NoBatches
<1>3. BucketsGood /\ BatchesGood /\ CountKnown /\ ReadInBounds /\ Fresh
  BY <1>2 DEF Init, BucketsGood, BatchesGood, CountKnown, ReadInBounds, Fresh
<1>4. \A s \in Dirs, k \in Keys : Holds(s, k) = {}
  <2>1. Recorded(<<>>) = {}
    BY DEF Recorded
  <2> QED
    BY <2>1 DEF Init, NoData, Holds
<1>5. Gate /\ KeptHome
  BY <1>2, <1>4 DEF Init, Gate, Untouched, KeptHome
<1> QED
  BY <1>1, <1>3, <1>5 DEF Inv

-----------------------------------------------------------------------------
LEMMA GreetedStays ==
    ASSUME NEW c, Greeted(c), answers[c] \subseteq answers'[c]
    PROVE  Greeted(c)'
BY DEF Greeted, Plain

LEMMA UntouchedStays ==
    ASSUME NEW c, Untouched(c), stage'[c] \in {"none", "handshake", "ended"},
           writer'[c] = "none", groups'[c] = NoGroups, replies'[c] = <<>>,
           \A s \in Dirs : HasBatch(s, c)' => HasBatch(s, c),
           \A r \in answers'[c] : r.pos = 1,
           \A s \in Dirs, k \in Keys : \A v \in Holds(s, k)' : v[1] = c => v \in Holds(s, k)
    PROVE  Untouched(c)'
<1>1. \A s \in Dirs, k \in Keys : \A v \in Holds(s, k)' : v[1] # c
  BY DEF Untouched
<1>2. \A s \in Dirs : ~HasBatch(s, c)'
  BY DEF Untouched
<1> QED
  BY <1>1, <1>2 DEF Untouched, NoGroups

\* A step of one connection leaves the others as they were.
LEMMA GateOfOthers ==
    ASSUME Gate, NEW c \in Conns, UNCHANGED shardVars,
           \A d \in Conns \ {c} :
               /\ stage'[d] = stage[d] /\ writer'[d] = writer[d] /\ groups'[d] = groups[d]
               /\ replies'[d] = replies[d] /\ answers'[d] = answers[d],
           Greeted(c)' \/ Untouched(c)'
    PROVE  Gate'
<1> SUFFICES ASSUME NEW d \in Conns, d # c
             PROVE  Greeted(d)' \/ Untouched(d)'
  BY DEF Gate
<1>1. CASE Greeted(d)
  BY <1>1, GreetedStays
<1>2. CASE Untouched(d)
  <2>1. \A s \in Dirs : HasBatch(s, d)' => HasBatch(s, d)
    BY DEF HasBatch, shardVars, dataVars
  <2> QED
    BY <1>2, <2>1, SameData, UntouchedStays DEF Untouched, shardVars, dataVars
<1> QED
  BY <1>1, <1>2 DEF Gate

\* What each conjunct depends on.
LEMMA Unaffected ==
    ASSUME Inv
    PROVE  /\ UNCHANGED <<groups, script>> => BucketsGood'
           /\ UNCHANGED <<queue, script>> => BatchesGood'
           /\ UNCHANGED dataVars => KeptHome'
           /\ UNCHANGED <<count, stage>> => CountKnown'
           /\ UNCHANGED <<read, chunk, script>> => ReadInBounds'
           /\ UNCHANGED <<stage, read, chunk, answers>> => Fresh'
<1>1. UNCHANGED <<groups, script>> => BucketsGood'
  BY GoodStable DEF Inv, BucketsGood, InBucket
<1>2. UNCHANGED <<queue, script>> => BatchesGood'
  BY GoodStable DEF Inv, BatchesGood, InBatch
<1>3. UNCHANGED dataVars => KeptHome'
  BY SameData DEF Inv, KeptHome, Home
<1>4. UNCHANGED <<count, stage>> => CountKnown'
  BY DEF Inv, CountKnown
<1>5. UNCHANGED <<read, chunk, script>> => ReadInBounds'
  BY DEF Inv, ReadInBounds
<1>6. UNCHANGED <<stage, read, chunk, answers>> => Fresh'
  BY DEF Inv, Fresh
<1> QED
  BY <1>1, <1>2, <1>3, <1>4, <1>5, <1>6

-----------------------------------------------------------------------------
LEMMA AcceptInv ==
    ASSUME Inv, NEW c \in Conns, NEW frames \in Traffic[c], Accept(c, frames)
    PROVE  Inv'
<1>1. TypeOK'
  <2>1. frames \in Scripts
    BY DEF Scripts
  <2>2. script' \in [Conns -> Scripts] /\ stage' \in [Conns -> Stages]
    BY <2>1 DEF Inv, TypeOK, Accept, Stages
  <2> QED
    BY <2>2 DEF Inv, TypeOK, Accept, shardVars, dataVars
<1>2. read[c] = 0 /\ chunk[c] = 0 /\ answers[c] = {} /\ ~Greeted(c) /\ Untouched(c)
  BY DEF Inv, Fresh, Gate, Greeted, Accept
<1>3. \A s \in Dirs : \A p : ~InBucket(c, s, p) /\ ~InBatch(s, c, p)
  <2>1. \A s \in Dirs : groups[c][s] = <<>> /\ ~HasBatch(s, c)
    BY <1>2 DEF Untouched, NoGroups
  <2>2. \A i : i \notin 1..Len(<<>>)
    OBVIOUS
  <2> QED
    BY <2>1, <2>2 DEF InBucket, InBatch, HasBatch
<1>4. \A d \in Conns \ {c} : script'[d] = script[d] /\ stage'[d] = stage[d]
  BY DEF Accept, Inv, TypeOK
<1>5. BucketsGood'
  <2> SUFFICES ASSUME NEW d \in Conns, NEW s \in Dirs, NEW p \in Nat, InBucket(d, s, p)'
               PROVE  Good(d, p, s)'
    BY DEF BucketsGood
  <2>1. InBucket(d, s, p)
    BY DEF Accept, InBucket
  <2>2. d # c
    BY <2>1, <1>3
  <2> QED
    BY <2>1, <2>2, <1>4, GoodStable DEF Inv, BucketsGood
<1>6. BatchesGood'
  <2> SUFFICES ASSUME NEW d \in Conns, NEW s \in Dirs, NEW p \in Nat, InBatch(s, d, p)'
               PROVE  Good(d, p, s)'
    BY DEF BatchesGood
  <2>1. InBatch(s, d, p)
    BY DEF Accept, InBatch, shardVars, dataVars
  <2>2. d # c
    BY <2>1, <1>3
  <2> QED
    BY <2>1, <2>2, <1>4, GoodStable DEF Inv, BatchesGood
<1>7. KeptHome'
  BY Unaffected DEF Accept, shardVars, dataVars
<1>8. CountKnown'
  BY DEF Accept, Inv, CountKnown, TypeOK
<1>9. ReadInBounds'
  <2>1. \A d \in Conns : read'[d] = read[d] /\ chunk'[d] = chunk[d]
    BY DEF Accept
  <2>2. script'[c] = frames /\ frames \in Seq(Frame)
    BY ServerAssumption DEF Accept, Inv, TypeOK
  <2>3. Len(script'[c]) \in Nat
    BY <2>2
  <2> QED
    BY <1>2, <1>4, <2>1, <2>3 DEF Inv, ReadInBounds
<1>10. Fresh'
  BY <1>2, <1>4 DEF Accept, Inv, Fresh
<1>11. Gate'
  <2>1. Untouched(c)'
    <3>1. \A s \in Dirs : HasBatch(s, c)' => HasBatch(s, c)
      BY DEF HasBatch, Accept, shardVars, dataVars
    <3> QED
      BY <1>2, <3>1, SameData, UntouchedStays DEF Untouched, Accept, shardVars, dataVars, Inv, TypeOK
  <2> QED
    BY <2>1, <1>4, GateOfOthers DEF Accept, Inv
<1> QED
  BY <1>1, <1>5, <1>6, <1>7, <1>8, <1>9, <1>10, <1>11 DEF Inv

\* Shut and Break change what the connection's stream will do next, no more.
LEMMA LinkInv ==
    ASSUME Inv, NEW c \in Conns, Shut(c) \/ Break(c)
    PROVE  Inv'
<1>1. UNCHANGED <<count, starts, script, stage, read, chunk, groups, replies, writer, answers,
                  shardVars>>
  BY DEF Shut, Break
<1>2. TypeOK'
  <2>1. link' \in [Conns -> {"open", "half", "broken"}]
    BY DEF Shut, Break, Inv, TypeOK
  <2> QED
    BY <1>1, <2>1 DEF Inv, TypeOK, shardVars, dataVars
<1>3. Gate'
  BY <1>1, SameData DEF Inv, Gate, Greeted, Untouched, HasBatch, shardVars, dataVars
<1> QED
  BY <1>1, <1>2, <1>3, Unaffected DEF Inv, shardVars, dataVars

\* A connection that is served has passed its handshake.
LEMMA ServedGreeted ==
    ASSUME Inv, NEW c \in Conns, stage[c] \in {"serving", "drain"} \/ writer[c] # "none"
    PROVE  Greeted(c)
BY DEF Inv, Gate, Untouched

\* The reader of the connection goes on to st and does nothing else.
LEMMA StageInv ==
    ASSUME Inv, NEW c \in Conns, NEW st \in {"drain", "ended"},
           stage[c] \in {"handshake", "serving", "drain"},
           stage[c] = "handshake" => st = "ended",
           stage' = [stage EXCEPT ![c] = st],
           UNCHANGED <<count, starts, script, link, read, chunk, groups, replies, writer, answers,
                       shardVars>>
    PROVE  Inv'
<1>1. TypeOK'
  <2>1. stage' \in [Conns -> Stages]
    BY DEF Inv, TypeOK, Stages
  <2> QED
    BY <2>1 DEF Inv, TypeOK, shardVars, dataVars
<1>2. stage'[c] = st /\ \A d \in Conns \ {c} : stage'[d] = stage[d]
  BY DEF Inv, TypeOK
<1>3. CountKnown'
  BY <1>2 DEF Inv, CountKnown
<1>4. Fresh'
  BY <1>2 DEF Inv, Fresh
<1>5. Gate'
  <2>1. CASE stage[c] = "handshake"
    <3>1. Untouched(c)
      BY <2>1 DEF Inv, Fresh, Gate, Greeted
    <3>2. \A s \in Dirs : HasBatch(s, c)' => HasBatch(s, c)
      BY DEF HasBatch, shardVars, dataVars
    <3>3. Untouched(c)'
      BY <2>1, <1>2, <3>1, <3>2, SameData, UntouchedStays DEF Untouched, shardVars, dataVars
    <3> QED
      BY <1>2, <3>3, GateOfOthers DEF Inv
  <2>2. CASE stage[c] \in {"serving", "drain"}
    <3>1. Greeted(c)'
      BY <2>2, ServedGreeted, GreetedStays
    <3> QED
      BY <1>2, <3>1, GateOfOthers DEF Inv
  <2> QED
    BY <2>1, <2>2
<1> QED
  BY <1>1, <1>3, <1>4, <1>5, Unaffected DEF Inv, shardVars, dataVars

LEMMA GreetingType == \A f : Greeting(f) \in Results
BY DEF Greeting, Results

LEMMA PlainType ==
    ASSUME NEW p \in Nat, NEW res \in Results
    PROVE  Plain(p, res) \in Reply
<1>1. None \in Held
  BY DEF Held
<1> QED
  BY <1>1 DEF Plain, Reply

LEMMA HandshakeInv ==
    ASSUME Inv, NEW c \in Conns, Handshake(c)
    PROVE  Inv'
<1> DEFINE res == Greeting(NextFrame(c))
<1>1. /\ stage[c] = "handshake" /\ Available(c)
      /\ answers' = [answers EXCEPT ![c] = @ \cup {Plain(1, res)}]
      /\ stage' = [stage EXCEPT ![c] = IF res = "OK" THEN "serving" ELSE "ended"]
      /\ writer' = IF res = "OK" THEN [writer EXCEPT ![c] = "running"] ELSE writer
      /\ read' = [read EXCEPT ![c] = 1] /\ chunk' = [chunk EXCEPT ![c] = 1]
      /\ UNCHANGED <<count, starts, script, link, groups, replies, shardVars>>
  BY DEF Handshake
<1>2. res \in Results
  BY GreetingType
<1> HIDE DEF res
<1>3. /\ \A d \in Conns \ {c} : /\ stage'[d] = stage[d] /\ writer'[d] = writer[d]
                                /\ answers'[d] = answers[d] /\ read'[d] = read[d]
                                /\ chunk'[d] = chunk[d]
      /\ stage'[c] = (IF res = "OK" THEN "serving" ELSE "ended")
      /\ answers'[c] = answers[c] \cup {Plain(1, res)}
      /\ writer'[c] = (IF res = "OK" THEN "running" ELSE writer[c])
      /\ read'[c] = 1 /\ chunk'[c] = 1
  BY <1>1 DEF Inv, TypeOK
<1>4. TypeOK'
  <2>1. Plain(1, res) \in Reply
    BY <1>2, PlainType
  <2>2. answers' \in [Conns -> SUBSET Reply]
    BY <1>1, <2>1 DEF Inv, TypeOK
  <2>3. /\ stage' \in [Conns -> Stages] /\ writer' \in [Conns -> {"none", "running", "gone"}]
        /\ read' \in [Conns -> Nat] /\ chunk' \in [Conns -> Nat]
    BY <1>1 DEF Inv, TypeOK, Stages
  <2> QED
    BY <1>1, <2>2, <2>3 DEF Inv, TypeOK, shardVars, dataVars
<1>5. CountKnown'
  BY <1>1, <1>3 DEF Inv, CountKnown
<1>6. ReadInBounds'
  <2>1. Len(script[c]) \in Nat /\ read[c] \in Nat /\ read[c] < Len(script[c])
    BY <1>1, ScriptType DEF Available, Inv, TypeOK
  <2> QED
    BY <1>1, <1>3, <2>1 DEF Inv, ReadInBounds
<1>7. Fresh'
  BY <1>3 DEF Inv, Fresh
<1>8. Gate'
  <2>1. CASE res = "OK"
    <3>1. Greeted(c)'
      BY <1>3, <2>1 DEF Greeted, Plain
    <3> QED
      BY <1>1, <1>3, <3>1, GateOfOthers DEF Inv
  <2>2. CASE res # "OK"
    <3>1. Untouched(c)
      BY <1>1 DEF Inv, Fresh, Gate, Greeted
    <3>2. \A s \in Dirs : HasBatch(s, c)' => HasBatch(s, c)
      BY <1>1 DEF HasBatch, shardVars, dataVars
    <3>3. \A r \in answers'[c] : r.pos = 1
      BY <1>3, <3>1 DEF Untouched, Plain
    <3>4. Untouched(c)'
      BY <2>2, <1>1, <1>3, <3>1, <3>2, <3>3, SameData, UntouchedStays DEF Untouched, shardVars, dataVars
    <3> QED
      BY <1>1, <1>3, <3>4, GateOfOthers DEF Inv
  <2> QED
    BY <2>1, <2>2
<1> QED
  BY <1>1, <1>4, <1>5, <1>6, <1>7, <1>8, Unaffected DEF Inv, shardVars, dataVars

LEMMA ReadChunkInv ==
    ASSUME Inv, NEW c \in Conns, NEW n \in 1..MAX_BATCH, ReadChunk(c, n)
    PROVE  Inv'
<1>1. /\ stage[c] = "serving" /\ n <= Len(script[c]) - read[c]
      /\ chunk' = [chunk EXCEPT ![c] = read[c] + n]
      /\ UNCHANGED <<count, starts, script, link, stage, read, groups, replies, writer, answers,
                     shardVars>>
  BY DEF ReadChunk, Waits
<1>2. n \in Nat /\ read[c] \in Nat /\ Len(script[c]) \in Nat
  BY ScriptType, ServerAssumption DEF Inv, TypeOK
<1>3. chunk'[c] = read[c] + n /\ \A d \in Conns \ {c} : chunk'[d] = chunk[d]
  BY <1>1 DEF Inv, TypeOK
<1>4. TypeOK'
  <2>1. chunk' \in [Conns -> Nat]
    BY <1>1, <1>2 DEF Inv, TypeOK
  <2> QED
    BY <1>1, <2>1 DEF Inv, TypeOK, shardVars, dataVars
<1>5. ReadInBounds'
  BY <1>1, <1>2, <1>3 DEF Inv, ReadInBounds
<1>6. Fresh'
  BY <1>1, <1>3 DEF Inv, Fresh
<1>7. Gate'
  BY <1>1, ServedGreeted, GreetedStays, GateOfOthers DEF Inv
<1> QED
  BY <1>1, <1>4, <1>5, <1>6, <1>7, Unaffected DEF Inv, shardVars, dataVars

\* The frame to be planned next is one of the connection's.
LEMMA NextPosition ==
    ASSUME Inv, NEW c \in Conns, ~Planned(c)
    PROVE  /\ read[c] \in Nat /\ read[c] + 1 \in 1..Len(script[c]) /\ read[c] + 1 <= chunk[c]
           /\ NextFrame(c) \in Frame
<1>1. read[c] \in Nat /\ chunk[c] \in Nat /\ Len(script[c]) \in Nat /\ script[c] \in Seq(Frame)
  BY ScriptType DEF Inv, TypeOK
<1>2. read[c] < chunk[c] /\ chunk[c] <= Len(script[c])
  BY <1>1 DEF Planned, Inv, ReadInBounds
<1>3. NextFrame(c) \in Frame
  BY <1>1, <1>2, ElementOfSeq DEF NextFrame
<1> QED
  BY <1>1, <1>2, <1>3

\* The reader of a served connection has planned one more frame.
LEMMA PlannedMore ==
    ASSUME Inv, NEW c \in Conns, ~Planned(c), stage[c] = "serving",
           read' = [read EXCEPT ![c] = @ + 1],
           UNCHANGED <<count, script, stage, chunk, answers>>
    PROVE  read' \in [Conns -> Nat] /\ ReadInBounds' /\ Fresh' /\ CountKnown'
<1>1. read[c] \in Nat /\ read[c] + 1 <= chunk[c]
  BY NextPosition
<1>2. /\ read' \in [Conns -> Nat]
      /\ read'[c] = read[c] + 1 /\ \A d \in Conns \ {c} : read'[d] = read[d]
  BY <1>1 DEF Inv, TypeOK
<1>3. ReadInBounds'
  BY <1>1, <1>2 DEF Inv, ReadInBounds
<1>4. Fresh'
  BY <1>2 DEF Inv, Fresh
<1> QED
  BY <1>2, <1>3, <1>4, Unaffected

LEMMA PlanOpInv ==
    ASSUME Inv, NEW c \in Conns, PlanOp(c)
    PROVE  Inv'
<1> DEFINE t == route_hash(NextFrame(c).key, count)
           p0 == read[c] + 1
<1>1. /\ stage[c] = "serving" /\ ~Planned(c) /\ IsOp(NextFrame(c))
      /\ groups' = [groups EXCEPT ![c][t] = Append(@, p0)]
      /\ read' = [read EXCEPT ![c] = @ + 1]
      /\ UNCHANGED <<count, starts, script, link, stage, chunk, replies, writer, answers, shardVars>>
  BY DEF PlanOp
<1>2. p0 \in Nat /\ p0 \in 1..Len(script[c])
  BY <1>1, NextPosition
<1>3. Good(c, p0, t)
  <2>1. PICK n \in WORKERS : count = next_power_of_two(n)
    BY <1>1 DEF Inv, CountKnown
  <2>2. NextFrame(c) = script[c][p0]
    BY DEF NextFrame
  <2>3. Home(NextFrame(c).key, t)
    BY <2>1 DEF Home, OneCount
  <2> QED
    BY <1>1, <1>2, <2>2, <2>3 DEF Good
<1> HIDE DEF t, p0
<1>4. /\ \A d \in Conns \ {c} : groups'[d] = groups[d]
      /\ \A s \in Dirs : groups'[c][s] = IF s = t THEN Append(groups[c][s], p0) ELSE groups[c][s]
      /\ groups' \in [Conns -> [Dirs -> Seq(Nat)]]
  <2>1. groups[c] \in [Dirs -> Seq(Nat)]
    BY DEF Inv, TypeOK
  <2>2. \A s \in Dirs : Append(groups[c][s], p0) \in Seq(Nat)
    BY <1>2, <2>1, AppendSeq
  <2>3. [groups[c] EXCEPT ![t] = Append(@, p0)] \in [Dirs -> Seq(Nat)]
    BY <2>1, <2>2
  <2>4. groups' = [groups EXCEPT ![c] = [groups[c] EXCEPT ![t] = Append(@, p0)]]
    BY <1>1
  <2> QED
    BY <2>1, <2>3, <2>4 DEF Inv, TypeOK
<1>5. read' \in [Conns -> Nat] /\ ReadInBounds' /\ Fresh' /\ CountKnown'
  BY <1>1, PlannedMore
<1>6. TypeOK'
  BY <1>1, <1>4, <1>5 DEF Inv, TypeOK, shardVars, dataVars
<1>7. BucketsGood'
  <2> SUFFICES ASSUME NEW d \in Conns, NEW s \in Dirs, NEW p \in Nat, InBucket(d, s, p)'
               PROVE  Good(d, p, s)
    BY <1>1, GoodStable DEF BucketsGood
  <2>1. CASE InBucket(d, s, p)
    BY <2>1 DEF Inv, BucketsGood
  <2>2. CASE ~InBucket(d, s, p)
    <3>1. d = c /\ s = t
      BY <2>2, <1>4 DEF InBucket
    <3>2. groups[c][s] \in Seq(Nat)
      BY DEF Inv, TypeOK
    <3>3. groups'[c][s] = Append(groups[c][s], p0)
      BY <1>4, <3>1
    <3>4. p = p0
      BY <2>2, <3>1, <3>2, <3>3, <1>2, AppendSeq DEF InBucket
    <3> QED
      BY <3>1, <3>4, <1>3
  <2> QED
    BY <2>1, <2>2
<1>8. Gate'
  <2>1. Greeted(c)'
    BY <1>1, ServedGreeted, GreetedStays
  <2> QED
    BY <1>1, <1>4, <2>1, GateOfOthers DEF Inv
<1> QED
  BY <1>1, <1>5, <1>6, <1>7, <1>8, Unaffected DEF Inv, shardVars, dataVars

LEMMA PlanImmediateInv ==
    ASSUME Inv, NEW c \in Conns, PlanImmediate(c)
    PROVE  Inv'
<1> DEFINE r == Plain(read[c] + 1, Immediate(NextFrame(c)))
<1>1. /\ stage[c] = "serving" /\ ~Planned(c) /\ NextFrame(c).kind # "undecodable"
      /\ replies' = [replies EXCEPT ![c] = Append(@, r)]
      /\ read' = [read EXCEPT ![c] = @ + 1]
      /\ UNCHANGED <<count, starts, script, link, stage, chunk, groups, writer, answers, shardVars>>
  BY DEF PlanImmediate
<1>2. r \in Reply
  <2>1. read[c] + 1 \in Nat /\ NextFrame(c) \in Frame
    BY <1>1, NextPosition
  <2>2. NextFrame(c).kind \in {"Request", "Heartbeat", "HandShake", "Response"}
    BY <1>1, <2>1 DEF Frame
  <2>3. Immediate(NextFrame(c)) \in Results
    BY <2>2 DEF Immediate, Results
  <2> QED
    BY <2>1, <2>3, PlainType
<1> HIDE DEF r
<1>3. read' \in [Conns -> Nat] /\ ReadInBounds' /\ Fresh' /\ CountKnown'
  BY <1>1, PlannedMore
<1>4. replies' \in [Conns -> Seq(Reply)] /\ \A d \in Conns \ {c} : replies'[d] = replies[d]
  <2>1. Append(replies[c], r) \in Seq(Reply)
    BY <1>2, AppendSeq DEF Inv, TypeOK
  <2> QED
    BY <1>1, <2>1 DEF Inv, TypeOK
<1>5. TypeOK'
  BY <1>1, <1>3, <1>4 DEF Inv, TypeOK, shardVars, dataVars
<1>6. Gate'
  <2>1. Greeted(c)'
    BY <1>1, ServedGreeted, GreetedStays
  <2> QED
    BY <1>1, <1>4, <2>1, GateOfOthers DEF Inv
<1> QED
  BY <1>1, <1>3, <1>5, <1>6, Unaffected DEF Inv, shardVars, dataVars

\* A batch joins the queue of its shard, and its bucket is drained.
LEMMA DispatchInv ==
    ASSUME Inv, NEW c \in Conns, Dispatch(c)
    PROVE  Inv'
<1> DEFINE t == Min(Bucketed(c))
           b == [conn |-> c, ops |-> groups[c][t], next |-> 1]
<1>1. /\ stage[c] = "serving" /\ Bucketed(c) # {}
      /\ queue' = [queue EXCEPT ![t] = Append(@, b)]
      /\ groups' = [groups EXCEPT ![c][t] = <<>>]
      /\ UNCHANGED <<count, starts, script, link, stage, read, chunk, replies, writer, answers,
                     dataVars>>
  BY DEF Dispatch
<1>2. t \in Dirs
  BY <1>1, FirstBucket
<1> HIDE DEF t
<1>3. b.conn = c /\ b.ops = groups[c][t] /\ b \in Batch /\ groups[c][t] \in Seq(Nat)
  <2>1. groups[c][t] \in Seq(Nat)
    BY <1>2 DEF Inv, TypeOK
  <2> QED
    BY <2>1 DEF Batch
<1> HIDE DEF b
<1>4. /\ queue' \in [Dirs -> Seq(Batch)]
      /\ queue'[t] = Append(queue[t], b) /\ queue[t] \in Seq(Batch)
      /\ \A s \in Dirs \ {t} : queue'[s] = queue[s]
  <2>1. queue[t] \in Seq(Batch) /\ Append(queue[t], b) \in Seq(Batch)
    BY <1>2, <1>3, AppendSeq DEF Inv, TypeOK
  <2> QED
    BY <1>1, <1>2, <2>1 DEF Inv, TypeOK
<1>5. /\ groups' \in [Conns -> [Dirs -> Seq(Nat)]]
      /\ \A d \in Conns \ {c} : groups'[d] = groups[d]
      /\ groups'[c][t] = <<>> /\ \A s \in Dirs \ {t} : groups'[c][s] = groups[c][s]
  <2>1. <<>> \in Seq(Nat)
    BY EmptySeq
  <2> QED
    BY <1>1, <1>2, <2>1 DEF Inv, TypeOK
<1>6. TypeOK'
  BY <1>1, <1>4, <1>5 DEF Inv, TypeOK, dataVars
<1>7. BucketsGood'
  <2> SUFFICES ASSUME NEW d \in Conns, NEW s \in Dirs, NEW p \in Nat, InBucket(d, s, p)'
               PROVE  InBucket(d, s, p)
    BY <1>1, GoodStable DEF Inv, BucketsGood
  <2>1. \A i : i \notin 1..Len(<<>>)
    OBVIOUS
  <2> QED
    BY <1>5, <2>1 DEF InBucket
<1>8. \A s \in Dirs, d \in Conns : \A p : InBatch(s, d, p)' =>
          InBatch(s, d, p) \/ (s = t /\ d = c /\ InBucket(c, t, p))
  <2> SUFFICES ASSUME NEW s \in Dirs, NEW d \in Conns, NEW p, InBatch(s, d, p)', ~InBatch(s, d, p)
               PROVE  s = t /\ d = c /\ InBucket(c, t, p)
    OBVIOUS
  <2>1. s = t
    BY <1>4 DEF InBatch
  <2>2. PICK i \in 1..Len(queue'[t]) :
            queue'[t][i].conn = d /\ \E j \in 1..Len(queue'[t][i].ops) : queue'[t][i].ops[j] = p
    BY <2>1 DEF InBatch
  <2>3. Len(queue[t]) \in Nat /\ Len(queue'[t]) = Len(queue[t]) + 1
        /\ queue'[t][Len(queue[t]) + 1] = b /\ \A k \in 1..Len(queue[t]) : queue'[t][k] = queue[t][k]
    BY <1>3, <1>4, AppendSeq
  <2>4. i \notin 1..Len(queue[t])
    <3> SUFFICES ASSUME i \in 1..Len(queue[t]) PROVE InBatch(t, d, p)
      BY <2>1
    <3>1. queue'[t][i] = queue[t][i]
      BY <2>3
    <3>2. queue[t][i].conn = d /\ \E j \in 1..Len(queue[t][i].ops) : queue[t][i].ops[j] = p
      BY <2>2, <3>1, Zenon
    <3> QED
      BY <3>2 DEF InBatch
  <2>5. i = Len(queue[t]) + 1
    BY <2>2, <2>3, <2>4
  <2> QED
    BY <2>1, <2>2, <2>3, <2>5, <1>3 DEF InBucket
<1>9. BatchesGood'
  <2> SUFFICES ASSUME NEW d \in Conns, NEW s \in Dirs, NEW p \in Nat, InBatch(s, d, p)'
               PROVE  Good(d, p, s)
    BY <1>1, GoodStable DEF BatchesGood
  <2> QED
    BY <1>8, <1>2 DEF Inv, BucketsGood, BatchesGood
<1>10. Gate'
  <2> SUFFICES ASSUME NEW d \in Conns PROVE Greeted(d)' \/ Untouched(d)'
    BY DEF Gate
  <2>1. CASE Greeted(d)
    BY <1>1, <2>1, GreetedStays
  <2>2. CASE ~Greeted(d)
    <3>1. d # c /\ Untouched(d)
      BY <1>1, <2>2, ServedGreeted DEF Inv, Gate
    <3>2. \A s \in Dirs : HasBatch(s, d)' => HasBatch(s, d)
      BY <1>3, <1>4, <3>1, AppendSeq DEF HasBatch
    <3> QED
      BY <1>1, <1>5, <3>1, <3>2, SameData, UntouchedStays DEF Untouched
  <2> QED
    BY <2>1, <2>2
<1> QED
  BY <1>1, <1>6, <1>7, <1>9, <1>10, Unaffected DEF Inv

-----------------------------------------------------------------------------
LEMMA WriterSendsInv ==
    ASSUME Inv, NEW c \in Conns, WriterSends(c)
    PROVE  Inv'
<1>1. /\ writer[c] = "running" /\ replies[c] # <<>>
      /\ answers' = [answers EXCEPT ![c] = @ \cup {Head(replies[c])}]
      /\ replies' = [replies EXCEPT ![c] = Tail(@)]
      /\ UNCHANGED <<count, starts, script, link, stage, read, chunk, groups, writer, shardVars>>
  BY DEF WriterSends
<1>2. Head(replies[c]) \in Reply /\ Tail(replies[c]) \in Seq(Reply)
  BY <1>1, TailSeq DEF Inv, TypeOK
<1>3. TypeOK'
  <2>1. answers' \in [Conns -> SUBSET Reply] /\ replies' \in [Conns -> Seq(Reply)]
    BY <1>1, <1>2 DEF Inv, TypeOK
  <2> QED
    BY <1>1, <2>1 DEF Inv, TypeOK, shardVars, dataVars
<1>4. /\ answers[c] \subseteq answers'[c]
      /\ \A d \in Conns \ {c} : answers'[d] = answers[d] /\ replies'[d] = replies[d]
  BY <1>1 DEF Inv, TypeOK
<1>5. Greeted(c) /\ Greeted(c)'
  BY <1>1, <1>4, ServedGreeted, GreetedStays
<1>6. Fresh'
  BY <1>1, <1>4, <1>5 DEF Inv, Fresh, Greeted
<1>7. Gate'
  BY <1>1, <1>4, <1>5, GateOfOthers DEF Inv
<1> QED
  BY <1>1, <1>3, <1>6, <1>7, Unaffected DEF Inv, shardVars, dataVars

LEMMA WriterGoneInv ==
    ASSUME Inv, NEW c \in Conns, WriterBreaks(c) \/ WriterEnds(c)
    PROVE  Inv'
<1>1. /\ writer[c] = "running" /\ writer' = [writer EXCEPT ![c] = "gone"]
      /\ replies' = [replies EXCEPT ![c] = <<>>]
      /\ UNCHANGED <<count, starts, script, link, stage, read, chunk, groups, answers, shardVars>>
  BY DEF WriterBreaks, WriterEnds, Inv, TypeOK
<1>2. TypeOK'
  <2>1. <<>> \in Seq(Reply)
    BY EmptySeq
  <2>2. writer' \in [Conns -> {"none", "running", "gone"}] /\ replies' \in [Conns -> Seq(Reply)]
    BY <1>1, <2>1 DEF Inv, TypeOK
  <2> QED
    BY <1>1, <2>2 DEF Inv, TypeOK, shardVars, dataVars
<1>3. \A d \in Conns \ {c} : writer'[d] = writer[d] /\ replies'[d] = replies[d]
  BY <1>1 DEF Inv, TypeOK
<1>4. Gate'
  <2>1. Greeted(c)'
    BY <1>1, ServedGreeted, GreetedStays
  <2> QED
    BY <1>1, <1>3, <2>1, GateOfOthers DEF Inv
<1> QED
  BY <1>1, <1>2, <1>4, Unaffected DEF Inv, shardVars, dataVars

-----------------------------------------------------------------------------
\* What a shard applies next.
LEMMA NextOp ==
    ASSUME Inv, NEW s \in Dirs, queue[s] # <<>>, queue[s][1].next <= Len(queue[s][1].ops)
    PROVE  LET b == queue[s][1]
           IN  /\ queue[s] \in Seq(Batch) /\ b \in Batch /\ 1 \in 1..Len(queue[s])
               /\ b.conn \in Conns /\ b.ops[b.next] \in Nat /\ HasBatch(s, b.conn)
               /\ Op(b).op \in {"get", "set", "setex", "del"} /\ Op(b).key \in Keys
               /\ Home(Op(b).key, s)
<1> DEFINE b == queue[s][1]
           p == b.ops[b.next]
<1>1. queue[s] \in Seq(Batch) /\ 1 \in 1..Len(queue[s]) /\ b \in Batch
  <2>1. queue[s] \in Seq(Batch)
    BY DEF Inv, TypeOK
  <2> QED
    BY <2>1, TailSeq
<1>2. b.conn \in Conns /\ b.ops \in Seq(Nat) /\ b.next \in 1..Len(b.ops)
  <2>1. b.conn \in Conns /\ b.ops \in Seq(Nat) /\ b.next \in Nat \ {0} /\ b.next <= Len(b.ops)
    BY <1>1 DEF Batch
  <2> QED
    BY <2>1, LenProperties
<1>3. p \in Nat
  BY <1>2, ElementOfSeq
<1>4. HasBatch(s, b.conn)
  BY <1>1 DEF HasBatch
<1>5. InBatch(s, b.conn, p)
  BY <1>1, <1>2 DEF InBatch
<1>6. Good(b.conn, p, s)
  BY <1>2, <1>3, <1>5 DEF Inv, BatchesGood
<1>7. script[b.conn] \in Seq(Frame) /\ p \in 1..Len(script[b.conn])
  BY <1>2, <1>6, ScriptType DEF Inv, Good
<1>8. Op(b) \in Frame /\ IsOp(Op(b)) /\ Home(Op(b).key, s)
  <2>1. Op(b) = script[b.conn][p]
    BY DEF Op
  <2> QED
    BY <1>6, <1>7, <2>1, ElementOfSeq DEF Good
<1>9. Op(b).op \in {"get", "set", "setex", "del"} /\ Op(b).key \in Keys
  BY <1>8 DEF Frame, IsOp
<1> QED
  BY <1>1, <1>2, <1>3, <1>4, <1>8, <1>9

\* The first batch of the shard advances, or is done with.
LEMMA HeadAdvances ==
    ASSUME NEW q \in Seq(Batch), q # <<>>, NEW q2, q2 = [q EXCEPT ![1].next = @ + 1]
    PROVE  /\ q2 \in Seq(Batch) /\ Len(q2) = Len(q)
           /\ \A i \in 1..Len(q) : q2[i].conn = q[i].conn /\ q2[i].ops = q[i].ops
<1>1. Len(q) \in Nat \ {0} /\ q[1] \in Batch /\ \A i \in 1..Len(q) : q[i] \in Batch
  BY TailSeq, ElementOfSeq
<1> DEFINE b2 == [q[1] EXCEPT !.next = @ + 1]
<1>2. b2 \in Batch /\ b2.conn = q[1].conn /\ b2.ops = q[1].ops
  <2>1. ASSUME NEW b \in Batch
        PROVE  LET a == [b EXCEPT !.next = @ + 1]
               IN  a \in Batch /\ a.conn = b.conn /\ a.ops = b.ops
    <3>1. b.next + 1 \in Nat \ {0}
      BY DEF Batch
    <3>2. \A m \in Nat \ {0} : LET a == [b EXCEPT !.next = m]
                              IN  a \in Batch /\ a.conn = b.conn /\ a.ops = b.ops
      BY DEF Batch
    <3> QED
      BY <3>1, <3>2
  <2> QED
    BY <1>1, <2>1
<1>3. q2 = [q EXCEPT ![1] = b2]
  OBVIOUS
<1> HIDE DEF b2
<1>4. q2 \in Seq(Batch) /\ Len(q2) = Len(q)
      /\ \A i \in 1..Len(q) : q2[i] = IF i = 1 THEN b2 ELSE q[i]
  <2>1. 1 \in 1..Len(q)
    BY <1>1
  <2> QED
    BY <1>2, <1>3, <2>1, ExceptSeq
<1> QED
  BY <1>2, <1>4

\* The next operation of a batch leaves under its key what was there, or itself.
LEMMA ApplyData ==
    ASSUME TypeOK, NEW s \in Dirs, Apply(s), NEW b, b = queue[s][1],
           b.conn \in Conns, b.ops[b.next] \in Nat, Op(b).key \in Keys,
           Op(b).op \in {"get", "set", "setex", "del"}
    PROVE  /\ DataType'
           /\ \A t \in Dirs, x \in Keys : \A v \in Holds(t, x)' :
                 \/ v \in Holds(t, x)
                 \/ /\ t = s /\ x = Op(b).key /\ v = <<b.conn, b.ops[b.next]>>
                    /\ Op(b).op \in {"set", "setex"}
<1> DEFINE k == Op(b).key
           old == store[s][k]
           log == journal[s][k]
           req == <<b.conn, b.ops[b.next]>>
<1>1. /\ store' = [store EXCEPT ![s][k] = Written(b, old)]
      /\ journal' = [journal EXCEPT ![s][k] = Logged(b, old, log)]
      /\ UNCHANGED <<committed, expired>>
  BY DEF Apply
<1>2. old \in Held /\ log \in Seq(Request) /\ req \in Request /\ k \in Keys
  <2>1. store \in [Dirs -> [Keys -> Held]] /\ journal \in [Dirs -> [Keys -> Seq(Request)]]
    BY DEF TypeOK
  <2>2. req \in Request
    BY DEF Request
  <2> QED
    BY <2>1, <2>2
<1>3. /\ Written(b, old) \in Held
      /\ \/ Written(b, old) = old \/ Written(b, old) = None
         \/ Written(b, old) = req /\ Op(b).op \in {"set", "setex"}
  <2>1. req \in Held /\ None \in Held
    BY <1>2 DEF Held
  <2>2. CASE Op(b).op \in {"set", "setex"}
    <3>1. Written(b, old) = req
      BY <2>2 DEF Written
    <3> QED
      BY <2>1, <2>2, <3>1
  <2>3. CASE Op(b).op = "del"
    <3>1. Written(b, old) = None
      BY <2>3 DEF Written
    <3> QED
      BY <2>1, <3>1
  <2>4. CASE Op(b).op = "get"
    <3>1. Written(b, old) = old
      BY <2>4 DEF Written
    <3> QED
      BY <1>2, <3>1
  <2> QED
    BY <2>2, <2>3, <2>4
<1>4. /\ Logged(b, old, log) \in Seq(Request)
      /\ Recorded(Logged(b, old, log)) \subseteq
            Recorded(log) \cup (IF Op(b).op \in {"set", "setex"} THEN {req} ELSE {})
  <2>1. /\ Append(log, req) \in Seq(Request) /\ Recorded(Append(log, req)) \subseteq Recorded(log) \cup {req}
        /\ <<req>> \in Seq(Request) /\ Recorded(<<req>>) = {req}
        /\ <<>> \in Seq(Request) /\ Recorded(<<>>) = {}
    BY <1>2, RecordedSeq
  <2>2. CASE Op(b).op = "set"
    BY <2>1, <2>2 DEF Logged
  <2>3. CASE Op(b).op = "setex"
    BY <2>1, <2>3 DEF Logged
  <2>4. CASE Op(b).op = "del"
    BY <1>2, <2>1, <2>4 DEF Logged
  <2>5. CASE Op(b).op = "get"
    BY <1>2, <2>5 DEF Logged
  <2> QED
    BY <2>2, <2>3, <2>4, <2>5
<1> HIDE DEF k, old, log, req
<1>5. /\ store' \in [Dirs -> [Keys -> Held]] /\ journal' \in [Dirs -> [Keys -> Seq(Request)]]
      /\ \A t \in Dirs, x \in Keys :
            IF t = s /\ x = k THEN store'[t][x] = Written(b, old) /\ journal'[t][x] = Logged(b, old, log)
            ELSE store'[t][x] = store[t][x] /\ journal'[t][x] = journal[t][x]
  BY <1>1, <1>2, <1>3, <1>4 DEF TypeOK
<1>6. DataType'
  BY <1>1, <1>5 DEF TypeOK, DataType
<1>7. ASSUME NEW t \in Dirs, NEW x \in Keys, NEW v \in Holds(t, x)'
      PROVE  v \in Holds(t, x) \/ (t = s /\ x = k /\ v = req /\ Op(b).op \in {"set", "setex"})
  <2>1. \/ v # None /\ v = store'[t][x]
        \/ v \in Recorded(journal'[t][x])
        \/ v \in Recorded(committed[t][x])
    BY <1>1, <1>7 DEF Holds, Recorded
  <2>2. CASE v # None /\ v = store'[t][x]
    BY <1>3, <1>5, <2>2 DEF Holds, old
  <2>3. CASE v \in Recorded(journal'[t][x])
    <3>1. CASE t = s /\ x = k
      BY <1>4, <1>5, <2>3, <3>1 DEF Holds, log
    <3>2. CASE ~(t = s /\ x = k)
      BY <1>5, <2>3, <3>2 DEF Holds
    <3> QED
      BY <3>1, <3>2
  <2>4. CASE v \in Recorded(committed[t][x])
    BY <2>4 DEF Holds
  <2> QED
    BY <2>1, <2>2, <2>3, <2>4
<1> QED
  BY <1>6, <1>7 DEF k, req

LEMMA ApplyInv ==
    ASSUME Inv, NEW s \in Dirs, Apply(s)
    PROVE  Inv'
<1> DEFINE b == queue[s][1]
           k == Op(b).key
           old == store[s][k]
           r == Result(b, old)
<1>1. /\ queue[s] # <<>> /\ b.next <= Len(b.ops)
      /\ replies' = IF writer[b.conn] = "running"
                    THEN [replies EXCEPT ![b.conn] = Append(@, r)] ELSE replies
      /\ queue' = [queue EXCEPT ![s][1].next = @ + 1]
      /\ UNCHANGED <<count, starts, script, link, stage, read, chunk, groups, writer, answers,
                     committed, expired>>
  BY DEF Apply
<1>2. /\ queue[s] \in Seq(Batch) /\ b.conn \in Conns /\ b.ops[b.next] \in Nat
      /\ HasBatch(s, b.conn) /\ Op(b).op \in {"get", "set", "setex", "del"}
      /\ k \in Keys /\ Home(k, s)
  BY <1>1, NextOp
<1>3. old \in Held
  BY <1>2 DEF Inv, TypeOK
<1>4. /\ DataType'
      /\ \A t \in Dirs, x \in Keys : \A v \in Holds(t, x)' :
            v \in Holds(t, x) \/ (t = s /\ x = k /\ v[1] = b.conn)
  BY <1>2, ApplyData DEF Inv
<1>5. r \in Reply
  <2>1. \A res \in Results : Plain(b.ops[b.next], res) \in Reply
    BY <1>2, PlainType
  <2>2. [pos |-> b.ops[b.next], res |-> "value", val |-> old] \in Reply
    BY <1>2, <1>3 DEF Reply, Results
  <2>3. "OK" \in Results /\ "1" \in Results /\ "0" \in Results /\ "(nil)" \in Results
    BY DEF Results
  <2> QED
    BY <1>2, <2>1, <2>2, <2>3 DEF Result
<1> HIDE DEF k, old, r
<1>6. /\ queue' \in [Dirs -> Seq(Batch)]
      /\ \A t \in Dirs : /\ Len(queue'[t]) = Len(queue[t])
                         /\ \A i \in 1..Len(queue[t]) : /\ queue'[t][i].conn = queue[t][i].conn
                                                        /\ queue'[t][i].ops = queue[t][i].ops
  <2> DEFINE q2 == [queue[s] EXCEPT ![1].next = @ + 1]
  <2>1. /\ q2 \in Seq(Batch) /\ Len(q2) = Len(queue[s])
        /\ \A i \in 1..Len(queue[s]) : q2[i].conn = queue[s][i].conn /\ q2[i].ops = queue[s][i].ops
    <3>1. \A q \in Seq(Batch) : q # <<>> =>
             LET p == [q EXCEPT ![1].next = @ + 1]
             IN  /\ p \in Seq(Batch) /\ Len(p) = Len(q)
                 /\ \A i \in 1..Len(q) : p[i].conn = q[i].conn /\ p[i].ops = q[i].ops
      BY HeadAdvances
    <3>2. queue[s] \in Seq(Batch) /\ queue[s] # <<>>
      BY <1>1, <1>2
    <3> HIDE DEF b, k, old, r
    <3> QED
      BY <3>1, <3>2
  <2>2. queue' = [queue EXCEPT ![s] = q2]
    BY <1>1
  <2> HIDE DEF q2
  <2> QED
    BY <2>1, <2>2 DEF Inv, TypeOK
<1>8. replies' \in [Conns -> Seq(Reply)] /\ \A d \in Conns \ {b.conn} : replies'[d] = replies[d]
  <2>1. Append(replies[b.conn], r) \in Seq(Reply)
    BY <1>2, <1>5, AppendSeq DEF Inv, TypeOK
  <2> QED
    BY <1>1, <1>2, <2>1 DEF Inv, TypeOK
<1>9. TypeOK'
  BY <1>1, <1>4, <1>6, <1>8 DEF Inv, TypeOK, DataType
<1>10. BatchesGood'
  <2> SUFFICES ASSUME NEW d \in Conns, NEW t \in Dirs, NEW p \in Nat, InBatch(t, d, p)'
               PROVE  InBatch(t, d, p)
    BY <1>1, GoodStable DEF Inv, BatchesGood
  <2> QED
    BY <1>6 DEF InBatch
<1>11. KeptHome'
  <2>1. \A x, t : Home(x, t)' <=> Home(x, t)
    BY DEF Home
  <2> QED
    BY <1>2, <1>4, <2>1 DEF Inv, KeptHome
<1>12. Gate'
  <2> SUFFICES ASSUME NEW d \in Conns PROVE Greeted(d)' \/ Untouched(d)'
    BY DEF Gate
  <2>1. CASE Greeted(d)
    BY <1>1, <2>1, GreetedStays
  <2>2. CASE Untouched(d)
    <3>1. d # b.conn
      BY <2>2, <1>2 DEF Untouched
    <3>2. \A t \in Dirs : HasBatch(t, d)' => HasBatch(t, d)
      BY <1>6 DEF HasBatch
    <3>3. \A t \in Dirs, x \in Keys : \A v \in Holds(t, x)' : v[1] = d => v \in Holds(t, x)
      BY <1>4, <3>1
    <3> QED
      BY <1>1, <1>8, <2>2, <3>1, <3>2, <3>3, UntouchedStays DEF Untouched
  <2> QED
    BY <2>1, <2>2 DEF Inv, Gate
<1> QED
  BY <1>1, <1>9, <1>10, <1>11, <1>12, Unaffected DEF Inv

LEMMA EndBatchInv ==
    ASSUME Inv, NEW s \in Dirs, EndBatch(s)
    PROVE  Inv'
<1>1. /\ queue[s] # <<>>
      /\ queue' = [queue EXCEPT ![s] = Tail(@)]
      /\ UNCHANGED <<count, starts, connVars>>
  BY DEF EndBatch
<1>2. /\ queue[s] \in Seq(Batch) /\ queue' \in [Dirs -> Seq(Batch)]
      /\ queue'[s] = Tail(queue[s]) /\ \A t \in Dirs \ {s} : queue'[t] = queue[t]
  <2>1. queue[s] \in Seq(Batch)
    BY DEF Inv, TypeOK
  <2>2. Tail(queue[s]) \in Seq(Batch)
    BY <1>1, <2>1, TailSeq
  <2> QED
    BY <1>1, <2>1, <2>2 DEF Inv, TypeOK
<1>3. \A t \in Dirs : \A i \in 1..Len(queue'[t]) :
          \E j \in 1..Len(queue[t]) : queue'[t][i] = queue[t][j]
  BY <1>1, <1>2, TailSeq
<1>4. DataType' /\ \A t \in Dirs, x \in Keys : Holds(t, x)' \subseteq Holds(t, x)
  BY EndBatchData DEF Inv
<1>5. TypeOK'
  BY <1>1, <1>2, <1>4 DEF Inv, TypeOK, DataType, connVars
<1>6. BatchesGood'
  <2> SUFFICES ASSUME NEW d \in Conns, NEW t \in Dirs, NEW p \in Nat, InBatch(t, d, p)'
               PROVE  InBatch(t, d, p)
    BY <1>1, GoodStable DEF Inv, BatchesGood, connVars
  <2>1. PICK i \in 1..Len(queue'[t]) :
            queue'[t][i].conn = d /\ \E l \in 1..Len(queue'[t][i].ops) : queue'[t][i].ops[l] = p
    BY DEF InBatch
  <2>2. PICK j \in 1..Len(queue[t]) : queue'[t][i] = queue[t][j]
    BY <1>3
  <2> QED
    BY <2>1, <2>2 DEF InBatch
<1>7. KeptHome'
  <2>1. \A x, t : Home(x, t)' <=> Home(x, t)
    BY DEF Home
  <2> QED
    BY <1>1, <1>4, <2>1 DEF Inv, KeptHome
<1>8. Gate'
  <2> SUFFICES ASSUME NEW d \in Conns PROVE Greeted(d)' \/ Untouched(d)'
    BY DEF Gate
  <2>1. CASE Greeted(d)
    BY <1>1, <2>1, GreetedStays DEF connVars
  <2>2. CASE Untouched(d)
    <3>1. \A t \in Dirs : HasBatch(t, d)' => HasBatch(t, d)
      BY <1>3 DEF HasBatch
    <3> QED
      BY <1>1, <1>4, <2>2, <3>1, UntouchedStays DEF Untouched, connVars
  <2> QED
    BY <2>1, <2>2 DEF Inv, Gate
<1> QED
  BY <1>1, <1>5, <1>6, <1>7, <1>8, Unaffected DEF Inv, connVars

LEMMA ExpireInv ==
    ASSUME Inv, NEW s \in Dirs, NEW k \in Keys, Expire(s, k)
    PROVE  Inv'
<1>1. UNCHANGED <<count, starts, connVars, queue>>
  BY DEF Expire
<1>2. DataType' /\ \A t \in Dirs, x \in Keys : Holds(t, x)' \subseteq Holds(t, x)
  BY ExpireData DEF Inv
<1>3. TypeOK'
  BY <1>1, <1>2 DEF Inv, TypeOK, DataType, connVars
<1>4. KeptHome'
  <2>1. \A x, t : Home(x, t)' <=> Home(x, t)
    BY DEF Home
  <2> QED
    BY <1>2, <2>1 DEF Inv, KeptHome
<1>5. Gate'
  <2> SUFFICES ASSUME NEW d \in Conns PROVE Greeted(d)' \/ Untouched(d)'
    BY DEF Gate
  <2>1. CASE Greeted(d)
    BY <1>1, <2>1, GreetedStays DEF connVars
  <2>2. CASE Untouched(d)
    <3>1. \A t \in Dirs : HasBatch(t, d)' => HasBatch(t, d)
      BY <1>1 DEF HasBatch
    <3> QED
      BY <1>1, <1>2, <2>2, <3>1, UntouchedStays DEF Untouched, connVars
  <2> QED
    BY <2>1, <2>2 DEF Inv, Gate
<1> QED
  BY <1>1, <1>3, <1>4, <1>5, Unaffected DEF Inv, connVars

LEMMA StartInv ==
    ASSUME Inv, NEW n \in WORKERS, Start(n)
    PROVE  Inv'
<1>1. /\ count = 0 /\ count' = next_power_of_two(n) /\ starts' = starts + 1
      /\ UNCHANGED <<connVars, queue>>
  BY DEF Start
<1>2. DataType' /\ \A t \in Dirs, x \in Keys : Holds(t, x)' \subseteq Holds(t, x)
  BY StartData DEF Inv
<1>3. TypeOK'
  <2>1. count' \in Nat /\ starts' \in Nat
    BY <1>1, PowerAssumption DEF Inv, TypeOK
  <2> QED
    BY <1>1, <1>2, <2>1 DEF Inv, TypeOK, DataType, connVars
<1>4. CountKnown'
  <2>1. count' # 0
    BY <1>1, PowerAssumption
  <2> QED
    BY <1>1, <2>1 DEF CountKnown
<1>5. KeptHome'
  <2>1. \A x, t : Home(x, t)' <=> Home(x, t)
    BY DEF Home
  <2> QED
    BY <1>2, <2>1 DEF Inv, KeptHome
<1>6. Gate'
  <2> SUFFICES ASSUME NEW d \in Conns PROVE Greeted(d)' \/ Untouched(d)'
    BY DEF Gate
  <2>1. CASE Greeted(d)
    BY <1>1, <2>1, GreetedStays DEF connVars
  <2>2. CASE Untouched(d)
    <3>1. \A t \in Dirs : HasBatch(t, d)' => HasBatch(t, d)
      BY <1>1 DEF HasBatch
    <3> QED
      BY <1>1, <1>2, <2>2, <3>1, UntouchedStays DEF Untouched, connVars
  <2> QED
    BY <2>1, <2>2 DEF Inv, Gate
<1> QED
  BY <1>1, <1>3, <1>4, <1>5, <1>6, Unaffected DEF Inv, connVars

LEMMA StopInv ==
    ASSUME Inv, Stop
    PROVE  Inv'
<1>1. /\ count' = 0
      /\ stage' = [c \in Conns |-> IF stage[c] = "none" THEN "none" ELSE "ended"]
      /\ link' = [c \in Conns |-> IF Connected(c) THEN "broken" ELSE link[c]]
      /\ writer' = [c \in Conns |-> IF writer[c] = "running" THEN "gone" ELSE writer[c]]
      /\ replies' = [c \in Conns |-> <<>>] /\ queue' = NoBatches
      /\ UNCHANGED <<starts, script, read, chunk, groups, answers>>
  BY DEF Stop
<1>0. DataType' /\ \A t \in Dirs, x \in Keys : Holds(t, x)' \subseteq Holds(t, x)
  BY StopData DEF Inv
<1>2. TypeOK'
  <2>1. \A S : <<>> \in Seq(S)
    BY EmptySeq
  <2>2. replies' \in [Conns -> Seq(Reply)] /\ queue' \in [Dirs -> Seq(Batch)]
    BY <1>1, <2>1 DEF NoBatches
  <2>3. /\ stage' \in [Conns -> Stages] /\ link' \in [Conns -> {"open", "half", "broken"}]
        /\ writer' \in [Conns -> {"none", "running", "gone"}]
    BY <1>1 DEF Inv, TypeOK, Stages
  <2>4. count' \in Nat
    BY <1>1
  <2> QED
    BY <1>1, <1>0, <2>2, <2>3, <2>4 DEF Inv, TypeOK, DataType
<1>3. \A s \in Dirs : \A c, p : ~HasBatch(s, c)' /\ ~InBatch(s, c, p)'
  <2>1. \A i : i \notin 1..Len(<<>>)
    OBVIOUS
  <2> QED
    BY <1>1, <2>1 DEF HasBatch, InBatch, NoBatches
<1>4. BatchesGood'
  BY <1>3 DEF BatchesGood
<1>5. KeptHome'
  <2>1. \A x, t : Home(x, t)' <=> Home(x, t)
    BY DEF Home
  <2> QED
    BY <1>0, <2>1 DEF Inv, KeptHome
<1>6. CountKnown'
  BY <1>1 DEF CountKnown
<1>7. Fresh'
  BY <1>1 DEF Inv, Fresh
<1>8. Gate'
  <2> SUFFICES ASSUME NEW d \in Conns PROVE Greeted(d)' \/ Untouched(d)'
    BY DEF Gate
  <2>1. CASE Greeted(d)
    BY <1>1, <2>1, GreetedStays
  <2>2. CASE Untouched(d)
    <3>1. stage'[d] \in {"none", "handshake", "ended"} /\ writer'[d] = "none" /\ replies'[d] = <<>>
      BY <1>1, <2>2 DEF Untouched
    <3> QED
      BY <1>1, <1>0, <1>3, <2>2, <3>1, UntouchedStays DEF Untouched
  <2> QED
    BY <2>1, <2>2 DEF Inv, Gate
<1> QED
  BY <1>1, <1>2, <1>4, <1>5, <1>6, <1>7, <1>8, Unaffected DEF Inv

-----------------------------------------------------------------------------
LEMMA NextInv == Inv /\ [Next]_vars => Inv'
<1> SUFFICES ASSUME Inv, [Next]_vars PROVE Inv'
  OBVIOUS
<1>1. ASSUME NEW c \in Conns, Client(c) PROVE Inv'
  BY <1>1, AcceptInv, LinkInv DEF Client
<1>2. ASSUME NEW c \in Conns, Reader(c) PROVE Inv'
  <2>1. CASE HandshakeFails(c) \/ PlanFails(c) \/ ReadFails(c) \/ EndOfStream(c) \/ Drained(c)
    BY <2>1, StageInv DEF HandshakeFails, PlanFails, ReadFails, EndOfStream, Drained, Return, Waits
  <2>2. CASE \E n \in 1..MAX_BATCH : ReadChunk(c, n)
    BY <2>2, ReadChunkInv
  <2> QED
    BY <1>2, <2>1, <2>2, HandshakeInv, PlanOpInv, PlanImmediateInv, DispatchInv DEF Reader
<1>3. ASSUME NEW c \in Conns, Writer(c) PROVE Inv'
  BY <1>3, WriterSendsInv, WriterGoneInv DEF Writer
<1>4. ASSUME NEW s \in Dirs, Worker(s) \/ \E k \in Keys : Expire(s, k) PROVE Inv'
  BY <1>4, ApplyInv, EndBatchInv, ExpireInv DEF Worker
<1>5. ASSUME NEW n \in WORKERS, Start(n) PROVE Inv'
  BY <1>5, StartInv
<1>6. CASE Stop
  BY <1>6, StopInv
<1>7. CASE UNCHANGED vars
  <2>1. UNCHANGED <<count, starts, script, link, stage, read, chunk, groups, replies, writer,
                    answers, queue, dataVars>>
    BY <1>7 DEF vars, connVars, shardVars, dataVars
  <2>2. TypeOK' /\ Gate'
    BY <2>1, SameData DEF Inv, TypeOK, dataVars, Gate, Greeted, Untouched, HasBatch
  <2> QED
    BY <2>1, <2>2, Unaffected DEF Inv
<1> QED
  BY <1>1, <1>2, <1>3, <1>4, <1>5, <1>6, <1>7 DEF Next

LEMMA InvHolds == Spec => []Inv
BY InitInv, NextInv, PTL DEF Spec

\* The server keeps its state within its types: every batch refers to a
\* connection and to positions, every reply is one the server knows how to make.
THEOREM TypeCorrect == Spec => []TypeOK
<1>1. Inv => TypeOK
  BY DEF Inv
<1> QED
  BY <1>1, InvHolds, PTL

\* A connection whose handshake was not accepted is answered at most once, and no
\* frame it sent is bucketed, batched, or seen by a shard (handle_conn returns
\* before it has a writer task), whatever the other connections do and however
\* often the process dies.
THEOREM NothingBeforeHandshake == Spec => []HandshakeFirst
<1>1. Inv => HandshakeFirst
  <2> SUFFICES ASSUME Inv, NEW c \in Conns, Plain(1, "OK") \notin answers[c]
               PROVE  /\ \A p \in 2..Len(script[c]) : Copies(c, p) = 0
                      /\ \A s \in Dirs, k \in Keys : store[s][k] # None => store[s][k][1] # c
    BY DEF HandshakeFirst
  <2>1. Untouched(c)
    BY DEF Inv, Gate, Greeted
  <2>2. \A s \in Dirs : groups[c][s] = <<>> /\ BatchesOf(c, s) = {}
    BY <2>1 DEF Untouched, NoGroups, HasBatch, BatchesOf
  <2>3. ASSUME NEW p \in 2..Len(script[c]) PROVE Copies(c, p) = 0
    <3>1. \A i : i \notin 1..Len(<<>>)
      OBVIOUS
    <3>2. \A s \in Dirs : At(groups[c][s], p) = {}
      BY <2>2, <3>1 DEF At
    <3>3. {j \in 1..Len(replies[c]) : replies[c][j].pos = p} = {}
      BY <2>1, <3>1 DEF Untouched
    <3>4. p # 1
      BY <2>3
    <3>5. {x \in answers[c] : x.pos = p} = {}
      BY <2>1, <3>4 DEF Untouched
    <3>6. Places(c, p) = {}
      BY <2>2, <3>2, <3>3, <3>5 DEF Places
    <3> QED
      BY <3>6, FS_EmptySet DEF Copies
  <2> QED
    BY <2>1, <2>3 DEF Untouched, Holds
<1> QED
  BY <1>1, InvHolds, PTL

\* As long as every start of the process comes to the same number of shards, a
\* key is only ever held by the shard that route_hash sends its requests to, in
\* memory and after a kill and a restart.  The hypothesis is needed: the run
\* `resize` shows what happens without it.
THEOREM KeysStayHome ==
    ASSUME OneCount
    PROVE  Spec => []KeysOwned
<1>1. Inv => KeysOwned
  BY DEF Inv, KeptHome, Holds, Home, CountKnown, KeysOwned
<1> QED
  BY <1>1, InvHolds, PTL

-----------------------------------------------------------------------------
(***************************************************************************)
(* One reply per request.  A frame that was planned is followed from place *)
(* to place: bucket, batch, reply channel, client.                         *)
(***************************************************************************)
InBuckets(c, p, x) ==
    \E s \in Dirs : \E i \in 1..Len(groups[c][s]) : groups[c][s][i] = p /\ x = <<"bucket", s, i>>

InBatches(c, p, x) ==
    \E s \in Dirs : \E i \in 1..Len(queue[s]) :
        queue[s][i].conn = c /\ \E j \in queue[s][i].next..Len(queue[s][i].ops) :
                                    queue[s][i].ops[j] = p /\ x = <<"batch", s, i, j>>

InChannel(c, p, x) ==
    \E i \in 1..Len(replies[c]) : replies[c][i].pos = p /\ x = <<"channel", i>>

AtClient(c, p, x) == \E r \in answers[c] : r.pos = p /\ x = <<"client", r>>

Place(c, p, x) == InBuckets(c, p, x) \/ InBatches(c, p, x) \/ InChannel(c, p, x) \/ AtClient(c, p, x)

\* A frame is nowhere before it is planned and in one place afterwards, or in
\* none once the connection is broken.
Kept(c, p) ==
    /\ \A x, y : Place(c, p, x) /\ Place(c, p, y) => x = y
    /\ p > read[c] => \A x : ~Place(c, p, x)
    /\ p \in 1..read[c] /\ link[c] # "broken" => \E x : Place(c, p, x)

AllKept == \A c \in Conns, p \in Nat : Kept(c, p)

\* A connection that is not broken has no batch and no reply when it has no
\* writer task, so the reply of an operation always finds the writer.
WriterServes ==
    \A c \in Conns : link[c] # "broken" /\ writer[c] # "running" =>
        stage[c] # "serving" /\ replies[c] = <<>> /\ \A s \in Dirs : ~HasBatch(s, c)

\* What makes OneReplyPerRequest inductive.
ReplyInv == Inv /\ WriterServes /\ AllKept

LEMMA PlacesMeaning == \A c, p, x : x \in Places(c, p) <=> Place(c, p, x)
<1> SUFFICES ASSUME NEW c, NEW p, NEW x PROVE x \in Places(c, p) <=> Place(c, p, x)
  OBVIOUS
<1> DEFINE B == UNION {{<<"bucket", s, i>> : i \in At(groups[c][s], p)} : s \in Dirs}
           Q == UNION {UNION {{<<"batch", s, i, j>> : j \in UnappliedAt(queue[s][i], p)} :
                                  i \in BatchesOf(c, s)} : s \in Dirs}
           R == {<<"channel", i>> : i \in {j \in 1..Len(replies[c]) : replies[c][j].pos = p}}
           A == {<<"client", r>> : r \in {a \in answers[c] : a.pos = p}}
<1>1. x \in B <=> InBuckets(c, p, x)
  BY DEF InBuckets, At
<1>2. x \in Q <=> InBatches(c, p, x)
  <2>1. x \in Q <=> \E s \in Dirs : \E i \in BatchesOf(c, s) :
                        \E j \in UnappliedAt(queue[s][i], p) : x = <<"batch", s, i, j>>
    OBVIOUS
  <2>2. \A s, i : i \in BatchesOf(c, s) <=> i \in 1..Len(queue[s]) /\ queue[s][i].conn = c
    BY DEF BatchesOf
  <2>3. \A b, j : j \in UnappliedAt(b, p) <=> j \in b.next..Len(b.ops) /\ b.ops[j] = p
    BY DEF UnappliedAt
  <2> HIDE DEF Q
  <2> QED
    BY <2>1, <2>2, <2>3, Zenon DEF InBatches
<1>3. x \in R <=> InChannel(c, p, x)
  BY DEF InChannel
<1>4. x \in A <=> AtClient(c, p, x)
  BY DEF AtClient
<1>5. Places(c, p) = B \cup Q \cup R \cup A
  BY DEF Places
<1> HIDE DEF B, Q, R, A
<1> QED
  BY <1>1, <1>2, <1>3, <1>4, <1>5 DEF Place

LEMMA KeptCounts ==
    ASSUME NEW c, NEW p \in 1..read[c], Kept(c, p)
    PROVE  Copies(c, p) <= 1 /\ (link[c] # "broken" => Copies(c, p) = 1)
<1>1. CASE \E x : Place(c, p, x)
  <2>1. PICK x : Place(c, p, x)
    BY <1>1
  <2>2. Places(c, p) = {x}
    BY <2>1, PlacesMeaning DEF Kept
  <2>3. Cardinality({x}) = 1
    BY FS_Singleton
  <2> QED
    BY <2>2, <2>3 DEF Copies
<1>2. CASE ~\E x : Place(c, p, x)
  <2>1. Places(c, p) = {}
    BY <1>2, PlacesMeaning
  <2>2. link[c] = "broken"
    BY <1>2 DEF Kept
  <2> QED
    BY <2>1, <2>2, FS_EmptySet DEF Copies
<1> QED
  BY <1>1, <1>2

\* Where the places of a frame stay as they are.
LEMMA KeptStays ==
    ASSUME NEW c, NEW p \in Nat, Kept(c, p), read'[c] = read[c],
           link'[c] # "broken" => link[c] # "broken",
           \A x : Place(c, p, x)' <=> Place(c, p, x)
    PROVE  Kept(c, p)'
BY DEF Kept

\* Where what was there is lost with the connection.
LEMMA KeptLost ==
    ASSUME NEW c, NEW p \in Nat, Kept(c, p), read'[c] = read[c], link'[c] = "broken",
           \A x : Place(c, p, x)' => Place(c, p, x)
    PROVE  Kept(c, p)'
BY DEF Kept

\* Where a frame of the connection is planned.
LEMMA KeptGrows ==
    ASSUME NEW c, NEW p \in Nat, Kept(c, p), read[c] \in Nat, read'[c] = read[c] + 1,
           link'[c] = link[c], NEW y,
           p = read[c] + 1 => \A x : Place(c, p, x)' <=> (Place(c, p, x) \/ x = y),
           p # read[c] + 1 => \A x : Place(c, p, x)' <=> Place(c, p, x)
    PROVE  Kept(c, p)'
<1>1. CASE p = read[c] + 1
  <2>1. \A x : Place(c, p, x)' <=> x = y
    BY <1>1 DEF Kept
  <2> QED
    BY <1>1, <2>1 DEF Kept
<1>2. CASE p # read[c] + 1
  <2>1. (p > read[c] <=> p > read'[c]) /\ (p \in 1..read'[c] => p \in 1..read[c])
    BY <1>2
  <2> QED
    BY <1>2, <2>1 DEF Kept
<1> QED
  BY <1>1, <1>2

\* No batch, reply or answer of the connection moves.
LEMMA SamePlaces ==
    ASSUME NEW c, NEW p, groups'[c] = groups[c], replies'[c] = replies[c], answers'[c] = answers[c],
           \A x : InBatches(c, p, x)' <=> InBatches(c, p, x)
    PROVE  \A x : Place(c, p, x)' <=> Place(c, p, x)
BY DEF Place, InBuckets, InChannel, AtClient

LEMMA NothingMoves ==
    ASSUME AllKept, UNCHANGED <<groups, queue, replies, answers, read>>,
           \A c \in Conns : link'[c] # "broken" => link[c] # "broken"
    PROVE  AllKept'
<1> SUFFICES ASSUME NEW c \in Conns, NEW p \in Nat PROVE Kept(c, p)'
  BY DEF AllKept
<1>1. \A x : InBatches(c, p, x)' <=> InBatches(c, p, x)
  BY DEF InBatches
<1>2. \A x : Place(c, p, x)' <=> Place(c, p, x)
  BY <1>1, SamePlaces
<1> QED
  BY <1>2, KeptStays DEF AllKept

LEMMA QuietKept ==
    ASSUME ReplyInv, NEW c \in Conns,
           \/ \E frames \in Traffic[c] : Accept(c, frames)
           \/ Shut(c) \/ Break(c) \/ HandshakeFails(c) \/ PlanFails(c) \/ ReadFails(c)
           \/ \E n \in 1..MAX_BATCH : ReadChunk(c, n)
           \/ EndOfStream(c) \/ Drained(c) \/ WriterEnds(c)
    PROVE  WriterServes' /\ AllKept'
<1>1. UNCHANGED <<groups, queue, replies, answers, read>>
  BY DEF Accept, Shut, Break, HandshakeFails, PlanFails, ReadFails, ReadChunk, EndOfStream, Drained,
         WriterEnds, Return, shardVars
<1>2. \A d \in Conns : /\ link'[d] # "broken" => link[d] # "broken"
                       /\ stage'[d] = "serving" => stage[d] = "serving"
  BY DEF Accept, Shut, Break, HandshakeFails, PlanFails, ReadFails, ReadChunk, EndOfStream, Drained,
         WriterEnds, Return, ReplyInv, Inv, TypeOK
<1>3. AllKept'
  BY <1>1, <1>2, NothingMoves DEF ReplyInv
<1>5. CASE UNCHANGED writer
  <2> SUFFICES ASSUME NEW d \in Conns, link'[d] # "broken", writer'[d] # "running"
               PROVE  stage'[d] # "serving" /\ replies'[d] = <<>> /\ \A s \in Dirs : ~HasBatch(s, d)'
    BY <1>3 DEF WriterServes
  <2>1. stage[d] # "serving" /\ replies[d] = <<>> /\ \A s \in Dirs : ~HasBatch(s, d)
    BY <1>2, <1>5 DEF ReplyInv, WriterServes
  <2> QED
    BY <1>1, <1>2, <2>1 DEF HasBatch
<1>6. CASE WriterEnds(c)
  <2>1. /\ stage[c] # "serving" /\ replies[c] = <<>> /\ \A s \in Dirs : ~HasBatch(s, c)
        /\ stage' = stage /\ \A d \in Conns \ {c} : writer'[d] = writer[d]
    BY <1>6 DEF WriterEnds, Senders, BatchesOf, HasBatch, ReplyInv, Inv, TypeOK
  <2> SUFFICES ASSUME NEW d \in Conns, link'[d] # "broken", writer'[d] # "running"
               PROVE  stage'[d] # "serving" /\ replies'[d] = <<>> /\ \A s \in Dirs : ~HasBatch(s, d)'
    BY <1>3 DEF WriterServes
  <2>2. stage[d] # "serving" /\ replies[d] = <<>> /\ \A s \in Dirs : ~HasBatch(s, d)
    BY <1>2, <2>1 DEF ReplyInv, WriterServes
  <2> QED
    BY <1>1, <1>2, <2>2 DEF HasBatch
<1>7. UNCHANGED writer \/ WriterEnds(c)
  BY DEF Accept, Shut, Break, HandshakeFails, PlanFails, ReadFails, ReadChunk, EndOfStream, Drained,
         Return
<1> QED
  BY <1>3, <1>5, <1>6, <1>7

LEMMA HandshakeKept ==
    ASSUME ReplyInv, NEW c \in Conns, Handshake(c)
    PROVE  WriterServes' /\ AllKept'
<1> DEFINE res == Greeting(NextFrame(c))
           a == Plain(1, res)
<1>1. /\ stage[c] = "handshake" /\ a.pos = 1
      /\ answers' = [answers EXCEPT ![c] = @ \cup {a}]
      /\ stage' = [stage EXCEPT ![c] = IF res = "OK" THEN "serving" ELSE "ended"]
      /\ writer' = IF res = "OK" THEN [writer EXCEPT ![c] = "running"] ELSE writer
      /\ read' = [read EXCEPT ![c] = 1]
      /\ UNCHANGED <<link, groups, replies, queue>>
  BY DEF Handshake, Plain, shardVars, dataVars
<1> HIDE DEF a, res
<1>2. /\ \A d \in Conns \ {c} : answers'[d] = answers[d] /\ read'[d] = read[d]
                                /\ stage'[d] = stage[d] /\ writer'[d] = writer[d]
      /\ answers'[c] = answers[c] \cup {a} /\ read[c] = 0 /\ read'[c] = 1
      /\ stage'[c] = "serving" => writer'[c] = "running"
      /\ writer'[c] # "running" => writer'[c] = writer[c]
  BY <1>1 DEF ReplyInv, Inv, TypeOK, Fresh
<1>3. \A d \in Conns, s \in Dirs : HasBatch(s, d)' <=> HasBatch(s, d)
  BY <1>1 DEF HasBatch
<1>4. WriterServes'
  BY <1>1, <1>2, <1>3 DEF ReplyInv, WriterServes
<1>5. \A d \in Conns, p \in Nat : \A x : InBatches(d, p, x)' <=> InBatches(d, p, x)
  BY <1>1 DEF InBatches
<1>6. ASSUME NEW d \in Conns \ {c}, NEW p \in Nat PROVE Kept(d, p)'
  <2>1. \A x : Place(d, p, x)' <=> Place(d, p, x)
    BY <1>1, <1>2, <1>5, SamePlaces
  <2> QED
    BY <1>1, <1>2, <2>1, KeptStays DEF ReplyInv, AllKept
<1>7. ASSUME NEW p \in Nat PROVE Kept(c, p)'
  <2>1. \A x : AtClient(c, p, x)' <=> AtClient(c, p, x) \/ (p = 1 /\ x = <<"client", a>>)
    BY <1>1, <1>2 DEF AtClient
  <2>2. \A x : Place(c, p, x)' <=> Place(c, p, x) \/ (p = 1 /\ x = <<"client", a>>)
    BY <1>1, <1>5, <2>1 DEF Place, InBuckets, InChannel
  <2>3. Kept(c, p) /\ link'[c] = link[c]
    BY <1>1 DEF ReplyInv, AllKept
  <2>4. p = 1 => \A x : Place(c, p, x)' <=> (Place(c, p, x) \/ x = <<"client", a>>)
    BY <2>2
  <2>5. p # 1 => \A x : Place(c, p, x)' <=> Place(c, p, x)
    BY <2>2
  <2>6. read[c] \in Nat /\ read[c] + 1 = 1 /\ read'[c] = read[c] + 1
    BY <1>2
  <2> QED
    BY <2>3, <2>4, <2>5, <2>6, KeptGrows
<1> QED
  BY <1>4, <1>6, <1>7 DEF AllKept

LEMMA PlanOpKept ==
    ASSUME ReplyInv, NEW c \in Conns, PlanOp(c)
    PROVE  WriterServes' /\ AllKept'
<1> DEFINE t == route_hash(NextFrame(c).key, count)
           p0 == read[c] + 1
           n == Len(groups[c][t])
<1>1. /\ stage[c] = "serving" /\ ~Planned(c) /\ IsOp(NextFrame(c))
      /\ groups' = [groups EXCEPT ![c][t] = Append(@, p0)]
      /\ read' = [read EXCEPT ![c] = @ + 1]
      /\ UNCHANGED <<link, stage, writer, replies, answers, queue>>
  BY DEF PlanOp, shardVars, dataVars
<1>2. t \in Dirs
  <2>1. PICK m \in WORKERS : count = next_power_of_two(m)
    BY <1>1 DEF ReplyInv, Inv, CountKnown
  <2>2. NextFrame(c).key \in Keys
    <3>1. NextFrame(c) \in Frame
      BY <1>1, NextPosition DEF ReplyInv
    <3> QED
      BY <1>1, <3>1 DEF Frame, IsOp
  <2> QED
    BY <2>1, <2>2, RouteAssumption
<1>3. p0 \in Nat /\ read[c] \in Nat /\ read'[c] = p0 /\ \A d \in Conns \ {c} : read'[d] = read[d]
  BY <1>1 DEF ReplyInv, Inv, TypeOK
<1> HIDE DEF t
<1>4. /\ groups[c][t] \in Seq(Nat) /\ \A d \in Conns \ {c} : groups'[d] = groups[d]
      /\ groups'[c][t] = Append(groups[c][t], p0)
      /\ \A s \in Dirs \ {t} : groups'[c][s] = groups[c][s]
  BY <1>1, <1>2 DEF ReplyInv, Inv, TypeOK
<1>5. n \in Nat /\ Len(groups'[c][t]) = n + 1 /\ groups'[c][t][n + 1] = p0
      /\ \A i \in 1..n : groups'[c][t][i] = groups[c][t][i]
  BY <1>3, <1>4, AppendSeq
<1> HIDE DEF p0, n
<1>6. WriterServes'
  BY <1>1 DEF ReplyInv, WriterServes, HasBatch
<1>7. \A d \in Conns, p \in Nat : \A x : InBatches(d, p, x)' <=> InBatches(d, p, x)
  BY <1>1 DEF InBatches
<1>8. ASSUME NEW d \in Conns \ {c}, NEW p \in Nat PROVE Kept(d, p)'
  <2>1. \A x : Place(d, p, x)' <=> Place(d, p, x)
    BY <1>1, <1>4, <1>7, SamePlaces
  <2> QED
    BY <1>1, <1>3, <2>1, KeptStays DEF ReplyInv, AllKept
<1>9. ASSUME NEW p \in Nat PROVE Kept(c, p)'
  <2>1. ASSUME NEW x
        PROVE  InBuckets(c, p, x)' <=> InBuckets(c, p, x) \/ (p = p0 /\ x = <<"bucket", t, n + 1>>)
    <3> DEFINE Here(s) == \E i \in 1..Len(groups[c][s]) : groups[c][s][i] = p /\ x = <<"bucket", s, i>>
               Then(s) == \E i \in 1..Len(groups'[c][s]) :
                              groups'[c][s][i] = p /\ x = <<"bucket", s, i>>
    <3>1. \A s \in Dirs \ {t} : Then(s) <=> Here(s)
      BY <1>4
    <3>2. Then(t) <=> Here(t) \/ (p = p0 /\ x = <<"bucket", t, n + 1>>)
      <4>1. 1..Len(groups[c][t]) = 1..n /\ 1..Len(groups'[c][t]) = 1..n \cup {n + 1}
        BY <1>5 DEF n
      <4> QED
        BY <1>5, <4>1
    <3>3. (InBuckets(c, p, x)' <=> \E s \in Dirs : Then(s)) /\ (InBuckets(c, p, x) <=> \E s \in Dirs : Here(s))
      BY DEF InBuckets
    <3> HIDE DEF Here, Then
    <3> QED
      BY <1>2, <3>1, <3>2, <3>3
  <2>2. \A x : Place(c, p, x)' <=> Place(c, p, x) \/ (p = p0 /\ x = <<"bucket", t, n + 1>>)
    BY <1>1, <1>7, <2>1 DEF Place, AtClient, InChannel
  <2>3. Kept(c, p) /\ link'[c] = link[c]
    BY <1>1 DEF ReplyInv, AllKept
  <2>4. p = p0 => \A x : Place(c, p, x)' <=> (Place(c, p, x) \/ x = <<"bucket", t, n + 1>>)
    BY <2>2
  <2>5. p # p0 => \A x : Place(c, p, x)' <=> Place(c, p, x)
    BY <2>2
  <2> QED
    BY <1>3, <2>3, <2>4, <2>5, KeptGrows DEF p0
<1> QED
  BY <1>6, <1>8, <1>9 DEF AllKept

LEMMA PlanImmediateKept ==
    ASSUME ReplyInv, NEW c \in Conns, PlanImmediate(c)
    PROVE  WriterServes' /\ AllKept'
<1> DEFINE p0 == read[c] + 1
           r == Plain(p0, Immediate(NextFrame(c)))
           n == Len(replies[c])
<1>1. /\ writer[c] = "running" /\ r.pos = p0
      /\ replies' = [replies EXCEPT ![c] = Append(@, r)]
      /\ read' = [read EXCEPT ![c] = @ + 1]
      /\ UNCHANGED <<link, stage, writer, groups, answers, queue>>
  BY DEF PlanImmediate, shardVars, dataVars, Plain
<1> HIDE DEF r
<1>2. p0 \in Nat /\ read[c] \in Nat /\ read'[c] = p0 /\ \A d \in Conns \ {c} : read'[d] = read[d]
  BY <1>1 DEF ReplyInv, Inv, TypeOK
<1>3. /\ replies'[c] = Append(replies[c], r) /\ \A d \in Conns \ {c} : replies'[d] = replies[d]
      /\ n \in Nat /\ Len(replies'[c]) = n + 1 /\ replies'[c][n + 1] = r
      /\ \A i \in 1..n : replies'[c][i] = replies[c][i]
  <2>1. replies[c] \in Seq(Reply \cup {r}) /\ r \in Reply \cup {r}
    <3>1. replies[c] \in Seq(Reply)
      BY DEF ReplyInv, Inv, TypeOK
    <3> QED
      BY <3>1
  <2>2. replies'[c] = Append(replies[c], r) /\ \A d \in Conns \ {c} : replies'[d] = replies[d]
    BY <1>1 DEF ReplyInv, Inv, TypeOK
  <2> QED
    BY <2>1, <2>2, AppendSeq
<1> HIDE DEF p0, n
<1>4. WriterServes'
  BY <1>1, <1>3 DEF ReplyInv, WriterServes, HasBatch
<1>5. \A d \in Conns, p \in Nat : \A x : InBatches(d, p, x)' <=> InBatches(d, p, x)
  BY <1>1 DEF InBatches
<1>6. ASSUME NEW d \in Conns \ {c}, NEW p \in Nat PROVE Kept(d, p)'
  <2>1. \A x : Place(d, p, x)' <=> Place(d, p, x)
    BY <1>1, <1>3, <1>5, SamePlaces
  <2> QED
    BY <1>1, <1>2, <2>1, KeptStays DEF ReplyInv, AllKept
<1>7. ASSUME NEW p \in Nat PROVE Kept(c, p)'
  <2>1. \A x : InChannel(c, p, x)' <=> InChannel(c, p, x) \/ (p = p0 /\ x = <<"channel", n + 1>>)
    <3>1. 1..Len(replies[c]) = 1..n /\ 1..Len(replies'[c]) = 1..n \cup {n + 1}
      BY <1>3 DEF n
    <3> QED
      BY <1>1, <1>3, <3>1 DEF InChannel
  <2>2. \A x : Place(c, p, x)' <=> Place(c, p, x) \/ (p = p0 /\ x = <<"channel", n + 1>>)
    BY <1>1, <1>5, <2>1 DEF Place, AtClient, InBuckets
  <2>3. Kept(c, p) /\ link'[c] = link[c]
    BY <1>1 DEF ReplyInv, AllKept
  <2>4. p = p0 => \A x : Place(c, p, x)' <=> (Place(c, p, x) \/ x = <<"channel", n + 1>>)
    BY <2>2
  <2>5. p # p0 => \A x : Place(c, p, x)' <=> Place(c, p, x)
    BY <2>2
  <2> QED
    BY <1>2, <2>3, <2>4, <2>5, KeptGrows DEF p0
<1> QED
  BY <1>4, <1>6, <1>7 DEF AllKept

-----------------------------------------------------------------------------
\* Dispatch moves what is bucketed for a shard to the end of its queue.
LEMMA DispatchKept ==
    ASSUME ReplyInv, NEW c \in Conns, Dispatch(c)
    PROVE  WriterServes' /\ AllKept'
<1> DEFINE t == Min(Bucketed(c))
           b == [conn |-> c, ops |-> groups[c][t], next |-> 1]
           n == Len(queue[t])
<1>1. /\ stage[c] = "serving" /\ Bucketed(c) # {}
      /\ queue' = [queue EXCEPT ![t] = Append(@, b)]
      /\ groups' = [groups EXCEPT ![c][t] = <<>>]
      /\ UNCHANGED <<link, stage, read, writer, replies, answers>>
  BY DEF Dispatch
<1>2. t \in Dirs
  BY <1>1, FirstBucket
<1> HIDE DEF t
<1>3. b.conn = c /\ b.ops = groups[c][t] /\ b.next = 1 /\ b \in Batch
  <2>1. groups[c][t] \in Seq(Nat)
    BY <1>2 DEF ReplyInv, Inv, TypeOK
  <2> QED
    BY <2>1 DEF Batch
<1> HIDE DEF b
<1>4. /\ queue[t] \in Seq(Batch) /\ queue'[t] = Append(queue[t], b)
      /\ \A s \in Dirs \ {t} : queue'[s] = queue[s]
  BY <1>1, <1>2 DEF ReplyInv, Inv, TypeOK
<1>5. /\ n \in Nat /\ Len(queue'[t]) = n + 1 /\ queue'[t][n + 1] = b
      /\ \A i \in 1..n : queue'[t][i] = queue[t][i]
  BY <1>3, <1>4, AppendSeq
<1>6. /\ \A d \in Conns \ {c} : groups'[d] = groups[d]
      /\ groups'[c][t] = <<>> /\ \A s \in Dirs \ {t} : groups'[c][s] = groups[c][s]
  BY <1>1, <1>2 DEF ReplyInv, Inv, TypeOK
<1>7. 1..Len(queue[t]) = 1..n /\ 1..Len(queue'[t]) = 1..n \cup {n + 1}
  BY <1>5 DEF n
<1> HIDE DEF n
<1>8. WriterServes'
  <2> SUFFICES ASSUME NEW d \in Conns, link[d] # "broken", writer[d] # "running"
               PROVE  stage[d] # "serving" /\ replies[d] = <<>> /\ \A s \in Dirs : ~HasBatch(s, d)'
    BY <1>1 DEF WriterServes
  <2>1. stage[d] # "serving" /\ replies[d] = <<>> /\ \A s \in Dirs : ~HasBatch(s, d)
    BY DEF ReplyInv, WriterServes
  <2>2. d # c
    BY <1>1, <2>1
  <2>3. \A s \in Dirs : s = t => ~HasBatch(s, d)'
    BY <1>2, <1>3, <1>5, <1>7, <2>1, <2>2 DEF HasBatch
  <2>4. \A s \in Dirs \ {t} : ~HasBatch(s, d)'
    BY <1>4, <2>1 DEF HasBatch
  <2> QED
    BY <2>1, <2>3, <2>4
<1>9. \A p, x : InBatches(c, p, x)' <=>
          \/ InBatches(c, p, x)
          \/ \E j \in 1..Len(groups[c][t]) : groups[c][t][j] = p /\ x = <<"batch", t, n + 1, j>>
  <2> TAKE p, x
  <2> DEFINE InB(q, s, i) == q[s][i].conn = c /\ \E j \in q[s][i].next..Len(q[s][i].ops) :
                                 q[s][i].ops[j] = p /\ x = <<"batch", s, i, j>>
             New == \E j \in 1..Len(groups[c][t]) :
                        groups[c][t][j] = p /\ x = <<"batch", t, n + 1, j>>
  <2>1. /\ InBatches(c, p, x) <=> \E s \in Dirs : \E i \in 1..Len(queue[s]) : InB(queue, s, i)
        /\ InBatches(c, p, x)' <=> \E s \in Dirs : \E i \in 1..Len(queue'[s]) : InB(queue', s, i)
    BY DEF InBatches
  <2>2. \A s \in Dirs \ {t} : \A i \in 1..Len(queue[s]) : InB(queue', s, i) <=> InB(queue, s, i)
    BY <1>4
  <2>3. \A i \in 1..n : InB(queue', t, i) <=> InB(queue, t, i)
    BY <1>5
  <2>4. InB(queue', t, n + 1) <=> New
    BY <1>3, <1>5
  <2> HIDE DEF InB, New
  <2>5. InBatches(c, p, x)' <=> InBatches(c, p, x) \/ New
    <3> DEFINE Here(s) == \E i \in 1..Len(queue[s]) : InB(queue, s, i)
               Then(s) == \E i \in 1..Len(queue'[s]) : InB(queue', s, i)
    <3>1. \A s \in Dirs \ {t} : Then(s) <=> Here(s)
      BY <1>4, <2>2
    <3>2. Then(t) <=> Here(t) \/ New
      BY <1>7, <2>3, <2>4
    <3>3. (InBatches(c, p, x)' <=> \E s \in Dirs : Then(s)) /\ (InBatches(c, p, x) <=> \E s \in Dirs : Here(s))
      BY <2>1
    <3> HIDE DEF Here, Then
    <3> QED
      BY <1>2, <3>1, <3>2, <3>3
  <2> QED
    BY <2>5 DEF New
<1>10. ASSUME NEW d \in Conns \ {c}, NEW p \in Nat PROVE Kept(d, p)'
  <2>1. ASSUME NEW x PROVE InBatches(d, p, x)' <=> InBatches(d, p, x)
    <3> DEFINE InB(q, s, i) == q[s][i].conn = d /\ \E j \in q[s][i].next..Len(q[s][i].ops) :
                                   q[s][i].ops[j] = p /\ x = <<"batch", s, i, j>>
    <3>1. /\ InBatches(d, p, x) <=> \E s \in Dirs : \E i \in 1..Len(queue[s]) : InB(queue, s, i)
          /\ InBatches(d, p, x)' <=> \E s \in Dirs : \E i \in 1..Len(queue'[s]) : InB(queue', s, i)
      BY DEF InBatches
    <3>2. \A s \in Dirs \ {t} : \A i \in 1..Len(queue[s]) : InB(queue', s, i) <=> InB(queue, s, i)
      BY <1>4
    <3>3. \A i \in 1..n : InB(queue', t, i) <=> InB(queue, t, i)
      BY <1>5
    <3>4. ~InB(queue', t, n + 1)
      BY <1>3, <1>5
    <3> HIDE DEF InB
    <3> QED
      BY <1>2, <1>4, <1>7, <3>1, <3>2, <3>3, <3>4
  <2>2. \A x : Place(d, p, x)' <=> Place(d, p, x)
    BY <1>1, <1>6, <2>1, SamePlaces
  <2> QED
    BY <1>1, <2>2, KeptStays DEF ReplyInv, AllKept
<1>11. ASSUME NEW p \in Nat PROVE Kept(c, p)'
  <2> DEFINE M(x) == IF x[1] = "bucket" /\ x[2] = t THEN <<"batch", t, n + 1, x[3]>> ELSE x
  <2>1. \A i : i \notin 1..Len(<<>>)
    OBVIOUS
  <2>2. ASSUME NEW x, Place(c, p, x)' PROVE \E y : Place(c, p, y) /\ x = M(y)
    <3>1. CASE InBuckets(c, p, x)'
      <4>1. PICK s \in Dirs : \E i \in 1..Len(groups'[c][s]) :
                groups'[c][s][i] = p /\ x = <<"bucket", s, i>>
        BY <3>1 DEF InBuckets
      <4>2. s # t
        BY <4>1, <1>6, <2>1
      <4>3. InBuckets(c, p, x) /\ M(x) = x
        BY <4>1, <4>2, <1>6 DEF InBuckets
      <4> QED
        BY <4>3 DEF Place
    <3>2. CASE InBatches(c, p, x)
      <4>1. x[1] = "batch"
        BY <3>2 DEF InBatches
      <4> QED
        BY <3>2, <4>1 DEF Place
    <3>3. ASSUME NEW j \in 1..Len(groups[c][t]), groups[c][t][j] = p, x = <<"batch", t, n + 1, j>>
          PROVE  \E y : Place(c, p, y) /\ x = M(y)
      <4>1. InBuckets(c, p, <<"bucket", t, j>>) /\ M(<<"bucket", t, j>>) = x
        BY <3>3, <1>2 DEF InBuckets
      <4> QED
        BY <4>1 DEF Place
    <3>4. CASE InChannel(c, p, x)' \/ AtClient(c, p, x)'
      <4>1. (InChannel(c, p, x) \/ AtClient(c, p, x)) /\ x[1] # "bucket"
        BY <3>4, <1>1 DEF InChannel, AtClient
      <4> QED
        BY <4>1 DEF Place
    <3> QED
      BY <2>2, <1>9, <3>1, <3>2, <3>3, <3>4 DEF Place
  <2>3. ASSUME NEW y, Place(c, p, y) PROVE \E z : z = M(y) /\ Place(c, p, z)'
    <3>1. CASE InBuckets(c, p, y)
      <4>0. PICK s \in Dirs : \E i \in 1..Len(groups[c][s]) :
                groups[c][s][i] = p /\ y = <<"bucket", s, i>>
        BY <3>1 DEF InBuckets
      <4>1. PICK i \in 1..Len(groups[c][s]) : groups[c][s][i] = p /\ y = <<"bucket", s, i>>
        BY <4>0
      <4>2. CASE s = t
        <5>1. M(y) = <<"batch", t, n + 1, i>>
          BY <4>1, <4>2
        <5> QED
          BY <4>1, <4>2, <5>1, <1>9 DEF Place
      <4>3. CASE s # t
        <5>1. M(y) = y /\ groups'[c][s] = groups[c][s]
          BY <4>1, <4>3, <1>6
        <5>2. InBuckets(c, p, y)'
          BY <4>1, <5>1 DEF InBuckets
        <5> QED
          BY <5>1, <5>2 DEF Place
      <4> QED
        BY <4>2, <4>3
    <3>2. CASE InBatches(c, p, y)
      <4>1. y[1] = "batch"
        BY <3>2 DEF InBatches
      <4>2. M(y) = y
        BY <4>1
      <4> QED
        BY <3>2, <4>2, <1>9 DEF Place
    <3>3. CASE InChannel(c, p, y) \/ AtClient(c, p, y)
      <4>1. (InChannel(c, p, y)' \/ AtClient(c, p, y)') /\ y[1] # "bucket"
        BY <3>3, <1>1 DEF InChannel, AtClient
      <4>2. M(y) = y
        BY <4>1
      <4> QED
        BY <4>1, <4>2 DEF Place
    <3> QED
      BY <2>3, <3>1, <3>2, <3>3 DEF Place
  <2>4. Kept(c, p) /\ read' = read /\ link' = link
    BY <1>1 DEF ReplyInv, AllKept
  <2> HIDE DEF M
  <2> QED
    BY <2>2, <2>3, <2>4 DEF Kept
<1> QED
  BY <1>8, <1>10, <1>11 DEF AllKept

\* The writer task moves a reply from its channel to the client.
LEMMA WriterSendsKept ==
    ASSUME ReplyInv, NEW c \in Conns, WriterSends(c)
    PROVE  WriterServes' /\ AllKept'
<1> DEFINE q == replies[c]
           h == Head(q)
<1>1. /\ writer[c] = "running" /\ q # <<>>
      /\ answers' = [answers EXCEPT ![c] = @ \cup {h}]
      /\ replies' = [replies EXCEPT ![c] = Tail(@)]
      /\ UNCHANGED <<link, stage, read, groups, writer, queue>>
  BY DEF WriterSends, shardVars, dataVars
<1>2. /\ Len(q) \in Nat \ {0} /\ h = q[1] /\ Len(Tail(q)) = Len(q) - 1
      /\ \A i \in 1..(Len(q) - 1) : Tail(q)[i] = q[i + 1]
  <2>1. q \in Seq(Reply)
    BY DEF ReplyInv, Inv, TypeOK
  <2> QED
    BY <1>1, <2>1, TailSeq
<1>3. /\ \A d \in Conns \ {c} : answers'[d] = answers[d] /\ replies'[d] = replies[d]
      /\ answers'[c] = answers[c] \cup {h} /\ replies'[c] = Tail(q)
  BY <1>1 DEF ReplyInv, Inv, TypeOK
<1> HIDE DEF q, h
<1>4. WriterServes'
  BY <1>1, <1>3 DEF ReplyInv, WriterServes, HasBatch
<1>5. \A d \in Conns, p \in Nat : \A x : InBatches(d, p, x)' <=> InBatches(d, p, x)
  BY <1>1 DEF InBatches
<1>6. ASSUME NEW d \in Conns \ {c}, NEW p \in Nat PROVE Kept(d, p)'
  <2>1. \A x : Place(d, p, x)' <=> Place(d, p, x)
    BY <1>1, <1>3, <1>5, SamePlaces
  <2> QED
    BY <1>1, <2>1, KeptStays DEF ReplyInv, AllKept
<1>7. ASSUME NEW p \in Nat PROVE Kept(c, p)'
  <2> DEFINE M(x) == IF x[1] = "channel"
                     THEN IF x[2] = 1 THEN <<"client", h>> ELSE <<"channel", x[2] - 1>> ELSE x
  <2>1. \A x : InChannel(c, p, x) <=> \E i \in 1..Len(q) : q[i].pos = p /\ x = <<"channel", i>>
    BY DEF InChannel, q
  <2>2. \A x : InChannel(c, p, x)' <=>
            \E i \in 1..(Len(q) - 1) : q[i + 1].pos = p /\ x = <<"channel", i>>
    BY <1>2, <1>3 DEF InChannel
  <2>3. \A x : AtClient(c, p, x)' <=> AtClient(c, p, x) \/ (h.pos = p /\ x = <<"client", h>>)
    BY <1>3 DEF AtClient
  <2>4. \A x : /\ InBuckets(c, p, x)' <=> InBuckets(c, p, x)
               /\ InBuckets(c, p, x) \/ InBatches(c, p, x) \/ AtClient(c, p, x) => x[1] # "channel"
    BY <1>1 DEF InBuckets, InBatches, AtClient
  <2>5. \A x : x[1] # "channel" => M(x) = x
    OBVIOUS
  <2>6. M(<<"channel", 1>>) = <<"client", h>> /\ \A i \in 1..(Len(q) - 1) : M(<<"channel", i + 1>>) = <<"channel", i>>
    <3>1. \A i \in 1..(Len(q) - 1) : i + 1 # 1 /\ (i + 1) - 1 = i
      BY <1>2
    <3> QED
      BY <3>1
  <2> HIDE DEF M
  <2>7. ASSUME NEW x, Place(c, p, x)' PROVE \E y : Place(c, p, y) /\ x = M(y)
    <3>1. CASE InChannel(c, p, x)'
      <4>1. PICK i \in 1..(Len(q) - 1) : q[i + 1].pos = p /\ x = <<"channel", i>>
        BY <3>1, <2>2
      <4>2. i + 1 \in 1..Len(q)
        BY <1>2
      <4>3. InChannel(c, p, <<"channel", i + 1>>) /\ M(<<"channel", i + 1>>) = x
        BY <2>1, <2>6, <4>1, <4>2
      <4> QED
        BY <4>3 DEF Place
    <3>2. CASE h.pos = p /\ x = <<"client", h>>
      <4>1. 1 \in 1..Len(q) /\ q[1].pos = p
        BY <1>2, <3>2
      <4>2. InChannel(c, p, <<"channel", 1>>) /\ M(<<"channel", 1>>) = x
        BY <2>1, <2>6, <4>1, <3>2
      <4> QED
        BY <4>2 DEF Place
    <3>3. CASE InBuckets(c, p, x) \/ InBatches(c, p, x) \/ AtClient(c, p, x)
      BY <3>3, <2>4, <2>5 DEF Place
    <3> QED
      BY <2>7, <1>5, <2>3, <2>4, <3>1, <3>2, <3>3 DEF Place
  <2>8. ASSUME NEW y, Place(c, p, y) PROVE \E z : z = M(y) /\ Place(c, p, z)'
    <3>1. CASE InChannel(c, p, y)
      <4>1. PICK i \in 1..Len(q) : q[i].pos = p /\ y = <<"channel", i>>
        BY <3>1, <2>1
      <4>2. CASE i = 1
        <5>1. M(y) = <<"client", h>> /\ h.pos = p
          BY <4>1, <4>2, <1>2, <2>6
        <5> QED
          BY <5>1, <2>3 DEF Place
      <4>3. CASE i # 1
        <5>1. i - 1 \in 1..(Len(q) - 1) /\ (i - 1) + 1 = i
          BY <4>1, <4>3, <1>2
        <5>2. M(y) = <<"channel", i - 1>> /\ q[(i - 1) + 1].pos = p
          BY <4>1, <5>1, <2>6
        <5> QED
          BY <5>1, <5>2, <2>2 DEF Place
      <4> QED
        BY <4>2, <4>3
    <3>2. CASE InBuckets(c, p, y) \/ InBatches(c, p, y) \/ AtClient(c, p, y)
      <4>1. M(y) = y
        BY <3>2, <2>4, <2>5
      <4> QED
        BY <3>2, <4>1, <1>5, <2>3, <2>4 DEF Place
    <3> QED
      BY <2>8, <3>1, <3>2 DEF Place
  <2>9. Kept(c, p) /\ read' = read /\ link' = link
    BY <1>1 DEF ReplyInv, AllKept
  <2> QED
    BY <2>7, <2>8, <2>9 DEF Kept
<1> QED
  BY <1>4, <1>6, <1>7 DEF AllKept

\* A writer task that cannot write drops the channel with the connection.
LEMMA WriterBreaksKept ==
    ASSUME ReplyInv, NEW c \in Conns, WriterBreaks(c)
    PROVE  WriterServes' /\ AllKept'
<1>1. /\ link[c] = "broken" /\ replies' = [replies EXCEPT ![c] = <<>>]
      /\ writer' = [writer EXCEPT ![c] = "gone"]
      /\ UNCHANGED <<link, stage, read, groups, answers, queue>>
  BY DEF WriterBreaks, shardVars, dataVars
<1>2. /\ replies'[c] = <<>>
      /\ \A d \in Conns \ {c} : replies'[d] = replies[d] /\ writer'[d] = writer[d]
  BY <1>1 DEF ReplyInv, Inv, TypeOK
<1>3. WriterServes'
  BY <1>1, <1>2 DEF ReplyInv, WriterServes, HasBatch
<1>4. \A d \in Conns, p \in Nat : \A x : InBatches(d, p, x)' <=> InBatches(d, p, x)
  BY <1>1 DEF InBatches
<1>5. ASSUME NEW d \in Conns \ {c}, NEW p \in Nat PROVE Kept(d, p)'
  <2>1. \A x : Place(d, p, x)' <=> Place(d, p, x)
    BY <1>1, <1>2, <1>4, SamePlaces
  <2> QED
    BY <1>1, <2>1, KeptStays DEF ReplyInv, AllKept
<1>6. ASSUME NEW p \in Nat PROVE Kept(c, p)'
  <2>1. \A x : ~InChannel(c, p, x)'
    <3>1. \A i : i \notin 1..Len(<<>>)
      OBVIOUS
    <3> QED
      BY <1>2, <3>1 DEF InChannel
  <2>2. \A x : Place(c, p, x)' => Place(c, p, x)
    BY <1>1, <1>4, <2>1 DEF Place, InBuckets, AtClient
  <2> QED
    BY <1>1, <2>2, KeptLost DEF ReplyInv, AllKept
<1> QED
  BY <1>3, <1>5, <1>6 DEF AllKept

\* A shard turns an operation of its first batch into a reply in the channel of
\* the connection, or, the writer being gone, into nothing.
LEMMA ApplyKept ==
    ASSUME ReplyInv, NEW s \in Dirs, Apply(s)
    PROVE  WriterServes' /\ AllKept'
<1> DEFINE b == queue[s][1]
           c == b.conn
           p0 == b.ops[b.next]
           r == Result(b, store[s][Op(b).key])
           n == Len(replies[c])
           x0 == <<"batch", s, 1, b.next>>
<1>1. /\ queue[s] # <<>> /\ b.next <= Len(b.ops)
      /\ replies' = IF writer[c] = "running"
                    THEN [replies EXCEPT ![c] = Append(@, r)] ELSE replies
      /\ queue' = [queue EXCEPT ![s][1].next = @ + 1]
      /\ UNCHANGED <<link, stage, read, groups, writer, answers>>
  BY DEF Apply
<1>2. /\ queue[s] \in Seq(Batch) /\ b \in Batch /\ 1 \in 1..Len(queue[s])
      /\ c \in Conns /\ p0 \in Nat /\ HasBatch(s, c) /\ Op(b).op \in {"get", "set", "setex", "del"}
  BY <1>1, NextOp DEF ReplyInv
<1>3. b.next \in Nat \ {0} /\ Len(b.ops) \in Nat /\ b.next \in b.next..Len(b.ops)
  <2>1. b.next \in Nat \ {0} /\ b.ops \in Seq(Nat)
    BY <1>2 DEF Batch
  <2> QED
    BY <1>1, <2>1, LenProperties
<1>4. r.pos = p0
  BY <1>2 DEF Result, Plain
<1> DEFINE b2 == [b EXCEPT !.next = @ + 1]
<1>5. b2.conn = c /\ b2.ops = b.ops /\ b2.next = b.next + 1 /\ b2 \in Batch
  <2>1. b.next + 1 \in Nat \ {0}
    BY <1>3
  <2>2. \A m \in Nat \ {0} : LET a == [b EXCEPT !.next = m]
                            IN  a \in Batch /\ a.conn = b.conn /\ a.ops = b.ops /\ a.next = m
    BY <1>2 DEF Batch
  <2> QED
    BY <2>1, <2>2
<1>6. /\ \A t \in Dirs \ {s} : queue'[t] = queue[t]
      /\ Len(queue'[s]) = Len(queue[s]) /\ queue'[s][1] = b2
      /\ \A i \in 1..Len(queue[s]) : i # 1 => queue'[s][i] = queue[s][i]
  <2>1. queue' = [queue EXCEPT ![s] = [queue[s] EXCEPT ![1] = b2]]
    BY <1>1
  <2> HIDE DEF b2
  <2>2. queue'[s] = [queue[s] EXCEPT ![1] = b2] /\ \A t \in Dirs \ {s} : queue'[t] = queue[t]
    BY <2>1 DEF ReplyInv, Inv, TypeOK
  <2> QED
    BY <1>2, <1>5, <2>2, ExceptSeq
<1> HIDE DEF b2, r
<1>7. \A d \in Conns \ {c} : replies'[d] = replies[d]
  BY <1>1, <1>2 DEF ReplyInv, Inv, TypeOK
<1>12. ASSUME writer[c] = "running"
       PROVE  /\ n \in Nat /\ Len(replies'[c]) = n + 1 /\ replies'[c][n + 1] = r
              /\ \A i \in 1..n : replies'[c][i] = replies[c][i]
  <2>1. replies \in [Conns -> Seq(Reply)]
    BY DEF ReplyInv, Inv, TypeOK
  <2>2. replies[c] \in Seq(Reply) /\ replies'[c] = Append(replies[c], r)
    BY <1>1, <1>2, <1>12, <2>1
  <2> HIDE DEF c
  <2> QED
    BY <2>2, AppendAny
<1>8. WriterServes'
  <2> SUFFICES ASSUME NEW d \in Conns, link[d] # "broken", writer[d] # "running"
               PROVE  stage[d] # "serving" /\ replies'[d] = <<>> /\ \A t \in Dirs : ~HasBatch(t, d)'
    BY <1>1 DEF WriterServes
  <2>1. stage[d] # "serving" /\ replies[d] = <<>> /\ \A t \in Dirs : ~HasBatch(t, d)
    BY DEF ReplyInv, WriterServes
  <2>2. d # c
    BY <1>2, <2>1
  <2>3. \A t \in Dirs : \A i \in 1..Len(queue'[t]) : queue'[t][i].conn # d
    BY <1>5, <1>6, <2>1, <2>2 DEF HasBatch
  <2> QED
    BY <1>7, <2>1, <2>2, <2>3 DEF HasBatch
<1>9. ASSUME NEW d \in Conns, NEW p \in Nat, NEW x
      PROVE  /\ InBatches(d, p, x) <=> InBatches(d, p, x)' \/ (d = c /\ p = p0 /\ x = x0)
             /\ InBatches(d, p, x)' => x # x0
  <2> DEFINE InB(q, t, i) == q[t][i].conn = d /\ \E j \in q[t][i].next..Len(q[t][i].ops) :
                                 q[t][i].ops[j] = p /\ x = <<"batch", t, i, j>>
             Here(t) == \E i \in 1..Len(queue[t]) : InB(queue, t, i)
             Then(t) == \E i \in 1..Len(queue'[t]) : InB(queue', t, i)
  <2>1. (InBatches(d, p, x) <=> \E t \in Dirs : Here(t)) /\ (InBatches(d, p, x)' <=> \E t \in Dirs : Then(t))
    BY DEF InBatches
  <2>0. \A t, i : t # s \/ i # 1 => (InB(queue', t, i) => x # x0)
    <3>1. \A t, i, j : <<"batch", t, i, j>> = x0 => t = s /\ i = 1
      OBVIOUS
    <3> HIDE DEF x0
    <3> QED
      BY <3>1
  <2>2. \A t \in Dirs \ {s} : /\ Then(t) <=> Here(t)
                              /\ Then(t) => x # x0
    <3>1. \A t \in Dirs \ {s} : Then(t) <=> Here(t)
      BY <1>6
    <3> HIDE DEF x0, InB
    <3>2. \A t \in Dirs \ {s} : Then(t) => x # x0
      BY <2>0
    <3> QED
      BY <3>1, <3>2
  <2>3. \A i \in 1..Len(queue[s]) : i # 1 => /\ InB(queue', s, i) <=> InB(queue, s, i)
                                             /\ InB(queue', s, i) => x # x0
    <3> SUFFICES ASSUME NEW i \in 1..Len(queue[s]), i # 1
                 PROVE  InB(queue', s, i) <=> InB(queue, s, i)
      BY <2>0
    <3>1. queue'[s][i] = queue[s][i]
      BY <1>6
    <3> QED
      BY <3>1
  <2>4. /\ InB(queue, s, 1) <=> InB(queue', s, 1) \/ (d = c /\ p = p0 /\ x = x0)
        /\ InB(queue', s, 1) => x # x0
    <3>1. b.next..Len(b.ops) = {b.next} \cup (b.next + 1)..Len(b.ops)
      BY <1>3
    <3>2. b.next \notin (b.next + 1)..Len(b.ops)
      BY <1>3
    <3> DEFINE At1(j) == b.ops[j] = p /\ x = <<"batch", s, 1, j>>
    <3>3. InB(queue, s, 1) <=> c = d /\ \E j \in b.next..Len(b.ops) : At1(j)
      OBVIOUS
    <3>4. InB(queue', s, 1) <=> c = d /\ \E j \in (b.next + 1)..Len(b.ops) : At1(j)
      BY <1>5, <1>6
    <3>5. At1(b.next) <=> p = p0 /\ x = x0
      OBVIOUS
    <3>6. \A j : At1(j) /\ x = x0 => j = b.next
      OBVIOUS
    <3> HIDE DEF InB, At1, x0, c, p0, b
    <3> QED
      BY <3>1, <3>2, <3>3, <3>4, <3>5, <3>6
  <2> HIDE DEF InB
  <2>5. /\ Here(s) <=> Then(s) \/ (d = c /\ p = p0 /\ x = x0)
        /\ Then(s) => x # x0
    BY <1>2, <1>6, <2>3, <2>4
  <2> HIDE DEF Here, Then
  <2> QED
    BY <2>1, <2>2, <2>5
<1>10. ASSUME NEW d \in Conns, NEW p \in Nat, d # c \/ p # p0 PROVE Kept(d, p)'
  <2>1. \A x : InBatches(d, p, x)' <=> InBatches(d, p, x)
    BY <1>9, <1>10
  <2>2. \A x : InChannel(d, p, x)' <=> InChannel(d, p, x)
    <3>1. CASE d # c
      BY <3>1, <1>7 DEF InChannel
    <3>2. CASE d = c /\ writer[c] # "running"
      BY <3>2, <1>1 DEF InChannel
    <3>3. CASE d = c /\ p # p0 /\ writer[c] = "running"
      <4>2. /\ n \in Nat /\ Len(replies'[c]) = n + 1 /\ replies'[c][n + 1] = r
            /\ \A i \in 1..n : replies'[c][i] = replies[c][i]
        BY <1>12, <3>3
      <4>3. 1..Len(replies[c]) = 1..n /\ 1..Len(replies'[c]) = 1..n \cup {n + 1}
        BY <4>2
      <4> HIDE DEF n, c, p0
      <4> QED
        BY <1>4, <3>3, <4>2, <4>3 DEF InChannel
    <3> QED
      BY <1>10, <3>1, <3>2, <3>3
  <2>3. \A x : Place(d, p, x)' <=> Place(d, p, x)
    BY <1>1, <2>1, <2>2 DEF Place, InBuckets, AtClient
  <2> QED
    BY <1>1, <2>3, KeptStays DEF ReplyInv, AllKept
<1>11. ASSUME NEW d \in Conns, NEW p \in Nat, d = c, p = p0 PROVE Kept(d, p)'
  <2>1. Kept(d, p) /\ read' = read /\ link' = link
    BY <1>1 DEF ReplyInv, AllKept
  <2>2. Place(d, p, x0)
    BY <1>9, <1>11 DEF Place
  <2>3. \A x : Place(d, p, x) => x = x0
    BY <2>1, <2>2 DEF Kept
  <2>4. \A x : /\ InBuckets(d, p, x) \/ InChannel(d, p, x) \/ AtClient(d, p, x) => x[1] # "batch"
               /\ (InBuckets(d, p, x)' <=> InBuckets(d, p, x)) /\ (AtClient(d, p, x)' <=> AtClient(d, p, x))
    BY <1>1 DEF InBuckets, InChannel, AtClient
  <2>5. x0[1] = "batch"
    OBVIOUS
  <2> HIDE DEF x0
  <2>6. \A x : ~InBuckets(d, p, x) /\ ~InChannel(d, p, x) /\ ~AtClient(d, p, x)
    BY <2>3, <2>4, <2>5 DEF Place
  <2>7. \A x : ~InBatches(d, p, x)'
    <3> SUFFICES ASSUME NEW x, InBatches(d, p, x)' PROVE FALSE
      OBVIOUS
    <3>1. InBatches(d, p, x) /\ x # x0
      BY <1>9
    <3> QED
      BY <2>3, <3>1 DEF Place
  <2>9. ~(p > read'[d])
    BY <2>1, <2>2 DEF Kept
  <2>10. CASE writer[c] = "running"
    <3>2. /\ n \in Nat /\ Len(replies'[c]) = n + 1 /\ replies'[c][n + 1] = r
          /\ \A i \in 1..n : replies'[c][i] = replies[c][i]
      BY <1>12, <2>10
    <3>3. 1..Len(replies[c]) = 1..n /\ 1..Len(replies'[c]) = 1..n \cup {n + 1}
      BY <3>2
    <3> HIDE DEF n, c, p0
    <3>4. \A x : InChannel(d, p, x)' <=> InChannel(d, p, x) \/ x = <<"channel", n + 1>>
      BY <1>4, <1>11, <3>2, <3>3 DEF InChannel
    <3>5. \A x : Place(d, p, x)' <=> x = <<"channel", n + 1>>
      BY <2>4, <2>6, <2>7, <3>4 DEF Place
    <3>6. PICK z : z = <<"channel", n + 1>>
      OBVIOUS
    <3>7. \A x : Place(d, p, x)' <=> x = z
      BY <3>5, <3>6
    <3> QED
      BY <2>9, <3>7 DEF Kept
  <2>11. CASE writer[c] # "running"
    <3>1. link[d] = "broken"
      BY <1>2, <1>11, <2>11 DEF ReplyInv, WriterServes
    <3>2. \A x : ~InChannel(d, p, x)'
      BY <1>1, <2>6, <2>11 DEF InChannel
    <3>3. \A x : ~Place(d, p, x)'
      BY <2>4, <2>6, <2>7, <3>2 DEF Place
    <3> QED
      BY <2>1, <3>1, <3>3 DEF Kept
  <2> QED
    BY <2>10, <2>11
<1> QED
  BY <1>8, <1>10, <1>11 DEF AllKept

\* The batch that ends has been applied to its last operation; the others move up.
LEMMA EndBatchKept ==
    ASSUME ReplyInv, NEW s \in Dirs, EndBatch(s)
    PROVE  WriterServes' /\ AllKept'
<1> DEFINE q == queue[s]
<1>1. /\ q # <<>> /\ q[1].next > Len(q[1].ops)
      /\ queue' = [queue EXCEPT ![s] = Tail(@)]
      /\ UNCHANGED <<link, stage, read, groups, writer, replies, answers>>
  BY DEF EndBatch, connVars
<1>2. /\ Len(q) \in Nat \ {0} /\ Len(Tail(q)) = Len(q) - 1 /\ q[1] \in Batch
      /\ \A i \in 1..(Len(q) - 1) : Tail(q)[i] = q[i + 1] /\ i + 1 \in 1..Len(q)
  <2>1. q \in Seq(Batch)
    BY DEF ReplyInv, Inv, TypeOK
  <2> QED
    BY <1>1, <2>1, TailSeq
<1>3. queue'[s] = Tail(q) /\ \A t \in Dirs \ {s} : queue'[t] = queue[t]
  BY <1>1 DEF ReplyInv, Inv, TypeOK
<1>4. q[1].next..Len(q[1].ops) = {}
  <2>1. q[1].next \in Nat /\ Len(q[1].ops) \in Nat
    BY <1>2, LenProperties DEF Batch
  <2> QED
    BY <1>1, <2>1
<1>5. WriterServes'
  <2> SUFFICES ASSUME NEW d \in Conns, link[d] # "broken", writer[d] # "running"
               PROVE  stage[d] # "serving" /\ replies[d] = <<>> /\ \A t \in Dirs : ~HasBatch(t, d)'
    BY <1>1 DEF WriterServes
  <2>1. stage[d] # "serving" /\ replies[d] = <<>> /\ \A t \in Dirs : ~HasBatch(t, d)
    BY DEF ReplyInv, WriterServes
  <2>2. \A t \in Dirs \ {s} : \A i \in 1..Len(queue'[t]) : queue'[t][i].conn # d
    BY <1>3, <2>1 DEF HasBatch
  <2>3. \A i \in 1..Len(q) : q[i].conn # d
    BY <2>1 DEF HasBatch
  <2>4. \A i \in 1..Len(queue'[s]) : queue'[s][i].conn # d
    BY <1>2, <1>3, <2>3
  <2> QED
    BY <2>1, <2>2, <2>4 DEF HasBatch
<1>6. ASSUME NEW c \in Conns, NEW p \in Nat PROVE Kept(c, p)'
  <2> DEFINE InB(bs, t, i, x) == bs[i].conn = c /\ \E j \in bs[i].next..Len(bs[i].ops) :
                                    bs[i].ops[j] = p /\ x = <<"batch", t, i, j>>
             M(x) == IF x[1] = "batch" /\ x[2] = s THEN <<"batch", s, x[3] - 1, x[4]>> ELSE x
  <2>1. \A x : /\ InBatches(c, p, x) <=> \E t \in Dirs : \E i \in 1..Len(queue[t]) : InB(queue[t], t, i, x)
               /\ InBatches(c, p, x)' <=>
                      \E t \in Dirs : \E i \in 1..Len(queue'[t]) : InB(queue'[t], t, i, x)
    BY DEF InBatches
  <2>2. \A x : /\ (InBuckets(c, p, x)' <=> InBuckets(c, p, x))
               /\ (InChannel(c, p, x)' <=> InChannel(c, p, x))
               /\ (AtClient(c, p, x)' <=> AtClient(c, p, x))
               /\ InBuckets(c, p, x) \/ InChannel(c, p, x) \/ AtClient(c, p, x) => x[1] # "batch"
    BY <1>1 DEF InBuckets, InChannel, AtClient
  <2>3. \A x : x[1] # "batch" => M(x) = x
    OBVIOUS
  <2>4. \A x : ~InB(q, s, 1, x)
    BY <1>4
  <2>5. \A t, i, x : InB(queue[t], t, i, x) /\ t # s => M(x) = x
    OBVIOUS
  <2>6. ASSUME NEW i \in 1..(Len(q) - 1), NEW x, InB(Tail(q), s, i, x)
        PROVE  \E y : InB(q, s, i + 1, y) /\ x = M(y)
    <3>1. PICK j \in q[i + 1].next..Len(q[i + 1].ops) : q[i + 1].ops[j] = p /\ x = <<"batch", s, i, j>>
      BY <1>2, <2>6
    <3>2. (i + 1) - 1 = i /\ q[i + 1].conn = c
      BY <1>2, <2>6
    <3>3. InB(q, s, i + 1, <<"batch", s, i + 1, j>>) /\ M(<<"batch", s, i + 1, j>>) = x
      BY <3>1, <3>2
    <3> QED
      BY <3>3
  <2>7. ASSUME NEW i \in 1..Len(q), NEW y, InB(q, s, i, y)
        PROVE  i - 1 \in 1..(Len(q) - 1) /\ InB(Tail(q), s, i - 1, M(y))
    <3>1. i # 1
      BY <2>4, <2>7
    <3>2. i - 1 \in 1..(Len(q) - 1) /\ (i - 1) + 1 = i
      BY <1>2, <3>1
    <3>3. Tail(q)[i - 1] = q[i]
      BY <1>2, <3>2
    <3>4. PICK j \in q[i].next..Len(q[i].ops) : q[i].ops[j] = p /\ y = <<"batch", s, i, j>>
      BY <2>7
    <3>5. M(y) = <<"batch", s, i - 1, j>>
      BY <3>4
    <3> QED
      BY <2>7, <3>2, <3>3, <3>4, <3>5
  <2>8. queue[s] = q
    OBVIOUS
  <2> HIDE DEF InB, M, q
  <2>9. ASSUME NEW x, Place(c, p, x)' PROVE \E y : Place(c, p, y) /\ x = M(y)
    <3>1. CASE InBatches(c, p, x)'
      <4>1. PICK t \in Dirs : \E i \in 1..Len(queue'[t]) : InB(queue'[t], t, i, x)
        BY <3>1, <2>1
      <4>2. CASE t # s
        BY <4>1, <4>2, <1>3, <2>1, <2>5 DEF Place
      <4>3. CASE t = s
        <5>1. PICK i \in 1..(Len(q) - 1) : InB(Tail(q), s, i, x)
          BY <4>1, <4>3, <1>2, <1>3
        <5>2. PICK y : InB(q, s, i + 1, y) /\ x = M(y)
          BY <5>1, <2>6
        <5>3. i + 1 \in 1..Len(queue[s]) /\ InB(queue[s], s, i + 1, y)
          BY <1>2, <2>8, <5>2
        <5>4. InBatches(c, p, y)
          BY <5>3, <2>1
        <5> QED
          BY <5>2, <5>4 DEF Place
      <4> QED
        BY <4>2, <4>3
    <3>2. CASE InBuckets(c, p, x) \/ InChannel(c, p, x) \/ AtClient(c, p, x)
      BY <3>2, <2>2, <2>3 DEF Place
    <3> QED
      BY <2>9, <2>2, <3>1, <3>2 DEF Place
  <2>10. ASSUME NEW y, Place(c, p, y) PROVE \E z : z = M(y) /\ Place(c, p, z)'
    <3>1. PICK z : z = M(y)
      OBVIOUS
    <3>2. CASE InBatches(c, p, y)
      <4>1. PICK t \in Dirs : \E i \in 1..Len(queue[t]) : InB(queue[t], t, i, y)
        BY <3>2, <2>1
      <4>2. CASE t # s
        <5>1. z = y /\ queue'[t] = queue[t]
          BY <4>1, <4>2, <1>3, <2>5, <3>1
        <5>2. InBatches(c, p, z)'
          BY <4>1, <5>1, <2>1
        <5> QED
          BY <3>1, <5>2 DEF Place
      <4>3. CASE t = s
        <5>1. PICK i \in 1..Len(q) : InB(q, s, i, y)
          BY <4>1, <4>3, <2>8
        <5>2. i - 1 \in 1..Len(queue'[s]) /\ InB(queue'[s], s, i - 1, z)
          BY <5>1, <2>7, <1>2, <1>3, <3>1
        <5>3. InBatches(c, p, z)'
          BY <5>2, <2>1
        <5> QED
          BY <3>1, <5>3 DEF Place
      <4> QED
        BY <4>2, <4>3
    <3>3. CASE InBuckets(c, p, y) \/ InChannel(c, p, y) \/ AtClient(c, p, y)
      <4>1. z = y
        BY <3>1, <3>3, <2>2, <2>3
      <4> QED
        BY <3>1, <3>3, <4>1, <2>2 DEF Place
    <3> QED
      BY <2>10, <3>2, <3>3 DEF Place
  <2>11. Kept(c, p) /\ read' = read /\ link' = link
    BY <1>1 DEF ReplyInv, AllKept
  <2> QED
    BY <2>9, <2>10, <2>11 DEF Kept
<1> QED
  BY <1>5, <1>6 DEF AllKept

\* A connection that is still served breaks with the process; one that is not
\* has nothing left to lose.
LEMMA StopKept ==
    ASSUME ReplyInv, Stop
    PROVE  WriterServes' /\ AllKept'
<1>1. /\ stage' = [c \in Conns |-> IF stage[c] = "none" THEN "none" ELSE "ended"]
      /\ link' = [c \in Conns |-> IF Connected(c) THEN "broken" ELSE link[c]]
      /\ writer' = [c \in Conns |-> IF writer[c] = "running" THEN "gone" ELSE writer[c]]
      /\ replies' = [c \in Conns |-> <<>>] /\ queue' = NoBatches
      /\ UNCHANGED <<read, groups, answers>>
  BY DEF Stop
<1>2. \A i : i \notin 1..Len(<<>>)
  OBVIOUS
<1>3. \A t \in Dirs : \A c : ~HasBatch(t, c)'
  BY <1>1, <1>2 DEF HasBatch, NoBatches
<1>4. WriterServes'
  BY <1>1, <1>3 DEF WriterServes
<1>5. ASSUME NEW c \in Conns, NEW p \in Nat PROVE Kept(c, p)'
  <2>1. \A x : /\ ~InBatches(c, p, x)' /\ ~InChannel(c, p, x)'
               /\ InBuckets(c, p, x)' <=> InBuckets(c, p, x)
               /\ AtClient(c, p, x)' <=> AtClient(c, p, x)
    BY <1>1, <1>2 DEF InBatches, InChannel, InBuckets, AtClient, NoBatches
  <2>2. Kept(c, p) /\ read'[c] = read[c]
    BY <1>1 DEF ReplyInv, AllKept
  <2>3. CASE link'[c] = "broken"
    <3>1. \A x : Place(c, p, x)' => Place(c, p, x)
      BY <2>1 DEF Place
    <3> QED
      BY <2>2, <2>3, <3>1, KeptLost
  <2>4. CASE link'[c] # "broken"
    <3>1. link[c] # "broken" /\ writer[c] # "running"
      BY <1>1, <2>4 DEF Connected
    <3>2. replies[c] = <<>> /\ \A t \in Dirs : ~HasBatch(t, c)
      BY <3>1 DEF ReplyInv, WriterServes
    <3>3. \A x : ~InBatches(c, p, x) /\ ~InChannel(c, p, x)
      BY <1>2, <3>2 DEF InBatches, InChannel, HasBatch
    <3>4. \A x : Place(c, p, x)' <=> Place(c, p, x)
      BY <2>1, <3>3 DEF Place
    <3> QED
      BY <2>2, <3>1, <3>4, KeptStays
  <2> QED
    BY <2>3, <2>4
<1> QED
  BY <1>4, <1>5 DEF AllKept

-----------------------------------------------------------------------------
LEMMA InitReply == Init => ReplyInv
<1> SUFFICES ASSUME Init PROVE ReplyInv
  OBVIOUS
<1>1. \A i : i \notin 1..Len(<<>>)
  OBVIOUS
<1>2. \A c \in Conns, p \in Nat : \A x : ~Place(c, p, x)
  <2>1. \A c \in Conns, p \in Nat : \A x : ~InBuckets(c, p, x) /\ ~InBatches(c, p, x)
    BY <1>1 DEF Init, InBuckets, InBatches, NoGroups, NoBatches
  <2>2. \A c \in Conns, p \in Nat : \A x : ~InChannel(c, p, x) /\ ~AtClient(c, p, x)
    BY <1>1 DEF Init, InChannel, AtClient
  <2> QED
    BY <2>1, <2>2 DEF Place
<1>3. AllKept
  <2>1. \A c \in Conns : read[c] = 0
    BY DEF Init
  <2>2. \A p : p \notin 1..0
    OBVIOUS
  <2> QED
    BY <1>2, <2>1, <2>2 DEF AllKept, Kept
<1>4. WriterServes
  BY <1>1 DEF Init, WriterServes, HasBatch, NoBatches
<1> QED
  BY <1>3, <1>4, InitInv DEF ReplyInv

LEMMA NextReply == ReplyInv /\ [Next]_vars => ReplyInv'
<1> SUFFICES ASSUME ReplyInv, [Next]_vars PROVE WriterServes' /\ AllKept'
  BY NextInv DEF ReplyInv
<1>1. ASSUME NEW c \in Conns, Client(c) PROVE WriterServes' /\ AllKept'
  BY <1>1, QuietKept DEF Client
<1>2. ASSUME NEW c \in Conns, Reader(c) PROVE WriterServes' /\ AllKept'
  BY <1>2, QuietKept, HandshakeKept, PlanOpKept, PlanImmediateKept, DispatchKept DEF Reader
<1>3. ASSUME NEW c \in Conns, Writer(c) PROVE WriterServes' /\ AllKept'
  BY <1>3, QuietKept, WriterSendsKept, WriterBreaksKept DEF Writer
<1>4. ASSUME NEW s \in Dirs, Worker(s) PROVE WriterServes' /\ AllKept'
  BY <1>4, ApplyKept, EndBatchKept DEF Worker
<1>5. CASE Stop
  BY <1>5, StopKept
<1>6. CASE UNCHANGED <<connVars, queue>>
  <2>1. UNCHANGED <<link, stage, read, groups, replies, writer, answers, queue>>
    BY <1>6 DEF connVars
  <2>2. AllKept'
    BY <2>1, NothingMoves DEF ReplyInv
  <2> QED
    BY <2>1, <2>2 DEF ReplyInv, WriterServes, HasBatch
<1>7. ASSUME \/ \E s \in Dirs, k \in Keys : Expire(s, k)
             \/ \E n \in WORKERS : Start(n)
             \/ UNCHANGED vars
      PROVE  UNCHANGED <<connVars, queue>>
  BY <1>7 DEF Expire, Start, vars, shardVars, dataVars
<1> QED
  BY <1>1, <1>2, <1>3, <1>4, <1>5, <1>6, <1>7 DEF Next

\* Every frame that was planned, and its reply after it, is in exactly one
\* place until its connection breaks, and never in two: neither the buckets, the
\* batches of several shards, a reader that returns early, a writer task that
\* ends nor a kill of the process loses a reply or sends one twice.
THEOREM RepliesExactlyOnce == Spec => []OneReplyPerRequest
<1>1. ReplyInv => OneReplyPerRequest
  <2> SUFFICES ASSUME ReplyInv, NEW c \in Conns, NEW p \in 1..read[c]
               PROVE  Copies(c, p) <= 1 /\ (link[c] # "broken" => Copies(c, p) = 1)
    BY DEF OneReplyPerRequest
  <2>1. read[c] \in Nat
    BY DEF ReplyInv, Inv, TypeOK
  <2>2. p \in Nat
    BY <2>1
  <2>3. Kept(c, p)
    BY <2>2 DEF ReplyInv, AllKept
  <2> QED
    BY <2>3, KeptCounts
<1> QED
  BY <1>1, InitReply, NextReply, PTL DEF Spec
=============================================================================
